---------------------------- MODULE Cascade_proofs ----------------------------
(***************************************************************************)
(* Proofs about Cascade.  For any bundles, whatever part of CT they hold,  *)
(* and whichever layer answers each query of a walk: the evidence names,   *)
(* for each key, the successor that the pool names or the one CT names,    *)
(* and a document is verified only along commitments that are in CT.  For  *)
(* bundles that hide no fork: a verdict agrees with CT, pooling more       *)
(* undoes none, and a walk misses nothing that CT had when its pool is     *)
(* whole.                                                                  *)
(***************************************************************************)
EXTENDS Cascade, CtLog_proofs

\* What evidence holds of key k is what the pool holds, or it has CT's first
\* commitment.
FromALayer(pool, got, k) ==
    \/ Commitments(k, got) \in {{}, Commitments(k, pool)}
    \/ \E c \in got : IsFirst(c, k, ct)

\* The pool of source s and the certificates of request r are a part of CT, and a
\* walk has its certificates from the layers.
Evident(s, r) ==
    /\ s.pool \subseteq ct
    /\ r.got \subseteq ct
    /\ r.step # "chain" => r.got = {}
    /\ \A k \in Key : FromALayer(s.pool, r.got, k)

InvEvident == \A p \in Proc : Evident(source[p], req[p])

InvTypes ==
    /\ source \in [Proc -> Source]
    /\ req \in [Proc -> Request]

IInv == LogSound /\ InvShape /\ InvTypes /\ InvEvident

-----------------------------------------------------------------------------
(* Pools and what they answer.                                             *)

\* A pool that hides no fork holds, with a commitment of a key, the first one.
LEMMA CandidIsFaithful ==
    ASSUME LogSound, NEW A, A \subseteq ct, Candid(A)
    PROVE  Faithful(A)
<1> SUFFICES ASSUME NEW k \in Key, Commitments(k, A) # {}
             PROVE  \E c \in A : IsFirst(c, k, ct)
  BY DEF Faithful
<1>1. PICK c \in Commitments(k, A) : \A x \in Commitments(k, ct) : c.at <= x.at
  BY DEF Candid
<1>2. c \in A /\ c \in Commitments(k, ct)
  BY <1>1 DEF Commitments
<1> QED BY <1>1, <1>2 DEF IsFirst

\* The evidence of a walk names, for each key, the successor that a layer names.
LEMMA LayerAgrees ==
    ASSUME LogSound, NEW s, NEW r, Evident(s, r), NEW k \in Key
    PROVE  EarliestSuccessor(k, r.got) \in
               {NoKey, EarliestSuccessor(k, s.pool), EarliestSuccessor(k, ct)}
<1>1. CASE Commitments(k, r.got) = {}
  BY <1>1, NoneCommitted
<1>2. CASE Commitments(k, r.got) = Commitments(k, s.pool)
  BY <1>2, SameCommitments
<1>3. ASSUME NEW c \in r.got, IsFirst(c, k, ct)
      PROVE  EarliestSuccessor(k, r.got) = EarliestSuccessor(k, ct)
  <2>1. /\ r.got \in SUBSET Cert /\ Ordered(r.got)
        /\ ct \in SUBSET Cert /\ Ordered(ct)
    BY DEF Evident, LogSound, LogTypeOK, Ordered
  <2>2. IsFirst(c, k, r.got)
    BY <1>3 DEF Evident, IsFirst, Commitments
  <2> QED BY <1>3, <2>1, <2>2, FirstWins
<1> QED BY <1>1, <1>2, <1>3 DEF Evident, FromALayer

\* A walk over a pool that hides no fork has faithful evidence.
LEMMA FaithfulWalk ==
    ASSUME NEW s, NEW r, Evident(s, r), Faithful(s.pool)
    PROVE  Faithful(r.got)
<1> SUFFICES ASSUME NEW k \in Key, Commitments(k, r.got) # {}
             PROVE  \E c \in r.got : IsFirst(c, k, ct)
  BY DEF Faithful, Evident
<1>1. CASE Commitments(k, r.got) = Commitments(k, s.pool)
  <2>1. PICK c \in s.pool : IsFirst(c, k, ct)
    BY <1>1 DEF Faithful
  <2>2. c \in Commitments(k, s.pool)
    BY <2>1 DEF IsFirst, Commitments
  <2>3. c \in r.got
    BY <1>1, <2>2 DEF Commitments
  <2> QED BY <2>1, <2>3
<1> QED BY <1>1 DEF Evident, FromALayer

\* What a pool answers about a key is faithful: it is all the pool has of it.
LEMMA OfKeyIsFaithful ==
    ASSUME NEW A, Faithful(A), NEW k \in Key
    PROVE  Faithful(OfKey(k, A))
<1> DEFINE certs == OfKey(k, A)
<1>1. certs \subseteq ct
  BY DEF Faithful, OfKey
<1>2. ASSUME NEW x \in Key, Commitments(x, certs) # {}
      PROVE  \E c \in certs : IsFirst(c, x, ct)
  <2>1. x = k /\ Commitments(k, A) # {}
    BY <1>2 DEF Commitments, OfKey
  <2>2. PICK c \in A : IsFirst(c, k, ct)
    BY <2>1 DEF Faithful
  <2>3. c \in certs
    BY <2>2 DEF IsFirst, Commitments, OfKey
  <2> QED BY <2>1, <2>2, <2>3
<1> QED BY <1>1, <1>2 DEF Faithful

\* What is known of an address holds no commitment.
LEMMA AddressHasNoCommitment ==
    ASSUME InvShape, NEW a \in Addr, NEW certs, certs \subseteq OfAddress(a, ct)
    PROVE  \A k : Commitments(k, certs) = {}
BY AddrAssumption DEF InvShape, Commitments, OfAddress

-----------------------------------------------------------------------------
(* The inductive invariant.                                                *)

\* A source and a request as they begin hold no evidence.
LEMMA BlankTypes ==
    /\ NoSource \in Source /\ NoSource.pool = {}
    /\ NoRequest \in Request /\ NoRequest.got = {} /\ NoRequest.step = "idle"
BY AddrAssumption DEF NoSource, Source, NoRequest, Request, AnyAddr

\* With no certificates at hand there is nothing to prove of them.
LEMMA NothingIsEvident ==
    ASSUME NEW s, s.pool \subseteq ct, NEW r, r.got = {}
    PROVE  Evident(s, r)
BY DEF Evident, FromALayer, Commitments

\* A step that logs nothing.
LEMMA QuietStep ==
    ASSUME IInv, UNCHANGED <<ct, logged>>, today' \in Nat, InvTypes',
           \A p \in Proc : Evident(source'[p], req'[p])
    PROVE  IInv'
<1>1. LogSound'
  BY DEF IInv, LogSound, LogTypeOK, Ordered, IsFirst, Commitments
<1>2. InvShape'
  BY DEF IInv, InvShape
<1>3. InvEvident'
  BY DEF InvEvident, Evident, FromALayer, IsFirst, Commitments
<1> QED BY <1>1, <1>2, <1>3 DEF IInv

\* A certificate logged, which never has both an address and a successor, comes
\* after all that is pooled or fetched.
LEMMA LoggingStep ==
    ASSUME IInv, NEW c \in Cert, Log(c), UNCHANGED <<source, req>>,
           c.addr = NoAddr \/ c.succ = NoKey
    PROVE  IInv'
<1>1. LogSound'
  BY LogKeepsSound DEF IInv
<1>2. InvShape'
  <2>1. ct' = ct \cup {Stamped(c)} /\ Stamped(c).addr = c.addr /\ Stamped(c).succ = c.succ
    BY StampedType DEF Log, Stamped, IInv
  <2> QED BY <2>1 DEF IInv, InvShape
<1>3. InvTypes'
  BY DEF IInv, InvTypes
<1>4. InvEvident'
  <2>1. ct \subseteq ct'
    BY DEF Log
  <2>2. \A k \in Key, x \in ct : IsFirst(x, k, ct) => IsFirst(x, k, ct')
    BY FirstAfterLog DEF IInv
  <2> QED BY <2>1, <2>2 DEF IInv, InvEvident, Evident, FromALayer
<1> QED BY <1>1, <1>2, <1>3, <1>4 DEF IInv

\* A step of one process, which gives it source s and request r.
LEMMA LayerStep ==
    ASSUME IInv, UNCHANGED <<ct, logged, today>>, NEW p \in Proc,
           NEW s \in Source, NEW r \in Request,
           source' = [source EXCEPT ![p] = s], req' = [req EXCEPT ![p] = r],
           Evident(s, r)
    PROVE  IInv'
<1>1. /\ InvTypes' /\ today' \in Nat
      /\ \A q \in Proc : /\ source'[q] = IF q = p THEN s ELSE source[q]
                         /\ req'[q] = IF q = p THEN r ELSE req[q]
  BY DEF IInv, InvTypes, LogSound, LogTypeOK
<1>2. \A q \in Proc : Evident(source'[q], req'[q])
  BY <1>1 DEF IInv, InvEvident
<1> QED BY <1>1, <1>2, QuietStep

\* What a process has at hand before a step.
LEMMA AtHand ==
    ASSUME IInv, NEW p \in Proc
    PROVE  /\ source[p] \in Source /\ req[p] \in Request /\ req[p].addr \in Addr
           /\ Evident(source[p], req[p])
           /\ source[p].pool \subseteq ct /\ req[p].got \subseteq ct
           /\ source = [source EXCEPT ![p] = source[p]]
           /\ req = [req EXCEPT ![p] = req[p]]
BY DEF IInv, InvTypes, InvEvident, Evident, Request

\* A source built from whatever part of CT the directory holds,
LEMMA StartStep ==
    ASSUME IInv, NEW p \in Proc, NEW kind \in {"local", "cascade"},
           NEW certs \in Bundle, Start(p, kind, certs)
    PROVE  IInv'
<1> DEFINE s == [NoSource EXCEPT !.kind = kind, !.pool = certs]
<1>1. /\ source' = [source EXCEPT ![p] = s] /\ UNCHANGED <<ct, logged, today>>
      /\ req' = [req EXCEPT ![p] = req[p]] /\ req[p].step = "idle"
  BY AtHand DEF Start
<1>2. certs \subseteq ct /\ certs \in SUBSET Cert
  BY DEF Bundle, IInv, LogSound, LogTypeOK
<1>3. s \in Source /\ s.pool = certs
  BY <1>2 DEF NoSource, Source
<1> HIDE DEF s
<1>4. req[p].got = {}
  BY <1>1, AtHand DEF Evident
<1>5. Evident(s, req[p])
  BY <1>2, <1>3, <1>4, NothingIsEvident
<1> QED BY <1>1, <1>3, <1>5, AtHand, LayerStep

\* asking about a document,
LEMMA AskStep ==
    ASSUME IInv, NEW p \in Proc, NEW doc \in Document, NEW a \in Addr,
           NEW d \in 0..LastDay, Ask(p, doc, a, d)
    PROVE  IInv'
<1> DEFINE r == [NoRequest EXCEPT !.step = "address", !.doc = doc, !.addr = a,
                                  !.day = d, !.asked = logged]
<1>1. /\ req' = [req EXCEPT ![p] = r] /\ UNCHANGED <<ct, logged, today>>
      /\ source' = [source EXCEPT ![p] = source[p]]
  BY AtHand DEF Ask
<1>2. d \in Nat /\ logged \in Nat /\ doc \in Key \cup {NoKey}
  BY CascadeAssumption DEF IInv, LogSound, LogTypeOK
<1>3. r \in Request /\ r.got = {}
  BY <1>2, AddrAssumption DEF NoRequest, Request, AnyAddr
<1> HIDE DEF r
<1>4. Evident(source[p], r)
  BY <1>3, AtHand, NothingIsEvident
<1> QED BY <1>1, <1>3, <1>4, AtHand, LayerStep

\* the certificates of an address, from a source that only has its flag changed,
LEMMA RootStep ==
    ASSUME IInv, UNCHANGED <<ct, logged, today>>, NEW p \in Proc,
           NEW certs, certs \subseteq OfAddress(req[p].addr, ct), Root(p, certs),
           NEW b \in BOOLEAN, source' = [source EXCEPT ![p].authoritative = b]
    PROVE  IInv'
<1> DEFINE r == [req[p] EXCEPT !.step = "chain", !.got = certs,
                    !.frontier = GenesisKeys(req[p].addr, req[p].day, certs)]
           s == [source[p] EXCEPT !.authoritative = b]
<1>1. req' = [req EXCEPT ![p] = r] /\ source' = [source EXCEPT ![p] = s]
  BY DEF Root, IInv, InvTypes
<1>2. certs \subseteq ct /\ certs \in SUBSET Cert
  BY DEF OfAddress, IInv, LogSound, LogTypeOK
<1>3. GenesisKeys(req[p].addr, req[p].day, certs) \subseteq Key
  BY <1>2 DEF GenesisKeys, Cert
<1>4. r \in Request /\ r.got = certs /\ r.step = "chain"
  BY <1>2, <1>3, AtHand DEF Request
<1>5. s \in Source /\ s.pool = source[p].pool
  BY AtHand DEF Source
<1> HIDE DEF r, s
<1>6. \A k : Commitments(k, certs) = {}
  BY AtHand, AddressHasNoCommitment DEF IInv
<1>7. Evident(s, r)
  BY <1>2, <1>4, <1>5, <1>6, AtHand DEF Evident, FromALayer
<1> QED BY <1>1, <1>4, <1>5, <1>7, LayerStep

\* an issuer's bundle,
LEMMA FetchIssuerStep ==
    ASSUME IInv, NEW p \in Proc, NEW certs \in Bundle, FetchIssuer(p, certs)
    PROVE  IInv'
<1> DEFINE s == [source[p] EXCEPT !.pool = @ \cup certs, !.tried = @ \cup {req[p].addr}]
<1>1. /\ source' = [source EXCEPT ![p] = s] /\ UNCHANGED <<ct, logged, today>>
      /\ req' = [req EXCEPT ![p] = req[p]] /\ req[p].step = "address"
  BY AtHand DEF FetchIssuer, Misses
<1>2. certs \subseteq ct /\ certs \in SUBSET Cert
  BY DEF Bundle, IInv, LogSound, LogTypeOK
<1>3. s \in Source /\ s.pool = source[p].pool \cup certs
  <2>1. source[p] \in Source /\ req[p].addr \in Addr
    BY AtHand
  <2>2. /\ source[p].pool \cup certs \in SUBSET Cert
        /\ source[p].tried \cup {req[p].addr} \in SUBSET Addr
    BY <1>2, <2>1 DEF Source
  <2> QED BY <2>1, <2>2 DEF Source
<1> HIDE DEF s
<1>4. req[p].got = {}
  BY <1>1, AtHand DEF Evident
<1>5. Evident(s, req[p])
  BY <1>2, <1>3, <1>4, AtHand, NothingIsEvident
<1> QED BY <1>1, <1>3, <1>5, AtHand, LayerStep

\* no bundle,
LEMMA FetchNothingStep ==
    ASSUME IInv, NEW p \in Proc, FetchNothing(p)
    PROVE  IInv'
<1> DEFINE s == [source[p] EXCEPT !.tried = @ \cup {req[p].addr}]
<1>1. /\ source' = [source EXCEPT ![p] = s] /\ UNCHANGED <<ct, logged, today>>
      /\ req' = [req EXCEPT ![p] = req[p]]
  BY AtHand DEF FetchNothing, IInv, InvTypes
<1>2. s \in Source /\ s.pool = source[p].pool
  BY AtHand DEF Source
<1> HIDE DEF s
<1>3. Evident(s, req[p])
  BY <1>2, AtHand DEF Evident
<1> QED BY <1>1, <1>2, <1>3, AtHand, LayerStep

\* the certificates of a key, all that the pool or all that CT has of it,
LEMMA VisitStep ==
    ASSUME IInv, NEW p \in Proc, NEW k \in Key, NEW A \in {source[p].pool, ct},
           Visit(p, k, OfKey(k, A))
    PROVE  IInv'
<1> DEFINE certs == OfKey(k, A)
           visited == req[p].visited \cup {k}
           succ == {EarliestSuccessor(k, certs)} \ ({NoKey} \cup visited)
           r == [req[p] EXCEPT !.got = @ \cup certs, !.visited = visited,
                               !.frontier = (@ \ {k}) \cup succ]
           had == req[p].got
           pool == source[p].pool
<1>1. /\ req' = [req EXCEPT ![p] = r] /\ UNCHANGED <<ct, logged, today>>
      /\ source' = [source EXCEPT ![p] = source[p]] /\ req[p].step = "chain"
  BY AtHand DEF Visit
<1>2. certs \subseteq ct /\ certs \in SUBSET Cert /\ LogSound
  BY AtHand DEF OfKey, IInv, LogSound, LogTypeOK
<1>3. /\ Commitments(k, certs) = Commitments(k, A)
      /\ \A j : j # k => Commitments(j, certs) = {}
  BY DEF Commitments, OfKey
<1> HIDE DEF certs
<1>4. succ \subseteq Key
  BY <1>2, PartNamesKeys DEF NamesKeys
<1> HIDE DEF succ
<1>5. r \in Request /\ r.got = had \cup certs /\ r.step = "chain"
  BY <1>1, <1>2, <1>4, AtHand DEF Request
<1> HIDE DEF r
<1>6. \A j : Commitments(j, had \cup certs) = Commitments(j, had) \cup Commitments(j, certs)
  BY DEF Commitments
<1>7. Evident(source[p], req[p]) /\ had \subseteq ct /\ pool \subseteq ct
  BY AtHand
<1>8. FromALayer(pool, had \cup certs, k)
  <2>1. CASE A = pool
    BY <1>3, <1>6, <1>7, <2>1 DEF Evident, FromALayer
  <2>2. CASE A = ct /\ Commitments(k, ct) = {}
    <3>1. Commitments(k, had) = {}
      BY <1>7, <2>2 DEF Commitments
    <3> QED BY <1>3, <1>6, <2>2, <3>1 DEF FromALayer
  <2>3. CASE A = ct /\ Commitments(k, ct) # {}
    <3>1. PICK c \in ct : IsFirst(c, k, ct)
      BY <1>2, <2>3 DEF LogSound
    <3>2. c \in certs
      BY <2>3, <3>1 DEF certs, OfKey, IsFirst, Commitments
    <3> QED BY <3>1, <3>2 DEF FromALayer
  <2> QED BY <2>1, <2>2, <2>3
<1>9. ASSUME NEW j \in Key, j # k
      PROVE  FromALayer(pool, had \cup certs, j)
  BY <1>3, <1>6, <1>7, <1>9 DEF Evident, FromALayer
<1>10. Evident(source[p], r)
  <2> HIDE DEF had
  <2> QED BY <1>2, <1>5, <1>7, <1>8, <1>9 DEF Evident
<1> QED BY <1>1, <1>5, <1>10, AtHand, LayerStep

\* and the end of a verification, answered or failed.
LEMMA EndStep ==
    ASSUME IInv, NEW p \in Proc, Finish(p) \/ CrtShFails(p)
    PROVE  IInv'
<1>1. PICK b \in BOOLEAN : source' = [source EXCEPT ![p].authoritative = b]
  <2>1. CASE Finish(p)
    BY <2>1, AtHand DEF Finish, Source, IInv, InvTypes
  <2>2. CASE CrtShFails(p)
    BY <2>2, AtHand DEF CrtShFails, Source, IInv, InvTypes
  <2> QED BY <2>1, <2>2
<1> DEFINE s == [source[p] EXCEPT !.authoritative = b]
<1>2. UNCHANGED <<ct, logged, today>> /\ req' = [req EXCEPT ![p] = NoRequest]
  BY DEF Finish, CrtShFails
<1>3. source' = [source EXCEPT ![p] = s]
  BY <1>1 DEF IInv, InvTypes
<1>4. s \in Source /\ s.pool = source[p].pool
  BY AtHand DEF Source
<1> HIDE DEF s
<1>5. Evident(s, NoRequest)
  BY <1>4, AtHand, BlankTypes, NothingIsEvident
<1> QED BY <1>2, <1>3, <1>4, <1>5, BlankTypes, LayerStep

\* All that a verifying process does preserves the invariant.
LEMMA VerificationStep ==
    ASSUME IInv, NEW p \in Proc, Verification(p)
    PROVE  IInv'
<1>1. CASE AddressFromPool(p)
  <2>1. Pooled(p) \subseteq OfAddress(req[p].addr, ct)
    BY AtHand DEF Pooled, OfAddress
  <2> QED BY <1>1, <2>1, RootStep DEF AddressFromPool
<1>2. CASE AddressFromCrtSh(p)
  BY <1>2, RootStep DEF AddressFromCrtSh
<1>3. ASSUME NEW k \in Key, KeyFromPool(p, k) \/ KeyFromCrtSh(p, k)
      PROVE  IInv'
  BY <1>3, VisitStep DEF KeyFromPool, KeyFromCrtSh
<1> QED
  BY <1>1, <1>2, <1>3, StartStep, AskStep, FetchIssuerStep, FetchNothingStep, EndStep
  DEF Verification, AddressQuery, KeyQuery

\* So does logging an IP certificate,
LEMMA LogAddressStep ==
    ASSUME IInv, NEW k \in Key, NEW a \in Addr, LogAddress(k, a)
    PROVE  IInv'
<1>1. today \in Nat /\ today + Window \in Nat
  BY CascadeAssumption DEF IInv, LogSound, LogTypeOK
<1>2. /\ IpCert(k, a, today, today + Window) \in Cert
      /\ IpCert(k, a, today, today + Window).succ = NoKey
  BY <1>1, IpCertType
<1> QED BY <1>2, LoggingStep DEF LogAddress

\* and a commitment.
LEMMA LogCommitmentStep ==
    ASSUME IInv, NEW k \in Key, NEW s \in Key, LogCommitment(k, s)
    PROVE  IInv'
BY CommitmentCertType, LoggingStep DEF LogCommitment

\* The invariant holds initially,
LEMMA InvInit == Init => IInv
<1> SUFFICES ASSUME Init PROVE IInv
  OBVIOUS
<1>1. LogSound /\ ct = {}
  BY EmptyLog DEF Init, LogInit
<1>2. InvTypes
  BY BlankTypes DEF Init, InvTypes
<1>3. InvEvident
  BY BlankTypes, NothingIsEvident DEF Init, InvEvident
<1> QED BY <1>1, <1>2, <1>3 DEF IInv, InvShape

\* every step preserves it,
LEMMA InvStep ==
    ASSUME IInv, [Next]_vars
    PROVE  IInv'
<1>1. CASE UNCHANGED vars \/ Midnight
  <2>1. UNCHANGED <<ct, logged, source, req>> /\ today' \in Nat /\ InvTypes'
    BY <1>1 DEF vars, Midnight, NewDay, IInv, InvTypes, LogSound, LogTypeOK
  <2> QED BY <2>1, QuietStep DEF IInv, InvEvident
<1> QED
  BY <1>1, VerificationStep, LogAddressStep, LogCommitmentStep DEF Next

\* and so it holds of every behaviour.
LEMMA Invariance == Spec => []IInv
BY InvInit, InvStep, PTL DEF Spec

-----------------------------------------------------------------------------
(* What it gives.                                                          *)

\* Whatever part of CT each bundle holds, the evidence of a walk names for each key
\* the successor that the pool names or the one that CT names, with any number of
\* processes, bundles, addresses and keys.
THEOREM EvidenceIsFromALayer == Spec => []EvidenceAgrees
<1>1. IInv => EvidenceAgrees
  BY LayerAgrees DEF IInv, InvEvident, EvidenceAgrees
<1> QED BY <1>1, Invariance, PTL

-----------------------------------------------------------------------------
(* The answers.                                                            *)

\* An answer that verifies its document has commitments in CT behind it.
Backed(r) ==
    r.verdict.verified =>
        /\ Activated(r.doc, ct)
        /\ \E g \in GenesisKeys(r.addr, r.day, ct) : Reached(g, r.doc)

\* A verification under way is about a document, and every answer given so far
\* is backed by CT as it is now.
InvAnswers ==
    /\ \A p \in Proc : req[p].step # "idle" => req[p].doc \in Key
    /\ answer \in [Proc -> Answer]
    /\ \A p \in Proc : Backed(answer[p])

\* No answer is one that accepts no key.
LEMMA NoAnswerType == NoAnswer \in Answer /\ ~NoAnswer.verdict.verified
BY AddrAssumption DEF NoAnswer, Answer, AnyAddr, Reject, Verdict, Reason

\* A document that any part of CT verifies is one to which commitments in CT lead.
LEMMA VerifyIsBacked ==
    ASSUME LogSound, NEW A, A \subseteq ct, NEW doc \in Key, NEW a, NEW d
    PROVE  /\ Verify(doc, a, d, A) \in Verdict
           /\ Verify(doc, a, d, A).verified =>
                  /\ Activated(doc, ct)
                  /\ \E g \in GenesisKeys(a, d, ct) : Reached(g, doc)
<1> DEFINE genesis == GenesisKeys(a, d, A)
           v == Verify(doc, a, d, A)
<1>1. /\ genesis \subseteq GenesisKeys(a, d, ct)
      /\ \A g \in genesis : g \in Key /\ Activated(g, A)
      /\ \A k : Activated(k, A) => Activated(k, ct)
  BY GenesisGrows, Zenon DEF LogSound, LogTypeOK
<1>2. doc # NoKey
  BY KeyAssumption
<1>3. \/ v \in {Reject("no genesis"), Reject("unendorsed"), Reject("cold")}
      \/ v = Accept("genesis", doc) /\ doc \in genesis
      \/ /\ v = Accept("rotated", doc) /\ Activated(doc, A)
         /\ \E g \in genesis : WalkChain(g, doc, A) # <<>>
  BY <1>2 DEF Verify, VerifyDocument
<1>4. /\ v \in Verdict
      /\ v.verified => v \in {Accept("genesis", doc), Accept("rotated", doc)}
  <2>1. \A reason \in Reason : /\ Reject(reason) \in Verdict /\ ~Reject(reason).verified
                              /\ Accept(reason, doc) \in Verdict
    BY DEF Verdict, Accept, Reject
  <2> HIDE DEF v
  <2> QED BY <1>3, <2>1 DEF Reason
<1>5. CASE doc \in genesis
  <2>1. Reached(doc, doc)
    BY DEF Reached
  <2> QED BY <1>1, <1>4, <1>5, <2>1
<1>6. ASSUME NEW g \in genesis, WalkChain(g, doc, A) # <<>>
      PROVE  Reached(g, doc)
  <2> DEFINE chain == WalkChain(g, doc, A)
  <2>1. NamesKeys(A) /\ g \in Key
    BY <1>1, PartNamesKeys
  <2>2. IsPath(chain, A) /\ chain[1] = g /\ LastOf(chain) = doc
    BY <1>2, <1>6, <2>1, WalkReaches
  <2> HIDE DEF chain
  <2> SUFFICES ASSUME NEW S \in SUBSET Key, g \in S,
                      \A c \in ct : c.key \in S /\ c.succ # NoKey => c.succ \in S
               PROVE  doc \in S
    BY DEF Reached
  <2>3. \A k \in Key \cap S : EarliestSuccessor(k, A) \in {NoKey} \cup S
    BY PartNamesKeys DEF Commitments
  <2>4. \A i \in 1..Len(chain) : chain[i] \in S
    BY <2>2, <2>3, PathStays
  <2>5. Len(chain) \in 1..Len(chain)
    BY <2>2 DEF IsPath
  <2> QED BY <2>2, <2>4, <2>5 DEF LastOf
<1>7. CASE doc \notin genesis /\ v.verified
  <2>1. Activated(doc, A) /\ \E g \in genesis : WalkChain(g, doc, A) # <<>>
    <3>1. Accept("genesis", doc) # Accept("rotated", doc)
      BY DEF Accept
    <3>2. \A reason : ~Reject(reason).verified
      BY DEF Reject
    <3> HIDE DEF v, genesis
    <3> QED BY <1>3, <1>7, <3>1, <3>2
  <2> QED BY <1>1, <1>4, <1>6, <2>1
<1> QED BY <1>4, <1>5, <1>7

\* CT only grows.
LEMMA CtGrows ==
    ASSUME [Next]_vars
    PROVE  ct \subseteq ct'
<1>1. ASSUME NEW p \in Proc, Verification(p)
      PROVE  ct' = ct
  BY <1>1
  DEF Verification, Start, Ask, AddressQuery, AddressFromPool, FetchIssuer,
      FetchNothing, AddressFromCrtSh, KeyQuery, KeyFromPool, KeyFromCrtSh, Visit,
      Finish, CrtShFails
<1> QED BY <1>1 DEF Next, LogAddress, LogCommitment, Log, Midnight, NewDay, vars

\* A backed answer stays so, whatever is logged.
LEMMA BackedStays ==
    ASSUME IInv, IInv', ct \subseteq ct', NEW r, Backed(r)
    PROVE  Backed(r)'
<1> SUFFICES ASSUME r.verdict.verified
             PROVE  /\ Activated(r.doc, ct')
                    /\ \E g \in GenesisKeys(r.addr, r.day, ct') : Reached(g, r.doc)'
  BY DEF Backed
<1>1. ct' \subseteq Cert
  BY DEF IInv, LogSound, LogTypeOK
<1>2. /\ GenesisKeys(r.addr, r.day, ct) \subseteq GenesisKeys(r.addr, r.day, ct')
      /\ \A k : Activated(k, ct) => Activated(k, ct')
  BY <1>1, GenesisGrows
<1>3. \A g : Reached(g, r.doc) => Reached(g, r.doc)'
  BY DEF Reached
<1> QED BY <1>2, <1>3 DEF Backed

\* A step that gives no answer, and begins no verification.
LEMMA SilentStep ==
    ASSUME IInv, IInv', InvAnswers, [Next]_vars, answer' = answer,
           \A p \in Proc : \/ req'[p].step = "idle"
                           \/ req[p].step # "idle" /\ req'[p].doc = req[p].doc
    PROVE  InvAnswers'
<1>1. \A p \in Proc : Backed(answer[p])'
  BY CtGrows, BackedStays DEF InvAnswers, Backed, Reached
<1> QED BY <1>1 DEF InvAnswers

\* A step that gives process p an answer, and the request it has from then on.
LEMMA AnswerStep ==
    ASSUME IInv, InvAnswers, ct' = ct, NEW p \in Proc, NEW r \in Answer,
           answer' = [answer EXCEPT ![p] = r], Backed(r),
           NEW t \in Request, req' = [req EXCEPT ![p] = t],
           t.step # "idle" => t.doc \in Key
    PROVE  InvAnswers'
<1>1. /\ answer' \in [Proc -> Answer]
      /\ \A q \in Proc : answer'[q] \in {answer[q], r}
      /\ \A q \in Proc : req'[q] \in {req[q], t}
  BY DEF InvAnswers, IInv, InvTypes
<1>2. \A q \in Proc : Backed(answer'[q])
  BY <1>1 DEF InvAnswers
<1>3. \A q \in Proc : Backed(answer[q])'
  BY <1>2 DEF Backed, Reached
<1>4. \A q \in Proc : req'[q].step # "idle" => req'[q].doc \in Key
  BY <1>1 DEF InvAnswers
<1> QED BY <1>1, <1>3, <1>4 DEF InvAnswers

\* A new source and a new question have no answer yet.
LEMMA ForgetStep ==
    ASSUME IInv, InvAnswers, NEW p \in Proc,
           \/ \E kind \in {"local", "cascade"}, certs \in Bundle : Start(p, kind, certs)
           \/ \E doc \in Document, a \in Addr, d \in 0..LastDay : Ask(p, doc, a, d)
    PROVE  InvAnswers'
<1>1. ct' = ct /\ answer' = [answer EXCEPT ![p] = NoAnswer]
  BY DEF Start, Ask
<1> DEFINE Given == \E t \in Request : /\ req' = [req EXCEPT ![p] = t]
                                       /\ t.step # "idle" => t.doc \in Key
<1>2. Given
  <2>1. ASSUME NEW kind \in {"local", "cascade"}, NEW certs \in Bundle, Start(p, kind, certs)
        PROVE  Given
    <3>1. /\ req' = [req EXCEPT ![p] = req[p]] /\ req[p] \in Request
          /\ req[p].step = "idle"
      BY <2>1, AtHand DEF Start
    <3> QED BY <3>1
  <2>2. ASSUME NEW doc \in Document, NEW a \in Addr, NEW d \in 0..LastDay, Ask(p, doc, a, d)
        PROVE  Given
    <3> DEFINE t == [NoRequest EXCEPT !.step = "address", !.doc = doc, !.addr = a,
                                      !.day = d, !.asked = logged]
    <3>1. d \in Nat /\ logged \in Nat /\ doc \in Key
      BY CascadeAssumption DEF IInv, LogSound, LogTypeOK
    <3>2. t \in Request /\ t.doc = doc
      BY <3>1, AddrAssumption DEF NoRequest, Request, AnyAddr
    <3>3. req' = [req EXCEPT ![p] = t]
      BY <2>2 DEF Ask
    <3> HIDE DEF t
    <3> QED BY <3>1, <3>2, <3>3
  <2> HIDE DEF Given
  <2> QED BY <2>1, <2>2
<1>3. PICK t \in Request : /\ req' = [req EXCEPT ![p] = t]
                           /\ t.step # "idle" => t.doc \in Key
  BY <1>2
<1>4. NoAnswer \in Answer /\ Backed(NoAnswer)
  BY NoAnswerType DEF Backed
<1> QED BY <1>1, <1>3, <1>4, AnswerStep

\* verify() on what the walk gathered says what CT backs.
LEMMA FinishStep ==
    ASSUME IInv, InvAnswers, NEW p \in Proc, Finish(p)
    PROVE  InvAnswers'
<1> DEFINE r == req[p]
           v == Verify(r.doc, r.addr, r.day, r.got)
           told == [doc |-> r.doc, addr |-> r.addr, day |-> r.day, verdict |-> v]
<1>1. /\ r \in Request /\ r.got \subseteq ct /\ r.doc \in Key
      /\ answer' = [answer EXCEPT ![p] = told] /\ ct' = ct
      /\ req' = [req EXCEPT ![p] = NoRequest]
  BY AtHand DEF Finish, InvAnswers
<1> HIDE DEF r
<1>2. /\ v \in Verdict
      /\ v.verified => /\ Activated(r.doc, ct)
                       /\ \E g \in GenesisKeys(r.addr, r.day, ct) : Reached(g, r.doc)
  BY <1>1, VerifyIsBacked DEF IInv
<1> HIDE DEF v
<1>3. /\ told \in Answer /\ told.verdict = v
      /\ told.doc = r.doc /\ told.addr = r.addr /\ told.day = r.day
  BY <1>1, <1>2 DEF Answer, Request
<1> HIDE DEF told
<1>4. Backed(told)
  BY <1>2, <1>3 DEF Backed
<1> QED BY <1>1, <1>3, <1>4, BlankTypes, AnswerStep

\* Every step keeps the answers backed.
LEMMA AnswersStep ==
    ASSUME IInv, IInv', InvAnswers, [Next]_vars
    PROVE  InvAnswers'
<1>1. ASSUME NEW p \in Proc, AddressQuery(p) \/ KeyQuery(p) \/ CrtShFails(p)
      PROVE  InvAnswers'
  <2>1. answer' = answer
    BY <1>1 DEF AddressQuery, AddressFromPool, FetchIssuer, FetchNothing,
                AddressFromCrtSh, KeyQuery, KeyFromPool, KeyFromCrtSh, Visit, CrtShFails
  <2>2. \A q \in Proc : \/ req'[q].step = "idle"
                        \/ req[q].step # "idle" /\ req'[q].doc = req[q].doc
    <3>1. req \in [Proc -> Request] /\ NoRequest.step = "idle"
      BY DEF IInv, InvTypes, NoRequest
    <3>2. ASSUME NEW certs, Root(p, certs), req[p].step = "address"
          PROVE  \A q \in Proc : \/ req'[q].step = "idle"
                                 \/ req[q].step # "idle" /\ req'[q].doc = req[q].doc
      <4> DEFINE t == [req[p] EXCEPT !.step = "chain", !.got = certs,
                          !.frontier = GenesisKeys(req[p].addr, req[p].day, certs)]
      <4>1. req' = [req EXCEPT ![p] = t]
        BY <3>1, <3>2 DEF Root
      <4>2. t.doc = req[p].doc
        BY <3>1 DEF Request
      <4> HIDE DEF t
      <4>3. \A q \in Proc : req'[q] = IF q = p THEN t ELSE req[q]
        BY <3>1, <4>1
      <4> QED BY <3>2, <4>2, <4>3
    <3>3. ASSUME NEW k, NEW certs, Visit(p, k, certs)
          PROVE  \A q \in Proc : \/ req'[q].step = "idle"
                                 \/ req[q].step # "idle" /\ req'[q].doc = req[q].doc
      <4> DEFINE visited == req[p].visited \cup {k}
                 succ == {EarliestSuccessor(k, certs)} \ ({NoKey} \cup visited)
                 t == [req[p] EXCEPT !.got = @ \cup certs, !.visited = visited,
                                     !.frontier = (@ \ {k}) \cup succ]
      <4>1. req' = [req EXCEPT ![p] = t] /\ req[p].step = "chain"
        BY <3>3 DEF Visit
      <4>2. t.doc = req[p].doc
        BY <3>1 DEF Request
      <4> HIDE DEF t
      <4>3. \A q \in Proc : req'[q] = IF q = p THEN t ELSE req[q]
        BY <3>1, <4>1
      <4> QED BY <4>1, <4>2, <4>3
    <3>4. CASE AddressFromPool(p) \/ AddressFromCrtSh(p)
      BY <3>2, <3>4 DEF AddressFromPool, AddressFromCrtSh, FallsThrough
    <3>5. CASE KeyQuery(p)
      BY <3>3, <3>5 DEF KeyQuery, KeyFromPool, KeyFromCrtSh
    <3>6. CASE FetchNothing(p) \/ \E certs \in Bundle : FetchIssuer(p, certs)
      BY <3>6 DEF FetchNothing, FetchIssuer
    <3>7. CASE CrtShFails(p)
      BY <3>1, <3>7 DEF CrtShFails
    <3> QED BY <1>1, <3>4, <3>5, <3>6, <3>7 DEF AddressQuery
  <2> QED BY <2>1, <2>2, SilentStep
<1>2. ASSUME NEW p \in Proc, Verification(p)
      PROVE  InvAnswers'
  BY <1>1, <1>2, ForgetStep, FinishStep DEF Verification
<1>3. CASE UNCHANGED <<req, answer>>
  BY <1>3, SilentStep
<1> QED
  BY <1>2, <1>3 DEF Next, LogAddress, LogCommitment, Midnight, vars

\* Every answer, ever after it is given, is backed.
LEMMA AnswersInvariant == Spec => []InvAnswers
<1>1. Init => InvAnswers
  BY NoAnswerType DEF Init, InvAnswers, Backed, NoRequest
<1> QED BY <1>1, AnswersStep, Invariance, PTL DEF Spec

\* Sources, requests and answers are what they are declared to be.
THEOREM CascadeTypeCorrect == Spec => []TypeOK
<1>1. IInv /\ InvAnswers => TypeOK
  BY DEF IInv, LogSound, InvTypes, InvAnswers, TypeOK
<1> QED BY <1>1, Invariance, AnswersInvariant, PTL

\* Whatever part of CT each bundle holds, a document is VERIFIED by the cascade
\* only along commitments that are in CT, from a key that held the address, and
\* once its key has acted; and so it stays, as CT grows.
THEOREM CascadeVerdictsAreEndorsed == Spec => []VerifiedIsEndorsed
<1>1. InvAnswers => VerifiedIsEndorsed
  BY DEF InvAnswers, Backed, VerifiedIsEndorsed
<1> QED BY <1>1, AnswersInvariant, PTL

\* An answer is given at the end of a walk.
LEMMA AnswersFinish ==
    ASSUME IInv, InvAnswers, [Next]_vars, NEW p \in Proc, Answers(p)
    PROVE  /\ Finish(p)
           /\ answer'[p].verdict = Verify(req[p].doc, req[p].addr, req[p].day, req[p].got)
<1>1. req[p].step = "chain" /\ req'[p].step = "idle" /\ answer'[p] # answer[p]
  BY DEF Answers
<1>2. PICK q \in Proc :
          \/ Finish(q)
          \/ \E kind \in {"local", "cascade"}, certs \in Bundle : Start(q, kind, certs)
          \/ \E x \in Document, y \in Addr, z \in 0..LastDay : Ask(q, x, y, z)
  BY <1>1
  DEF Next, Verification, AddressQuery, AddressFromPool, FetchIssuer, FetchNothing,
      AddressFromCrtSh, KeyQuery, KeyFromPool, KeyFromCrtSh, Visit, CrtShFails,
      LogAddress, LogCommitment, Midnight, vars
<1>3. \A o \in Proc \ {q} : answer'[o] = answer[o]
  BY <1>2 DEF Finish, Start, Ask, InvAnswers
<1>4. Finish(p)
  BY <1>1, <1>2, <1>3 DEF Start, Ask
<1> QED BY <1>4 DEF Finish, InvAnswers

\* A document is VERIFIED by the cascade over a pool that hides no fork only if CT
\* puts its key in the custody chain of a key that held the address, and it has
\* acted: whichever layers answer and however stale the bundles, for any number of
\* each.
THEOREM CascadeVerdictsAreSound == Spec => VerifiedIsSound
<1> DEFINE Judged ==
        \A p \in Proc :
            /\ Answers(p) /\ answer'[p].verdict.verified
            /\ Candid(source[p].pool)
            => /\ Activated(req[p].doc, ct)
               /\ \E g \in GenesisKeys(req[p].addr, req[p].day, ct) :
                      Descends(g, req[p].doc)
<1>1. IInv /\ InvAnswers /\ [Next]_vars => Judged
  <2> SUFFICES ASSUME IInv, InvAnswers, [Next]_vars, NEW p \in Proc, Answers(p),
                      answer'[p].verdict.verified, Candid(source[p].pool)
               PROVE  /\ Activated(req[p].doc, ct)
                      /\ \E g \in GenesisKeys(req[p].addr, req[p].day, ct) :
                             Descends(g, req[p].doc)
    BY DEF Judged
  <2> DEFINE v == Verify(req[p].doc, req[p].addr, req[p].day, req[p].got)
  <2>1. v.verified /\ req[p].step = "chain"
    BY AnswersFinish DEF Answers
  <2>2. Faithful(req[p].got) /\ LogSound /\ req[p].doc \in Key
    BY <2>1, AtHand, CandidIsFaithful, FaithfulWalk DEF IInv, InvAnswers
  <2>3. v.key = req[p].doc /\ Sound(v, req[p].addr, req[p].day)
    BY <2>1, <2>2, VerifyIsSound, AcceptsItsDocument
  <2> HIDE DEF v
  <2> QED BY <2>1, <2>3 DEF Sound
<1>2. IInv /\ InvAnswers /\ [Next]_vars => [Judged]_vars
  BY <1>1
<1> QED BY <1>2, Invariance, AnswersInvariant, PTL DEF Spec, VerifiedIsSound

-----------------------------------------------------------------------------
(* The pool.                                                               *)

\* A source that has tried an address pools what it had and more.
LEMMA PoolGrows ==
    ASSUME IInv, [Next]_vars, NEW p \in Proc, source'[p].tried # {}
    PROVE  source'[p] = source[p] \/ (ct' = ct /\ source[p].pool \subseteq source'[p].pool)
<1>1. source \in [Proc -> Source]
  BY DEF IInv, InvTypes
<1>2. ASSUME NEW q \in Proc, NEW kind \in {"local", "cascade"}, NEW certs \in Bundle,
             Start(q, kind, certs)
      PROVE  source'[p] = source[p]
  <2> DEFINE s == [NoSource EXCEPT !.kind = kind, !.pool = certs]
  <2>1. source' = [source EXCEPT ![q] = s] /\ s.tried = {}
    BY <1>2 DEF Start, NoSource
  <2> HIDE DEF s
  <2> QED BY <1>1, <2>1
<1>3. ASSUME NEW q \in Proc, NEW certs \in Bundle, FetchIssuer(q, certs)
      PROVE  ct' = ct /\ source[p].pool \subseteq source'[p].pool
  <2> DEFINE s == [source[q] EXCEPT !.pool = @ \cup certs, !.tried = @ \cup {req[q].addr}]
  <2>1. source' = [source EXCEPT ![q] = s] /\ ct' = ct
    BY <1>3 DEF FetchIssuer
  <2>2. s.pool = source[q].pool \cup certs
    BY <1>1 DEF Source
  <2> HIDE DEF s
  <2> QED BY <1>1, <2>1, <2>2
<1>4. ASSUME NEW q \in Proc,
             \/ AddressFromPool(q) \/ AddressFromCrtSh(q)
             \/ FetchNothing(q) \/ CrtShFails(q)
      PROVE  ct' = ct /\ source[p].pool \subseteq source'[p].pool
  <2>1. /\ ct' = ct
        /\ \/ \E b : source' = [source EXCEPT ![q].authoritative = b]
           \/ \E t : source' = [source EXCEPT ![q].tried = t]
    <3>1. CASE AddressFromPool(q) \/ AddressFromCrtSh(q)
      BY <3>1 DEF AddressFromPool, AddressFromCrtSh
    <3>2. CASE FetchNothing(q)
      BY <1>1, <3>2 DEF FetchNothing
    <3>3. CASE CrtShFails(q)
      BY <1>1, <3>3 DEF CrtShFails
    <3> QED BY <1>4, <3>1, <3>2, <3>3
  <2>2. source'[p].pool = source[p].pool
    BY <1>1, <2>1 DEF Source
  <2> QED BY <2>1, <2>2
<1>5. ASSUME NEW q \in Proc, Verification(q)
      PROVE  source'[p] = source[p] \/ (ct' = ct /\ source[p].pool \subseteq source'[p].pool)
  <2>1. CASE source' = source
    BY <2>1
  <2> QED
    BY <1>2, <1>3, <1>4, <1>5, <2>1
    DEF Verification, Ask, AddressQuery, KeyQuery, KeyFromPool, KeyFromCrtSh, Visit, Finish
<1> QED
  BY <1>5 DEF Next, LogAddress, LogCommitment, Midnight, vars

\* A document that the pool of a source verifies stays verified when the source
\* pools one more bundle, whatever it holds and withholds, as long as the pool it
\* comes to has hidden no fork.
THEOREM PoolsNeverForget == Spec => PoolNeverForgets
<1> DEFINE Kept ==
        \A p \in Proc :
            /\ source'[p].tried # {} /\ source'[p].pool # source[p].pool
            /\ Candid(source[p].pool)
            => \A k \in Key, a \in Addr, d \in 0..LastDay :
                  VerifyDocument(k, a, d, source[p].pool).verified
                      => VerifyDocument(k, a, d, source'[p].pool).verified
<1>1. IInv /\ IInv' /\ [Next]_vars => Kept
  <2> SUFFICES ASSUME IInv, IInv', [Next]_vars, NEW p \in Proc, source'[p].tried # {},
                      source'[p].pool # source[p].pool, Candid(source[p].pool),
                      NEW k \in Key, NEW a \in Addr, NEW d \in 0..LastDay,
                      VerifyDocument(k, a, d, source[p].pool).verified
               PROVE  VerifyDocument(k, a, d, source'[p].pool).verified
    OBVIOUS
  <2>1. ct' = ct /\ source[p].pool \subseteq source'[p].pool
    BY PoolGrows
  <2>2. Faithful(source[p].pool) /\ source'[p].pool \subseteq ct
    BY <2>1, AtHand, CandidIsFaithful DEF IInv, InvEvident, Evident
  <2>3. \A certs : Verify(k, a, d, certs) = VerifyDocument(k, a, d, certs)
    BY KeyAssumption DEF Verify
  <2> QED BY <2>1, <2>2, <2>3, MoreEvidenceVerifies DEF IInv
<1>2. IInv /\ IInv' /\ [Next]_vars => [Kept]_vars
  BY <1>1
<1> QED BY <1>2, Invariance, PTL DEF Spec, PoolNeverForgets

-----------------------------------------------------------------------------
(* The walks: what they have found, and where.                             *)

\* What the walk of request r through source s holds of key k.  A key that the
\* pool answers for has all that the pool has, any other all that CT had when the
\* question was asked.
KeyAnswered(s, r, k) ==
    IF s.authoritative \/ OfKey(k, s.pool) # {}
    THEN OfKey(k, s.pool) \subseteq r.got
    ELSE OfKey(k, CtAsOf(r.asked)) \subseteq r.got

\* What it holds of its address.  Answered from the pool, it never leaves it, and
\* every key that it meets is one that the pool mentions.
AddressAnswered(s, r) ==
    IF s.authoritative
    THEN /\ r.got \subseteq s.pool
         /\ s.kind = "cascade" => /\ OfAddress(r.addr, s.pool) \subseteq r.got
                                  /\ OfAddress(r.addr, s.pool) # {}
         /\ \A k \in r.visited \cup r.frontier : \E x \in s.pool : k \in {x.key, x.succ}
    ELSE OfAddress(r.addr, CtAsOf(r.asked)) \subseteq r.got

\* The genesis keys and the successors of the keys visited are visited or to be
\* visited, nothing else is, and no other key has a successor in the evidence.
OnChain(s, r) ==
    /\ r.frontier \cap r.visited = {}
    /\ GenesisKeys(r.addr, r.day, r.got) \subseteq r.visited \cup r.frontier
    /\ \A k \in r.visited \cup r.frontier :
          \E g \in GenesisKeys(r.addr, r.day, r.got) : Descends(g, k)
    /\ \A k \in r.visited :
          EarliestSuccessor(k, r.got) \in {NoKey} \cup r.visited \cup r.frontier
    /\ \A k \in Key \ r.visited : Commitments(k, r.got) = {}
    /\ AddressAnswered(s, r)
    /\ \A k \in r.visited : KeyAnswered(s, r, k)

InWalk(s, r) ==
    /\ r.asked <= logged
    /\ r.step = "address" => r.visited = {}
    /\ r.step = "chain" /\ Faithful(s.pool) => OnChain(s, r)

InvWalks == \A p \in Proc : InWalk(source[p], req[p])

\* A request in its walk, when CT stays as it is,
LEMMA WalkStill ==
    ASSUME UNCHANGED <<ct, logged>>, NEW s, NEW r, InWalk(s, r)
    PROVE  InWalk(s, r)'
<1>1. \A n : CtAsOf(n)' = CtAsOf(n)
  BY DEF CtAsOf
<1>2. \A g, k : Descends(g, k)' <=> Descends(g, k)
  BY DEF Descends, Authority!Descends, Authority!Closed
<1>3. OnChain(s, r) => OnChain(s, r)'
  BY <1>1, <1>2 DEF OnChain, KeyAnswered, AddressAnswered
<1>4. Faithful(s.pool)' => Faithful(s.pool)
  BY DEF Faithful
<1> QED BY <1>3, <1>4 DEF InWalk

\* and when it grows.
LEMMA WalkGrows ==
    ASSUME LogSound, NEW c \in Cert, Log(c), NEW s, NEW r \in Request, InWalk(s, r),
           r.got \subseteq ct, s.pool \subseteq ct
    PROVE  InWalk(s, r)'
<1>1. logged \in Nat /\ logged' = logged + 1 /\ r.asked \in Nat
  BY DEF LogSound, LogTypeOK, Log, Request
<1>2. CtAsOf(r.asked)' = CtAsOf(r.asked)
  BY <1>1, PastStays DEF InWalk
<1>3. ASSUME OnChain(s, r)
      PROVE  OnChain(s, r)'
  <2>1. \A k \in r.visited \cup r.frontier :
            \E g \in GenesisKeys(r.addr, r.day, r.got) : Descends(g, k)'
    <3>1. \A g \in GenesisKeys(r.addr, r.day, r.got) : g \in Key
      BY GenesisGrows DEF LogSound, LogTypeOK
    <3>2. r.visited \cup r.frontier \subseteq Key
      BY DEF Request
    <3> QED BY <1>3, <3>1, <3>2, DescentAfterLog DEF OnChain
  <2>2. AddressAnswered(s, r)' /\ \A k \in r.visited : KeyAnswered(s, r, k)'
    BY <1>2, <1>3 DEF OnChain, AddressAnswered, KeyAnswered
  <2> QED BY <1>3, <2>1, <2>2 DEF OnChain
<1>4. Faithful(s.pool)' => Faithful(s.pool)
  BY FaithfulBefore DEF Faithful
<1> QED BY <1>1, <1>3, <1>4 DEF InWalk

\* A step that gives process p source s and request r.
LEMMA WalkStep ==
    ASSUME IInv, InvWalks, UNCHANGED <<ct, logged>>, NEW p \in Proc, NEW s, NEW r,
           InWalk(s, r), source' = [source EXCEPT ![p] = s], req' = [req EXCEPT ![p] = r]
    PROVE  InvWalks'
<1>1. \A q \in Proc : /\ source'[q] = IF q = p THEN s ELSE source[q]
                      /\ req'[q] = IF q = p THEN r ELSE req[q]
  BY DEF IInv, InvTypes
<1>2. ASSUME NEW q \in Proc
      PROVE  InWalk(source[q], req[q])'
  <2>1. \E x, y : x = source'[q] /\ y = req'[q] /\ InWalk(x, y)'
    BY <1>1, WalkStill DEF InvWalks
  <2> QED BY <2>1 DEF InWalk, OnChain, KeyAnswered, AddressAnswered, Faithful
<1> QED BY <1>2 DEF InvWalks

\* A request that is not in its chain is in its walk with any source.
LEMMA NotYetInChain ==
    ASSUME NEW s, NEW t, NEW r, r.step # "chain", InWalk(s, r)
    PROVE  InWalk(t, r)
BY DEF InWalk

\* A source built, or changed while the address is looked up,
LEMMA SourceWalks ==
    ASSUME IInv, InvWalks, NEW p \in Proc,
           \/ \E kind \in {"local", "cascade"}, certs \in Bundle : Start(p, kind, certs)
           \/ FetchNothing(p)
           \/ \E certs \in Bundle : FetchIssuer(p, certs)
    PROVE  InvWalks'
<1>1. UNCHANGED <<ct, logged, req>> /\ req[p].step # "chain"
  BY DEF Start, FetchNothing, FetchIssuer, Misses
<1>2. PICK s : source' = [source EXCEPT ![p] = s]
  <2>1. ASSUME NEW kind \in {"local", "cascade"}, NEW certs \in Bundle, Start(p, kind, certs)
        PROVE  \E s : source' = [source EXCEPT ![p] = s]
    BY <2>1 DEF Start
  <2>2. CASE FetchNothing(p)
    BY <2>2 DEF FetchNothing
  <2>3. ASSUME NEW certs \in Bundle, FetchIssuer(p, certs)
        PROVE  \E s : source' = [source EXCEPT ![p] = s]
    BY <2>3 DEF FetchIssuer
  <2> QED BY <2>1, <2>2, <2>3
<1>3. InWalk(s, req[p])
  BY <1>1, NotYetInChain DEF InvWalks
<1>4. req' = [req EXCEPT ![p] = req[p]]
  BY <1>1, AtHand
<1> QED BY <1>1, <1>2, <1>3, <1>4, WalkStep

\* a question asked,
LEMMA AskWalks ==
    ASSUME IInv, InvWalks, NEW p \in Proc, NEW doc, NEW a, NEW d, Ask(p, doc, a, d)
    PROVE  InvWalks'
<1> DEFINE r == [NoRequest EXCEPT !.step = "address", !.doc = doc, !.addr = a,
                                  !.day = d, !.asked = logged]
<1>1. /\ UNCHANGED <<ct, logged>> /\ req' = [req EXCEPT ![p] = r]
      /\ source' = [source EXCEPT ![p] = source[p]]
  BY AtHand DEF Ask
<1>2. InWalk(source[p], r)
  BY DEF InWalk, NoRequest, IInv, LogSound, LogTypeOK
<1> HIDE DEF r
<1> QED BY <1>1, <1>2, WalkStep

\* the certificates of the address, from the pool or from crt.sh,
LEMMA RootWalks ==
    ASSUME IInv, InvWalks, UNCHANGED <<ct, logged>>, NEW p \in Proc,
           req[p].step = "address", NEW certs, certs \subseteq OfAddress(req[p].addr, ct),
           Root(p, certs),
           NEW b \in BOOLEAN, source' = [source EXCEPT ![p].authoritative = b],
           IF b THEN /\ certs \subseteq source[p].pool
                     /\ source[p].kind = "cascade" =>
                            certs # {} /\ certs = OfAddress(req[p].addr, source[p].pool)
                ELSE OfAddress(req[p].addr, CtAsOf(req[p].asked)) \subseteq certs
    PROVE  InvWalks'
<1> DEFINE genesis == GenesisKeys(req[p].addr, req[p].day, certs)
           r == [req[p] EXCEPT !.step = "chain", !.got = certs, !.frontier = genesis]
           s == [source[p] EXCEPT !.authoritative = b]
<1>1. req' = [req EXCEPT ![p] = r] /\ source' = [source EXCEPT ![p] = s]
  BY DEF Root, IInv, InvTypes
<1>2. req[p] \in Request /\ InWalk(source[p], req[p]) /\ req[p].visited = {}
  BY AtHand DEF InvWalks, InWalk
<1>3. certs \subseteq Cert
  BY DEF OfAddress, IInv, LogSound, LogTypeOK
<1>4. \A k \in genesis : k \in Key /\ Descends(k, k)
  <2>1. \A k \in genesis : k \in Key
    BY <1>3, GenesisGrows
  <2> QED BY <2>1, OwnDescendant
<1>5. \A k \in Key : Commitments(k, certs) = {}
  BY AtHand, AddressHasNoCommitment DEF IInv
<1>6. \A k \in genesis : \E x \in certs : k = x.key
  BY DEF GenesisKeys
<1>7. /\ r.step = "chain" /\ r.got = certs /\ r.frontier = genesis
      /\ r.visited = {} /\ r.asked = req[p].asked
      /\ r.addr = req[p].addr /\ r.day = req[p].day
  BY <1>2 DEF Request
<1>8. s.authoritative = b /\ s.pool = source[p].pool /\ s.kind = source[p].kind
  BY AtHand DEF Source
<1> HIDE DEF genesis, r, s
<1>9. AddressAnswered(s, r)
  <2>1. CASE b
    BY <1>6, <1>7, <1>8, <2>1 DEF AddressAnswered
  <2>2. CASE ~b
    BY <1>7, <1>8, <2>2 DEF AddressAnswered
  <2> QED BY <2>1, <2>2
<1>10. OnChain(s, r)
  BY <1>4, <1>5, <1>7, <1>9 DEF OnChain, genesis
<1>11. InWalk(s, r)
  BY <1>2, <1>7, <1>10 DEF InWalk
<1> QED BY <1>1, <1>11, WalkStep

\* those of a key, from either, when the pool has hidden no fork,
LEMMA FaithfulVisitWalks ==
    ASSUME IInv, InvWalks, NEW p \in Proc, NEW k \in Key, NEW A, Faithful(A),
           Faithful(source[p].pool), Visit(p, k, OfKey(k, A)),
           IF source[p].authoritative \/ OfKey(k, source[p].pool) # {}
           THEN A = source[p].pool ELSE CtAsOf(req[p].asked) \subseteq A
    PROVE  InvWalks'
<1> DEFINE certs   == OfKey(k, A)
           visited == req[p].visited \cup {k}
           succ    == {EarliestSuccessor(k, certs)} \ ({NoKey} \cup visited)
           r == [req[p] EXCEPT !.got = @ \cup certs, !.visited = visited,
                               !.frontier = (@ \ {k}) \cup succ]
           had == req[p].got
           s == source[p]
<1>1. /\ req' = [req EXCEPT ![p] = r] /\ UNCHANGED <<ct, logged>>
      /\ source' = [source EXCEPT ![p] = source[p]]
      /\ req[p].step = "chain" /\ k \in req[p].frontier
  BY AtHand DEF Visit
<1>2. req[p] \in Request /\ InWalk(s, req[p]) /\ OnChain(s, req[p])
  BY <1>1, AtHand DEF InvWalks, InWalk
<1>3. LogSound /\ had \subseteq ct /\ certs \subseteq ct /\ ct \subseteq Cert
  BY AtHand DEF IInv, Faithful, OfKey, LogSound, LogTypeOK
<1>4. k \notin req[p].visited /\ Commitments(k, had) = {}
  BY <1>1, <1>2 DEF OnChain
<1>5. /\ Commitments(k, had \cup certs) = Commitments(k, certs)
      /\ EarliestSuccessor(k, had \cup certs) = EarliestSuccessor(k, certs)
  <2>1. Commitments(k, had \cup certs) = Commitments(k, certs)
    BY <1>4 DEF Commitments
  <2> QED BY <2>1, SameCommitments
<1>6. EarliestSuccessor(k, certs) \in {NoKey, EarliestSuccessor(k, ct)}
  BY <1>3, OfKeyIsFaithful, FaithfulAgrees
<1>7. \A j : j # k => {c \in had \cup certs : c.key = j} = {c \in had : c.key = j}
  BY DEF OfKey
<1>8. \A x \in succ : \E c \in certs : x = c.succ
  <2>1. ASSUME EarliestSuccessor(k, certs) # NoKey
        PROVE  \E c \in certs : EarliestSuccessor(k, certs) = c.succ
    <3>1. Faithful(certs) /\ Commitments(k, certs) # {}
      BY <2>1, OfKeyIsFaithful, NoneCommitted
    <3>2. PICK c \in certs : IsFirst(c, k, ct)
      BY <3>1 DEF Faithful
    <3>3. EarliestSuccessor(k, ct) = c.succ
      BY <1>3, <3>2, FirstWins DEF LogSound
    <3> QED BY <1>6, <2>1, <3>3
  <2> QED BY <2>1
<1>9. /\ GenesisKeys(req[p].addr, req[p].day, had \cup certs) \subseteq
             GenesisKeys(req[p].addr, req[p].day, had) \cup {k}
      /\ GenesisKeys(req[p].addr, req[p].day, had) \subseteq
             GenesisKeys(req[p].addr, req[p].day, had \cup certs)
  BY DEF GenesisKeys, OfKey
<1> HIDE DEF certs
<1>10. /\ r.step = "chain" /\ r.got = had \cup certs /\ r.visited = visited
       /\ r.frontier = (req[p].frontier \ {k}) \cup succ
       /\ r.asked = req[p].asked /\ r.addr = req[p].addr /\ r.day = req[p].day
  BY <1>1, <1>2 DEF Request
<1> HIDE DEF r
<1>11. r.frontier \cap r.visited = {}
  BY <1>2, <1>10 DEF OnChain
<1>12. GenesisKeys(r.addr, r.day, r.got) \subseteq r.visited \cup r.frontier
  BY <1>2, <1>9, <1>10 DEF OnChain
<1>13. ASSUME NEW j \in r.visited \cup r.frontier
       PROVE  \E g \in GenesisKeys(r.addr, r.day, r.got) : Descends(g, j)
  <2>1. CASE j \in req[p].visited \cup req[p].frontier
    BY <1>2, <1>9, <1>10, <2>1 DEF OnChain
  <2>2. CASE j \in succ
    <3>1. PICK g \in GenesisKeys(r.addr, r.day, r.got) : Descends(g, k)
      BY <1>1, <1>2, <1>9, <1>10 DEF OnChain
    <3>2. g \in Key
      <4>1. r.got \subseteq Cert
        BY <1>3, <1>10
      <4> QED BY <4>1, GenesisGrows
    <3> QED BY <1>6, <2>2, <3>1, <3>2, DescentGoesOn
  <2> QED BY <1>1, <1>10, <2>1, <2>2
<1>14. ASSUME NEW j \in r.visited
       PROVE  EarliestSuccessor(j, r.got) \in {NoKey} \cup r.visited \cup r.frontier
  <2>1. CASE j = k
    BY <1>5, <1>10, <2>1
  <2>2. CASE j # k
    <3>1. EarliestSuccessor(j, had \cup certs) = EarliestSuccessor(j, had)
      BY <1>7, <2>2, SameSuccessor
    <3> QED BY <1>2, <1>10, <2>2, <3>1 DEF OnChain
  <2> QED BY <2>1, <2>2
<1>15. ASSUME NEW j \in Key \ r.visited
       PROVE  Commitments(j, r.got) = {}
  <2>1. j # k /\ j \in Key \ req[p].visited
    BY <1>10
  <2>2. Commitments(j, had \cup certs) = Commitments(j, had)
    BY <1>7, <2>1, SameSuccessor
  <2> QED BY <1>2, <1>10, <2>1, <2>2 DEF OnChain
<1>16. AddressAnswered(s, r)
  <2>1. AddressAnswered(s, req[p])
    BY <1>2 DEF OnChain
  <2>2. CASE ~s.authoritative
    BY <1>10, <2>1, <2>2 DEF AddressAnswered
  <2>3. CASE s.authoritative
    <3>1. certs \subseteq s.pool
      BY <2>3 DEF certs, OfKey
    <3>2. \A j \in succ : \E x \in s.pool : j \in {x.key, x.succ}
      BY <1>8, <3>1
    <3> HIDE DEF succ
    <3>3. \A j \in r.visited \cup r.frontier :
              j \in req[p].visited \cup req[p].frontier \cup succ
      BY <1>1, <1>10
    <3> QED BY <1>10, <2>1, <2>3, <3>1, <3>2, <3>3 DEF AddressAnswered
  <2> QED BY <2>2, <2>3
<1>17. ASSUME NEW j \in r.visited
       PROVE  KeyAnswered(s, r, j)
  <2>1. CASE j = k
    BY <1>10, <2>1 DEF KeyAnswered, certs, OfKey
  <2>2. CASE j # k
    <3>1. KeyAnswered(s, req[p], j)
      BY <1>2, <1>10, <2>2 DEF OnChain
    <3> QED BY <1>10, <3>1 DEF KeyAnswered
  <2> QED BY <2>1, <2>2
<1> HIDE DEF succ, s, had
<1>18. OnChain(s, r)
  BY <1>11, <1>12, <1>13, <1>14, <1>15, <1>16, <1>17 DEF OnChain
<1>19. InWalk(s, r)
  BY <1>2, <1>10, <1>18 DEF InWalk
<1> QED BY <1>1, <1>19, WalkStep DEF s

\* or when it has,
LEMMA VisitWalks ==
    ASSUME IInv, InvWalks, NEW p \in Proc, NEW k \in Key,
           KeyFromPool(p, k) \/ KeyFromCrtSh(p, k)
    PROVE  InvWalks'
<1>1. CASE Faithful(source[p].pool)
  <2>1. CASE KeyFromPool(p, k)
    BY <1>1, <2>1, FaithfulVisitWalks DEF KeyFromPool
  <2>2. CASE KeyFromCrtSh(p, k)
    BY <1>1, <2>2, CtIsFaithful, FaithfulVisitWalks DEF KeyFromCrtSh, CtAsOf, IInv
  <2> QED BY <2>1, <2>2
<1>2. CASE ~Faithful(source[p].pool)
  <2>1. /\ UNCHANGED <<ct, logged>> /\ source' = [source EXCEPT ![p] = source[p]]
        /\ req[p].step = "chain" /\ req[p] \in Request /\ InWalk(source[p], req[p])
    BY AtHand DEF KeyFromPool, KeyFromCrtSh, Visit, InvWalks
  <2>2. PICK r : /\ req' = [req EXCEPT ![p] = r]
                 /\ r.step = "chain" /\ r.asked = req[p].asked
    <3> SUFFICES ASSUME NEW certs, Visit(p, k, certs)
                 PROVE  \E r : /\ req' = [req EXCEPT ![p] = r]
                               /\ r.step = "chain" /\ r.asked = req[p].asked
      BY DEF KeyFromPool, KeyFromCrtSh
    <3> DEFINE visited == req[p].visited \cup {k}
               succ == {EarliestSuccessor(k, certs)} \ ({NoKey} \cup visited)
               r == [req[p] EXCEPT !.got = @ \cup certs, !.visited = visited,
                                   !.frontier = (@ \ {k}) \cup succ]
    <3>1. req' = [req EXCEPT ![p] = r]
      BY DEF Visit
    <3>2. r.step = "chain" /\ r.asked = req[p].asked
      BY <2>1 DEF Request
    <3> HIDE DEF r
    <3> QED BY <3>1, <3>2
  <2>3. InWalk(source[p], r)
    BY <1>2, <2>1, <2>2 DEF InWalk
  <2> QED BY <2>1, <2>2, <2>3, WalkStep
<1> QED BY <1>1, <1>2

\* and ends, with an answer or without.
LEMMA EndWalks ==
    ASSUME IInv, InvWalks, NEW p \in Proc, Finish(p) \/ CrtShFails(p)
    PROVE  InvWalks'
<1>1. UNCHANGED <<ct, logged>> /\ req' = [req EXCEPT ![p] = NoRequest]
  BY DEF Finish, CrtShFails
<1>2. PICK s : source' = [source EXCEPT ![p] = s]
  <2>1. CASE Finish(p)
    BY <2>1, AtHand DEF Finish
  <2>2. CASE CrtShFails(p)
    BY <2>2 DEF CrtShFails
  <2> QED BY <2>1, <2>2
<1>3. InWalk(s, NoRequest)
  BY DEF InWalk, NoRequest, IInv, LogSound, LogTypeOK
<1> QED BY <1>1, <1>2, <1>3, WalkStep

\* Every step preserves the invariant of the walks.
LEMMA WalksStep ==
    ASSUME IInv, InvWalks, [Next]_vars
    PROVE  InvWalks'
<1>1. ASSUME NEW c \in Cert, Log(c), UNCHANGED <<source, req>>
      PROVE  InvWalks'
  <2>1. ASSUME NEW p \in Proc
        PROVE  InWalk(source[p], req[p])'
    <3>1. /\ req[p] \in Request /\ req[p].got \subseteq ct /\ source[p].pool \subseteq ct
          /\ InWalk(source[p], req[p])
      BY AtHand DEF InvWalks
    <3>2. \E s, r : s = source[p] /\ r = req[p] /\ InWalk(s, r)'
      BY <1>1, <3>1, WalkGrows DEF IInv
    <3> QED BY <1>1, <3>2 DEF InWalk, OnChain, KeyAnswered, AddressAnswered, Faithful
  <2> QED BY <1>1, <2>1 DEF InvWalks
<1>2. CASE UNCHANGED <<ct, logged, source, req>>
  <2>1. ASSUME NEW p \in Proc
        PROVE  InWalk(source[p], req[p])'
    <3>1. \E s, r : s = source[p] /\ r = req[p] /\ InWalk(s, r)'
      BY <1>2, WalkStill DEF InvWalks
    <3> QED BY <1>2, <3>1 DEF InWalk, OnChain, KeyAnswered, AddressAnswered, Faithful
  <2> QED BY <1>2, <2>1 DEF InvWalks
<1>3. ASSUME NEW k \in Key, NEW a \in Addr, LogAddress(k, a)
      PROVE  InvWalks'
  <2>1. today \in Nat /\ today + Window \in Nat
    BY CascadeAssumption DEF IInv, LogSound, LogTypeOK
  <2> QED BY <1>1, <1>3, <2>1, IpCertType DEF LogAddress
<1>4. ASSUME NEW k \in Key, NEW s \in Key, LogCommitment(k, s)
      PROVE  InvWalks'
  BY <1>1, <1>4, CommitmentCertType DEF LogCommitment
<1>5. ASSUME NEW p \in Proc, AddressFromPool(p)
      PROVE  InvWalks'
  <2>1. source[p].pool \subseteq ct
    BY AtHand
  <2>2. /\ Pooled(p) \subseteq OfAddress(req[p].addr, ct) /\ Pooled(p) \subseteq source[p].pool
        /\ Pooled(p) # {} => Pooled(p) = OfAddress(req[p].addr, source[p].pool)
    BY <2>1 DEF Pooled, OfAddress
  <2> QED BY <1>5, <2>2, RootWalks DEF AddressFromPool
<1>6. ASSUME NEW p \in Proc, AddressFromCrtSh(p)
      PROVE  InvWalks'
  BY <1>6, RootWalks DEF AddressFromCrtSh, FallsThrough, CtAsOf, OfAddress
<1>7. ASSUME NEW p \in Proc, Verification(p)
      PROVE  InvWalks'
  BY <1>5, <1>6, <1>7, SourceWalks, AskWalks, VisitWalks, EndWalks
  DEF Verification, AddressQuery, KeyQuery
<1> QED
  BY <1>2, <1>3, <1>4, <1>7 DEF Next, Midnight, NewDay, vars

\* The invariant of the walks holds of every behaviour.
LEMMA WalksInvariant == Spec => []InvWalks
<1>1. Init => InvWalks
  BY DEF Init, LogInit, InvWalks, InWalk, NoRequest
<1> QED BY <1>1, WalksStep, Invariance, PTL DEF Spec

-----------------------------------------------------------------------------
(* What a walk has found when it ends.                                     *)

\* A walk through a whole pool, or through crt.sh, has by its end all that CT had,
\* when the question was asked, on the keys it visited, and every genesis key.
LEMMA WholeWalkHasAll ==
    ASSUME IInv, InvWalks, NEW p \in Proc, req[p].step = "chain",
           source[p].kind = "cascade", Whole(source[p].pool, CtAsOf(req[p].asked)),
           Faithful(source[p].pool)
    PROVE  /\ GenesisKeys(req[p].addr, req[p].day, CtAsOf(req[p].asked))
                  \subseteq GenesisKeys(req[p].addr, req[p].day, req[p].got)
           /\ \A k \in req[p].visited :
                  {c \in CtAsOf(req[p].asked) : c.key = k} \subseteq req[p].got
<1> DEFINE s == source[p]
           r == req[p]
           A == CtAsOf(r.asked)
<1>1. /\ OnChain(s, r) /\ AddressAnswered(s, r) /\ r.addr \in Addr
      /\ r.addr # NoAddr
  BY AtHand, AddrAssumption DEF InvWalks, InWalk, OnChain
<1>2. Whole(s.pool, A) /\ s.kind = "cascade"
  OBVIOUS
<1> HIDE DEF s, r, A
<1>3. OfAddress(r.addr, A) \subseteq r.got
  <2>1. CASE s.authoritative
    <3>1. PICK x \in s.pool : x.addr = r.addr
      BY <1>1, <1>2, <2>1 DEF AddressAnswered, OfAddress
    <3>2. \A c \in A : c.addr = r.addr => c \in s.pool
      BY <1>1, <1>2, <3>1 DEF Whole
    <3>3. OfAddress(r.addr, s.pool) \subseteq r.got
      BY <1>1, <1>2, <2>1 DEF AddressAnswered
    <3> QED BY <3>2, <3>3 DEF OfAddress
  <2>2. CASE ~s.authoritative
    BY <1>1, <2>2 DEF AddressAnswered, A
  <2> QED BY <2>1, <2>2
<1>4. ASSUME NEW k \in r.visited
      PROVE  {c \in A : c.key = k} \subseteq r.got
  <2>1. KeyAnswered(s, r, k)
    BY <1>1 DEF OnChain
  <2>2. CASE s.authoritative \/ OfKey(k, s.pool) # {}
    <3>1. PICK x \in s.pool : k \in {x.key, x.succ}
      BY <1>1, <2>2 DEF AddressAnswered, OfKey
    <3>2. \A c \in A : c.key = k => c \in s.pool
      BY <1>2, <3>1 DEF Whole
    <3>3. OfKey(k, s.pool) \subseteq r.got
      BY <2>1, <2>2 DEF KeyAnswered
    <3> QED BY <3>2, <3>3 DEF OfKey
  <2>3. CASE ~(s.authoritative \/ OfKey(k, s.pool) # {})
    BY <2>1, <2>3 DEF KeyAnswered, OfKey, A
  <2> QED BY <2>2, <2>3
<1>5. GenesisKeys(r.addr, r.day, A) \subseteq GenesisKeys(r.addr, r.day, r.got)
  BY <1>3 DEF GenesisKeys, IsGenesis, OfAddress
<1> QED BY <1>4, <1>5 DEF r, A

\* A document that CT verified when the question was asked is VERIFIED by the
\* cascade whenever its pool is whole and hides no fork, whichever layer answered
\* which query.
THEOREM WholePoolsAreComplete == Spec => WholePoolIsComplete
<1> DEFINE Complete ==
        \A p \in Proc :
            /\ Answers(p) /\ source[p].kind = "cascade"
            /\ WithinBound(req[p].addr, req[p].day) /\ WasVerified(p)
            /\ Whole(source[p].pool, CtAsOf(req[p].asked)) /\ Candid(source[p].pool)
            => answer'[p].verdict.verified
<1>1. IInv /\ InvAnswers /\ InvWalks /\ [Next]_vars => Complete
  <2> SUFFICES ASSUME IInv, InvAnswers, InvWalks, [Next]_vars, NEW p \in Proc,
                      Answers(p), source[p].kind = "cascade",
                      WithinBound(req[p].addr, req[p].day), WasVerified(p),
                      Whole(source[p].pool, CtAsOf(req[p].asked)), Candid(source[p].pool)
               PROVE  answer'[p].verdict.verified
    BY DEF Complete
  <2> DEFINE A == CtAsOf(req[p].asked)
             B == req[p].got
             a == req[p].addr
             d == req[p].day
             doc == req[p].doc
             visited == req[p].visited
  <2>1. Finish(p) /\ answer'[p].verdict = Verify(doc, a, d, B)
    BY AnswersFinish
  <2>2. /\ LogSound /\ req[p] \in Request /\ OnChain(source[p], req[p])
        /\ Faithful(source[p].pool) /\ Faithful(B)
        /\ doc \in Key /\ visited \in SUBSET Key /\ req[p].asked \in Nat
    <3>1. Faithful(source[p].pool) /\ req[p].step = "chain"
      BY <2>1, AtHand, CandidIsFaithful DEF IInv, Finish
    <3> QED BY <3>1, AtHand, FaithfulWalk DEF IInv, InvAnswers, InvWalks, InWalk, Request
  <2>3. req[p].frontier = {}
    <3>1. GenesisKeys(a, d, B) \subseteq GenesisKeys(a, d, ct)
      BY <2>2, GenesisGrows DEF Faithful, LogSound, LogTypeOK
    <3>2. \A k \in visited \cup req[p].frontier :
              k \in Key /\ \E g \in GenesisKeys(a, d, ct) : Descends(g, k)
      BY <2>2, <3>1 DEF OnChain, Request
    <3>3. /\ req[p].frontier \cap visited = {}
          /\ req[p].frontier = {} \/ Cardinality(visited) >= MaxGenerations
      BY <2>1, <2>2 DEF OnChain, Finish
    <3> QED BY <2>2, <3>2, <3>3, BoundSuffices DEF WithinBound
  <2>4. Faithful(A)
    BY <2>2, PastIsFaithful
  <2>5. /\ GenesisKeys(a, d, A) \subseteq GenesisKeys(a, d, B)
        /\ \A k \in visited : {c \in A : c.key = k} \subseteq B
    BY <2>1, <2>2, WholeWalkHasAll DEF Finish
  <2>6. /\ GenesisKeys(a, d, B) \subseteq visited
        /\ \A k \in visited : EarliestSuccessor(k, B) \in {NoKey} \cup visited
    BY <2>2, <2>3 DEF OnChain
  <2>7. Verify(doc, a, d, A).verified
    BY DEF WasVerified
  <2>8. Verify(doc, a, d, B).verified
    <3> HIDE DEF A, B, a, d, doc, visited
    <3> QED BY <2>2, <2>4, <2>5, <2>6, <2>7, CollectedVerifies
  <2> QED BY <2>1, <2>8
<1>2. IInv /\ InvAnswers /\ InvWalks /\ [Next]_vars => [Complete]_vars
  BY <1>1
<1> QED
  BY <1>2, Invariance, AnswersInvariant, WalksInvariant, PTL DEF Spec, WholePoolIsComplete

=============================================================================
