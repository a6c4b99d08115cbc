-------------------------- MODULE CtVerifier_proofs --------------------------
(***************************************************************************)
(* Proofs about CtVerifier: however the queries of a walk, the growth of   *)
(* CT and the traffic on the cache interleave, the evidence at hand never  *)
(* names a successor that CT does not, so that no key is verified that the *)
(* history of the RUUID does not support, the walk finds every key that    *)
(* its generations reach, and what it reports was so at some moment while  *)
(* it ran.                                                                 *)
(***************************************************************************)
EXTENDS CtVerifier, CtLog_proofs

\* The cache and the certificates of every walk hold, with a commitment of a key,
\* the first one.
InvFaithful ==
    /\ \A a \in Addr : Faithful(cache[a])
    /\ \A p \in Proc : Faithful(req[p].loaded) /\ Faithful(req[p].got)

InvTypes == cache \in [Addr -> SUBSET Cert] /\ req \in [Proc -> Request]

IInv == LogSound /\ InvShape /\ InvTypes /\ InvFaithful

-----------------------------------------------------------------------------
(* The inductive invariant.                                                *)

\* The idle request is a request that holds no evidence.
LEMMA NoRequestType == NoRequest \in Request /\ NoRequest.loaded = {} /\ NoRequest.got = {}
BY AddrAssumption DEF NoRequest, Request, AnyAddr

\* A step that logs nothing, after which the cache and the requests still hold
\* faithful evidence.
LEMMA QuietStep ==
    ASSUME IInv, UNCHANGED <<ct, logged>>, today' \in Nat, InvTypes',
           \A a \in Addr : Faithful(cache'[a]),
           \A p \in Proc : Faithful(req'[p].loaded) /\ Faithful(req'[p].got)
    PROVE  IInv'
<1>1. LogSound'
  BY DEF IInv, LogSound, LogTypeOK, Ordered, IsFirst, Commitments
<1>2. InvShape'
  BY DEF IInv, InvShape
<1>3. \A A : Faithful(A)' <=> Faithful(A)
  BY DEF Faithful, IsFirst, Commitments
<1>4. InvFaithful'
  BY <1>3 DEF InvFaithful, Faithful, IsFirst, Commitments
<1> QED BY <1>1, <1>2, <1>4 DEF IInv

\* A certificate logged, which never has both an address and a successor, preserves
\* the invariant: it comes after all that is cached or fetched.
LEMMA LoggingStep ==
    ASSUME IInv, NEW c \in Cert, Log(c), UNCHANGED <<cache, req>>,
           c.addr = NoAddr \/ c.succ = NoKey
    PROVE  IInv'
<1>1. LogSound'
  BY LogKeepsSound DEF IInv
<1>2. InvShape'
  <2>1. ct' = ct \cup {Stamped(c)} /\ Stamped(c).addr = c.addr /\ Stamped(c).succ = c.succ
    BY StampedType DEF Log, Stamped, IInv
  <2> QED BY <2>1 DEF IInv, InvShape
<1>3. InvTypes'
  BY DEF IInv, InvTypes
<1>4. InvFaithful'
  <2>1. \A A : Faithful(A) =>
            /\ A \subseteq ct'
            /\ \A k \in Key : Commitments(k, A) = {} \/ \E x \in A : IsFirst(x, k, ct')
    BY LoggingKeepsFaithful DEF IInv
  <2> QED BY <2>1 DEF IInv, InvFaithful, Faithful
<1> QED BY <1>1, <1>2, <1>3, <1>4 DEF IInv

\* A step that gives process p request r.
LEMMA RequestStep ==
    ASSUME IInv, UNCHANGED <<ct, logged, today, cache>>, NEW p \in Proc, NEW r \in Request,
           req' = [req EXCEPT ![p] = r], Faithful(r.loaded), Faithful(r.got)
    PROVE  IInv'
<1>1. InvTypes' /\ (\A q \in Proc : req'[q] = IF q = p THEN r ELSE req[q])
  BY DEF IInv, InvTypes
<1>2. today' \in Nat
  BY DEF IInv, LogSound, LogTypeOK
<1> QED BY <1>1, <1>2, QuietStep DEF IInv, InvFaithful

\* Beginning a verification (verify_ruuid, load) preserves the invariant.
LEMMA BeginStep ==
    ASSUME IInv, NEW p \in Proc, NEW doc \in Document, NEW a \in Addr,
           NEW d \in 0..LastDay, Begin(p, doc, a, d)
    PROVE  IInv'
<1> DEFINE r == [NoRequest EXCEPT !.step = "address", !.doc = doc, !.addr = a,
                    !.day = d, !.asked = logged, !.loaded = cache[a]]
<1>1. /\ req' = [req EXCEPT ![p] = NoRequest] \/ req' = [req EXCEPT ![p] = r]
      /\ UNCHANGED <<ct, logged, today, cache>>
  BY DEF Begin, Tell
<1>2. r \in Request /\ r.loaded = cache[a] /\ r.got = {}
  <2>1. d \in Nat /\ logged \in Nat /\ cache[a] \in SUBSET Cert
    BY VerifierAssumption DEF IInv, InvTypes, LogSound, LogTypeOK
  <2>2. doc \in Key \cup {NoKey}
    BY VerifierAssumption
  <2> QED BY <2>1, <2>2, AddrAssumption DEF NoRequest, Request, AnyAddr
<1>3. Faithful(r.loaded) /\ Faithful(r.got)
  BY <1>2, NothingIsFaithful DEF IInv, InvFaithful
<1> HIDE DEF r
<1> QED BY <1>1, <1>2, <1>3, RequestStep, NoRequestType, NothingIsFaithful

\* So does the answer to certs_for_ip,
LEMMA QueryAddressStep ==
    ASSUME IInv, NEW p \in Proc, QueryAddress(p)
    PROVE  IInv'
<1> DEFINE certs == {c \in ct : c.addr = req[p].addr}
           r == [req[p] EXCEPT !.step = "chain", !.got = certs,
                    !.frontier = GenesisKeys(req[p].addr, req[p].day, certs)]
<1>1. req' = [req EXCEPT ![p] = r] /\ UNCHANGED <<ct, logged, today, cache>>
  BY DEF QueryAddress, IInv, InvTypes
<1>2. req[p] \in Request /\ req[p].addr \in Addr /\ certs \in SUBSET Cert
  BY DEF IInv, InvTypes, Request, LogSound, LogTypeOK
<1>3. GenesisKeys(req[p].addr, req[p].day, certs) \subseteq Key
  BY <1>2 DEF GenesisKeys, Cert
<1>4. r \in Request /\ r.loaded = req[p].loaded /\ r.got = certs
  BY <1>2, <1>3 DEF Request
<1>5. Faithful(r.loaded) /\ Faithful(r.got)
  BY <1>2, <1>4, AddressQueryIsFaithful DEF IInv, InvFaithful
<1> HIDE DEF r
<1> QED BY <1>1, <1>4, <1>5, RequestStep

\* the answer to certs_for_spki,
LEMMA QueryKeyStep ==
    ASSUME IInv, NEW p \in Proc, NEW k \in Key, QueryKey(p, k)
    PROVE  IInv'
<1> DEFINE certs   == {c \in ct : c.key = k}
           visited == req[p].visited \cup {k}
           succ    == {EarliestSuccessor(k, certs)} \ ({NoKey} \cup visited)
           r == [req[p] EXCEPT !.got = @ \cup certs, !.visited = visited,
                               !.frontier = (@ \ {k}) \cup succ]
<1>1. req' = [req EXCEPT ![p] = r] /\ UNCHANGED <<ct, logged, today, cache>>
  BY DEF QueryKey
<1>2. req[p] \in Request /\ certs \in SUBSET Cert
  BY DEF IInv, InvTypes, LogSound, LogTypeOK
<1>3. Faithful(certs)
  BY KeyQueryIsFaithful DEF IInv
<1>4. succ \subseteq Key
  <2>1. EarliestSuccessor(k, certs) \in {NoKey, EarliestSuccessor(k, ct)}
    BY <1>3, FaithfulAgrees DEF IInv
  <2>2. EarliestSuccessor(k, ct) \in Key \cup {NoKey}
    BY SuccessorInLog DEF IInv
  <2> QED BY <2>1, <2>2
<1> HIDE DEF certs, succ
<1>5. r \in Request /\ r.loaded = req[p].loaded /\ r.got = req[p].got \cup certs
  BY <1>2, <1>4 DEF Request
<1>6. Faithful(r.loaded) /\ Faithful(r.got)
  BY <1>3, <1>5, MergeIsFaithful DEF IInv, InvFaithful
<1> HIDE DEF r
<1> QED BY <1>1, <1>5, <1>6, RequestStep

\* the merge, the verdict and the save,
LEMMA FinishStep ==
    ASSUME IInv, NEW p \in Proc, Finish(p)
    PROVE  IInv'
<1> DEFINE certs == req[p].loaded \cup req[p].got
<1>1. /\ req' = [req EXCEPT ![p] = NoRequest] /\ UNCHANGED <<ct, logged, today>>
      /\ cache' = [cache EXCEPT ![req[p].addr] = certs] \/ cache' = cache
  BY DEF Finish, Tell, logVars
<1>2. Faithful(certs)
  BY MergeIsFaithful DEF IInv, InvFaithful
<1>3. req[p].addr \in Addr /\ certs \in SUBSET Cert
  BY DEF IInv, InvTypes, Request
<1> HIDE DEF certs
<1>4. /\ InvTypes'
      /\ \A a \in Addr : cache'[a] \in {cache[a], certs}
      /\ \A q \in Proc : req'[q] \in {req[q], NoRequest}
  BY <1>1, <1>3, NoRequestType DEF IInv, InvTypes
<1>5. \A a \in Addr : Faithful(cache'[a])
  BY <1>2, <1>4 DEF IInv, InvFaithful
<1>6. \A q \in Proc : Faithful(req'[q].loaded) /\ Faithful(req'[q].got)
  BY <1>4, NoRequestType, NothingIsFaithful DEF IInv, InvFaithful
<1>7. today' \in Nat
  BY <1>1 DEF IInv, LogSound, LogTypeOK
<1> QED BY <1>1, <1>4, <1>5, <1>6, <1>7, QuietStep

\* the loss of a cache file,
LEMMA CacheLostStep ==
    ASSUME IInv, NEW a \in Addr, CacheLost(a)
    PROVE  IInv'
<1>1. /\ UNCHANGED <<ct, logged, today, req>> /\ InvTypes'
      /\ \A b \in Addr : cache'[b] \in {cache[b], {}}
  BY DEF CacheLost, IInv, InvTypes
<1>2. today' \in Nat
  BY <1>1 DEF IInv, LogSound, LogTypeOK
<1> QED BY <1>1, <1>2, QuietStep, NothingIsFaithful DEF IInv, InvFaithful

\* an IP certificate logged by anyone,
LEMMA LogAddressStep ==
    ASSUME IInv, NEW k \in Key, NEW a \in Addr, LogAddress(k, a)
    PROVE  IInv'
<1>1. today \in Nat /\ today + Window \in Nat
  BY VerifierAssumption DEF IInv, LogSound, LogTypeOK
<1>2. /\ IpCert(k, a, today, today + Window) \in Cert
      /\ IpCert(k, a, today, today + Window).succ = NoKey
  BY <1>1, IpCertType
<1> QED BY <1>2, LoggingStep DEF LogAddress

\* and a commitment logged by anyone.
LEMMA LogCommitmentStep ==
    ASSUME IInv, NEW k \in Key, NEW s \in Key, LogCommitment(k, s)
    PROVE  IInv'
BY CommitmentCertType, LoggingStep DEF LogCommitment

\* The invariant holds initially.
LEMMA InvInit == Init => IInv
<1> SUFFICES ASSUME Init PROVE IInv
  OBVIOUS
<1>1. LogSound /\ ct = {}
  BY EmptyLog DEF Init, LogInit
<1>2. InvTypes
  BY NoRequestType DEF Init, InvTypes
<1>3. InvFaithful
  BY NoRequestType, NothingIsFaithful DEF Init, InvFaithful
<1> QED BY <1>1, <1>2, <1>3 DEF IInv, InvShape

\* Every step preserves the invariant.
LEMMA InvStep ==
    ASSUME IInv, Next
    PROVE  IInv'
<1>1. ASSUME NEW p \in Proc, Walk(p)
      PROVE  IInv'
  BY <1>1, QueryAddressStep, QueryKeyStep, FinishStep DEF Walk
<1>2. ASSUME NEW p \in Proc, QueryFails(p)
      PROVE  IInv'
  BY <1>2, RequestStep, NoRequestType, NothingIsFaithful DEF QueryFails
<1>3. CASE Midnight
  <2>1. UNCHANGED <<ct, logged, cache, req>> /\ today' \in Nat /\ InvTypes'
    BY <1>3 DEF Midnight, NewDay, IInv, LogSound, LogTypeOK, InvTypes
  <2> QED BY <2>1, QuietStep DEF IInv, InvFaithful
<1> QED
  BY <1>1, <1>2, <1>3, BeginStep, CacheLostStep, LogAddressStep, LogCommitmentStep DEF Next

\* The inductive invariant holds of every behaviour.
LEMMA Invariance == Spec => []IInv
<1>1. IInv /\ [Next]_vars => IInv'
  <2> SUFFICES ASSUME IInv, [Next]_vars PROVE IInv'
    OBVIOUS
  <2>1. CASE UNCHANGED vars
    <3>1. UNCHANGED <<ct, logged, today, cache, req>>
      BY <2>1 DEF vars
    <3>2. InvTypes' /\ today' \in Nat
      BY <3>1 DEF IInv, InvTypes, LogSound, LogTypeOK
    <3> QED BY <3>1, <3>2, QuietStep DEF IInv, InvFaithful
  <2> QED BY <2>1, InvStep
<1> QED BY <1>1, InvInit, PTL DEF Spec

-----------------------------------------------------------------------------
(* What it gives.                                                          *)

\* No evidence a verification gathers, loads or saves contradicts CT on who
\* succeeds a key, with any number of processes sharing the cache.
THEOREM EvidenceNeverMisleads == Spec => []EvidenceAgrees
<1>1. IInv => EvidenceAgrees
  BY FaithfulAgrees DEF IInv, InvFaithful, EvidenceAgrees
<1> QED BY <1>1, Invariance, PTL

\* A step logs one certificate, or none.
LEMMA StepsLog ==
    ASSUME IInv, Next
    PROVE  (\E c \in Cert : Log(c)) \/ ct' = ct
<1>1. ASSUME NEW k \in Key, NEW a \in Addr, LogAddress(k, a)
      PROVE  \E c \in Cert : Log(c)
  <2>1. today \in Nat /\ today + Window \in Nat
    BY VerifierAssumption DEF IInv, LogSound, LogTypeOK
  <2> QED BY <1>1, <2>1, IpCertType DEF LogAddress
<1>2. ASSUME NEW k \in Key, NEW s \in Key, LogCommitment(k, s)
      PROVE  \E c \in Cert : Log(c)
  BY <1>2, CommitmentCertType DEF LogCommitment
<1> QED
  BY <1>1, <1>2
  DEF Next, Begin, Walk, QueryAddress, QueryKey, Finish, QueryFails, CacheLost,
      Midnight, NewDay, logVars

\* Nothing logged later takes a key out of a chain of custody.
THEOREM CtChainsOnlyGrow == Spec => ChainsOnlyGrow
<1>1. IInv /\ [Next]_vars =>
          [\A g, d \in Key : Descends(g, d) => Descends(g, d)']_ct
  BY StepsLog, DescentAfterLog DEF IInv, vars
<1> QED BY <1>1, Invariance, PTL DEF Spec, ChainsOnlyGrow

\* CT read through _earliest_successor implements the abstract promise.
THEOREM CtImplementsSuccession == Spec => ImplementsSuccession
<1>1. Init => Authority!Init
  BY EmptyLog DEF Init
<1>2. IInv /\ [Next]_vars => [Authority!Next]_(SuccessorMap(ct))
  BY StepsLog, LogEndorses DEF IInv, vars
<1> QED
  BY <1>1, <1>2, Invariance, PTL DEF Spec, ImplementsSuccession, Authority!Spec

-----------------------------------------------------------------------------
(* The answers.                                                            *)

\* Every answer given so far is sound in CT as it is now.
InvAnswers ==
    /\ answer \in [Proc -> Answer]
    /\ \A p \in Proc : Sound(answer[p].verdict, answer[p].addr, answer[p].day)

\* No answer is one that accepts no key.
LEMMA NoAnswerType == NoAnswer \in Answer /\ ~NoAnswer.verdict.verified
BY AddrAssumption DEF NoAnswer, Answer, AnyAddr, Reject, Verdict, Reason

\* A sound verdict stays so, whatever is logged.
LEMMA SoundStays ==
    ASSUME IInv, [Next]_vars, NEW v, NEW a, NEW d, Sound(v, a, d)
    PROVE  Sound(v, a, d)'
<1>1. CASE \E c \in Cert : Log(c)
  BY <1>1, SoundAfterLog DEF IInv
<1>2. CASE ct' = ct
  BY <1>2 DEF Sound, Descends, Authority!Descends
<1> QED BY <1>1, <1>2, StepsLog DEF vars

\* A step that gives process p an answer, which is sound, and logs nothing.
LEMMA AnswerStep ==
    ASSUME InvAnswers, ct' = ct, NEW p \in Proc, NEW r \in Answer,
           answer' = [answer EXCEPT ![p] = r], Sound(r.verdict, r.addr, r.day)
    PROVE  InvAnswers'
<1>1. /\ answer' \in [Proc -> Answer]
      /\ \A q \in Proc : answer'[q] = IF q = p THEN r ELSE answer[q]
  BY DEF InvAnswers
<1>2. \A q \in Proc : Sound(answer'[q].verdict, answer'[q].addr, answer'[q].day)
  BY <1>1 DEF InvAnswers
<1> QED BY <1>1, <1>2 DEF InvAnswers, Sound, Descends, Authority!Descends

\* verify() on faithful evidence tells the truth.
LEMMA TellStep ==
    ASSUME IInv, InvAnswers, ct' = ct, NEW p \in Proc, NEW r \in Request,
           NEW source \in {"cache", "ct"}, NEW certs, Faithful(certs),
           Tell(p, source, r, certs)
    PROVE  InvAnswers'
<1> DEFINE v == Verify(r.doc, r.addr, r.day, certs)
           told == [source |-> source, doc |-> r.doc, addr |-> r.addr,
                    day |-> r.day, verdict |-> v]
<1>1. r.doc \in Key \cup {NoKey} /\ r.addr \in Addr /\ r.day \in Nat
  BY DEF Request
<1>2. v \in Verdict /\ Sound(v, r.addr, r.day)
  BY <1>1, VerifyIsSound DEF IInv
<1>3. answer' = [answer EXCEPT ![p] = told]
  BY DEF Tell
<1> HIDE DEF v
<1>4. /\ told \in Answer
      /\ told.verdict = v /\ told.addr = r.addr /\ told.day = r.day
  BY <1>1, <1>2 DEF Answer
<1> HIDE DEF told
<1> QED BY <1>2, <1>3, <1>4, AnswerStep

\* Answers from the cache, from CT, and none yet.
LEMMA AnswersStep ==
    ASSUME IInv, InvAnswers, [Next]_vars
    PROVE  InvAnswers'
<1>1. CASE answer' = answer
  BY <1>1, SoundStays DEF InvAnswers
<1>2. ASSUME NEW p \in Proc, NEW doc \in Document, NEW a \in Addr,
             NEW d \in 0..LastDay, Begin(p, doc, a, d)
      PROVE  InvAnswers'
  <2> DEFINE r == [NoRequest EXCEPT !.step = "address", !.doc = doc, !.addr = a,
                      !.day = d, !.asked = logged, !.loaded = cache[a]]
  <2>1. ct' = ct
    BY <1>2 DEF Begin
  <2>2. \/ Tell(p, "cache", r, cache[a])
        \/ answer' = [answer EXCEPT ![p] = NoAnswer]
    BY <1>2 DEF Begin
  <2>3. r \in Request
    <3>1. d \in Nat /\ logged \in Nat /\ cache[a] \in SUBSET Cert
      BY VerifierAssumption DEF IInv, InvTypes, LogSound, LogTypeOK
    <3>2. doc \in Key \cup {NoKey}
      BY VerifierAssumption
    <3> QED BY <3>1, <3>2, AddrAssumption DEF NoRequest, Request, AnyAddr
  <2>4. Faithful(cache[a])
    BY DEF IInv, InvFaithful
  <2> HIDE DEF r
  <2>5. Sound(NoAnswer.verdict, NoAnswer.addr, NoAnswer.day)
    BY NoAnswerType DEF Sound
  <2> QED BY <2>1, <2>2, <2>3, <2>4, <2>5, NoAnswerType, AnswerStep, TellStep
<1>3. ASSUME NEW p \in Proc, Finish(p)
      PROVE  InvAnswers'
  <2>1. ct' = ct /\ Tell(p, "ct", req[p], req[p].loaded \cup req[p].got)
    BY <1>3 DEF Finish, logVars
  <2>2. req[p] \in Request /\ Faithful(req[p].loaded \cup req[p].got)
    BY MergeIsFaithful DEF IInv, InvTypes, InvFaithful
  <2> QED BY <2>1, <2>2, TellStep
<1> QED
  BY <1>1, <1>2, <1>3
  DEF Next, Walk, QueryAddress, QueryKey, QueryFails, CacheLost, LogAddress,
      LogCommitment, Midnight, vars

\* Every answer, ever after it is given, is sound.
LEMMA AnswersInvariant == Spec => []InvAnswers
<1>1. Init => InvAnswers
  BY NoAnswerType DEF Init, InvAnswers, Sound
<1> QED BY <1>1, AnswersStep, Invariance, PTL DEF Spec

\* The cache, the requests and the answers are what they are declared to be,
\* with the verdict of every walk, whatever its evidence, among the verdicts.
THEOREM VerifierTypeCorrect == Spec => []TypeOK
<1>1. IInv /\ InvAnswers => TypeOK
  BY DEF IInv, LogSound, InvTypes, InvAnswers, TypeOK
<1> QED BY <1>1, Invariance, AnswersInvariant, PTL

\* A key that is ever reported VERIFIED descends in CT from a key that held the
\* address on the day and has acted, for any number of processes, keys,
\* addresses, days and generations.
THEOREM VerifiedKeysAreSound == Spec => []VerifiedIsSound
<1>1. InvAnswers => VerifiedIsSound
  BY DEF InvAnswers, Sound, VerifiedIsSound, Live
<1> QED BY <1>1, AnswersInvariant, PTL

\* _walk_chain over CT finds descendants, and all of them within its bound.
THEOREM WalksFindDescendants == Spec => []WalkFindsDescendants
<1>1. IInv => WalkFindsDescendants
  BY CtIsFaithful, WalkIsSound, WalkReachesDescendants DEF IInv, WalkFindsDescendants
<1> QED BY <1>1, Invariance, PTL

-----------------------------------------------------------------------------
(* The walks: what they have asked CT for, and when.                       *)

\* Key k was asked for when CT had n entries: the evidence has all of the key's
\* certificates of that moment and none that is later, and by what CT held then
\* the key descends from one that held the address.
KnownAt(r, k, n) ==
    /\ {c \in r.loaded \cup r.got : c.key = k} = {c \in CtAsOf(n) : c.key = k}
    /\ \E g \in GenesisKeys(r.addr, r.day, r.got) :
          /\ g \in GenesisKeys(r.addr, r.day, CtAsOf(n))
          /\ Authority!Descends(g, k, SuccessorMap(CtAsOf(n)))

\* A walk has asked for the certificates of the address, and since the question
\* for those of every key visited; the genesis keys and the successors of the
\* keys visited are visited or to be visited, and nothing else is.
OnChain(r) ==
    /\ {c \in CtAsOf(r.asked) : c.addr = r.addr} \subseteq r.got
    /\ r.frontier \cap r.visited = {}
    /\ GenesisKeys(r.addr, r.day, r.got) \subseteq r.visited \cup r.frontier
    /\ \A k \in r.visited \cup r.frontier :
          \E g \in GenesisKeys(r.addr, r.day, r.got) : Descends(g, k)
    /\ \A k \in r.visited :
          EarliestSuccessor(k, r.loaded \cup r.got) \in {NoKey} \cup r.visited \cup r.frontier
    /\ \A k \in r.visited : \E n \in r.asked..logged : KnownAt(r, k, n)

\* A request is one that asked no later than now, and went to CT because the
\* cache did not have the genesis.
InWalk(r) ==
    /\ r.asked <= logged
    /\ GenesisKeys(r.addr, r.day, r.loaded) = {}
    /\ r.step = "address" => r.visited = {}
    /\ r.step = "chain" => OnChain(r)

InvWalks ==
    \A p \in Proc : InWalk(req[p]) /\ (req[p].step # "idle" => answer[p].source = "none")

\* The idle request is one.
LEMMA NoRequestWalks == ASSUME LogSound PROVE InWalk(NoRequest)
BY DEF InWalk, NoRequest, GenesisKeys, LogSound, LogTypeOK

\* A request in its walk, when CT stays as it is,
LEMMA WalkStill ==
    ASSUME UNCHANGED <<ct, logged>>, NEW r, InWalk(r)
    PROVE  InWalk(r)'
<1>1. \A n : CtAsOf(n)' = CtAsOf(n)
  BY DEF CtAsOf
<1>2. \A g, k : Descends(g, k)' <=> Descends(g, k)
  BY DEF Descends, Authority!Descends, Authority!Closed
<1>3. \A k, n : KnownAt(r, k, n)' <=> KnownAt(r, k, n)
  BY <1>1 DEF KnownAt, Authority!Descends, Authority!Closed
<1>4. OnChain(r) => OnChain(r)'
  BY <1>1, <1>2, <1>3 DEF OnChain
<1> QED BY <1>4 DEF InWalk

\* and when CT grows.
LEMMA WalkGrows ==
    ASSUME LogSound, NEW c \in Cert, Log(c), NEW r \in Request, InWalk(r),
           r.got \subseteq ct
    PROVE  InWalk(r)'
<1>1. logged \in Nat /\ logged' = logged + 1 /\ r.asked \in Nat
  BY DEF LogSound, LogTypeOK, Log, Request
<1>2. CASE r.step # "chain"
  BY <1>1, <1>2 DEF InWalk
<1>3. CASE r.step = "chain"
  <2>1. CtAsOf(r.asked)' = CtAsOf(r.asked)
    BY <1>1, PastStays DEF InWalk
  <2>2. \A k \in r.visited \cup r.frontier :
            \E g \in GenesisKeys(r.addr, r.day, r.got) : Descends(g, k)'
    <3>1. \A g \in GenesisKeys(r.addr, r.day, r.got) : g \in Key
      BY GenesisGrows DEF LogSound, LogTypeOK
    <3>2. r.visited \cup r.frontier \subseteq Key
      BY DEF Request
    <3> QED BY <1>3, <3>1, <3>2, DescentAfterLog DEF InWalk, OnChain
  <2>3. ASSUME NEW k \in r.visited
        PROVE  \E n \in r.asked..logged' : KnownAt(r, k, n)'
    <3>1. PICK n \in r.asked..logged : KnownAt(r, k, n)
      BY <1>3 DEF InWalk, OnChain
    <3>2. n \in Nat /\ n <= logged /\ n \in r.asked..logged'
      BY <1>1
    <3>3. CtAsOf(n)' = CtAsOf(n)
      BY <3>2, PastStays
    <3>4. KnownAt(r, k, n)'
      BY <3>1, <3>3 DEF KnownAt, Authority!Descends, Authority!Closed
    <3> QED BY <3>2, <3>4
  <2>4. OnChain(r)'
    <3>1. OnChain(r)
      BY <1>3 DEF InWalk
    <3> QED BY <2>1, <2>2, <2>3, <3>1 DEF OnChain
  <2> QED BY <1>1, <1>3, <2>4 DEF InWalk
<1> QED BY <1>2, <1>3

\* A step that gives process p request r.
LEMMA WalkStep ==
    ASSUME IInv, InvWalks, UNCHANGED <<ct, logged>>, NEW p \in Proc, NEW r,
           InWalk(r), req' = [req EXCEPT ![p] = r],
           \A q \in Proc \ {p} : answer'[q] = answer[q],
           r.step # "idle" => answer'[p].source = "none"
    PROVE  InvWalks'
<1>1. \A q \in Proc : req'[q] = IF q = p THEN r ELSE req[q]
  BY DEF IInv, InvTypes
<1>2. \A q \in Proc : req'[q].step # "idle" => answer'[q].source = "none"
  BY <1>1 DEF InvWalks
<1>3. ASSUME NEW q \in Proc
      PROVE  InWalk(req[q])'
  <2>1. \E s : s = req'[q] /\ InWalk(s)'
    BY <1>1, WalkStill DEF InvWalks
  <2> QED BY <2>1 DEF InWalk, OnChain, KnownAt
<1> QED BY <1>2, <1>3 DEF InvWalks

\* A verification begins, whether the cache answers it or not,
LEMMA BeginWalks ==
    ASSUME IInv, InvAnswers, InvWalks, NEW p \in Proc, NEW doc \in Document,
           NEW a \in Addr, NEW d \in 0..LastDay, Begin(p, doc, a, d)
    PROVE  InvWalks'
<1> DEFINE r == [NoRequest EXCEPT !.step = "address", !.doc = doc, !.addr = a,
                    !.day = d, !.asked = logged, !.loaded = cache[a]]
<1>1. UNCHANGED <<ct, logged>> /\ (\A q \in Proc \ {p} : answer'[q] = answer[q])
  BY DEF Begin, Tell, InvAnswers
<1>2. CASE req' = [req EXCEPT ![p] = NoRequest]
  <2>1. InWalk(NoRequest) /\ NoRequest.step = "idle"
    BY NoRequestWalks DEF IInv, NoRequest
  <2> QED BY <1>1, <1>2, <2>1, WalkStep
<1>3. CASE /\ GenesisKeys(a, d, cache[a]) = {}
           /\ req' = [req EXCEPT ![p] = r]
           /\ answer' = [answer EXCEPT ![p] = NoAnswer]
  <2>1. InWalk(r)
    BY <1>3 DEF InWalk, NoRequest, IInv, LogSound, LogTypeOK
  <2>2. answer'[p].source = "none"
    BY <1>3 DEF InvAnswers, NoAnswer
  <2> HIDE DEF r
  <2> QED BY <1>1, <1>3, <2>1, <2>2, WalkStep
<1> QED BY <1>2, <1>3 DEF Begin, Tell

\* asks for the certificates of the address,
LEMMA QueryAddressWalks ==
    ASSUME IInv, InvWalks, NEW p \in Proc, QueryAddress(p)
    PROVE  InvWalks'
<1> DEFINE certs == {c \in ct : c.addr = req[p].addr}
           genesis == GenesisKeys(req[p].addr, req[p].day, certs)
           r == [req[p] EXCEPT !.step = "chain", !.got = certs, !.frontier = genesis]
<1>1. /\ req' = [req EXCEPT ![p] = r] /\ UNCHANGED <<ct, logged, answer>>
      /\ req[p].step = "address"
  BY DEF QueryAddress
<1>2. req[p] \in Request /\ InWalk(req[p]) /\ req[p].visited = {}
  BY <1>1 DEF IInv, InvTypes, InvWalks, InWalk
<1>3. certs \subseteq Cert
  BY DEF IInv, LogSound, LogTypeOK
<1>4. \A k \in genesis : k \in Key /\ Descends(k, k)
  BY <1>3, GenesisGrows, OwnDescendant
<1>5. {c \in CtAsOf(req[p].asked) : c.addr = req[p].addr} \subseteq certs
  BY DEF CtAsOf
<1> HIDE DEF certs, genesis
<1>6. /\ r.step = "chain" /\ r.got = certs /\ r.frontier = genesis
      /\ r.visited = {} /\ r.asked = req[p].asked /\ r.loaded = req[p].loaded
      /\ r.addr = req[p].addr /\ r.day = req[p].day
  BY <1>2 DEF Request
<1> HIDE DEF r
<1>7. OnChain(r)
  BY <1>4, <1>5, <1>6 DEF OnChain, genesis
<1>8. InWalk(r)
  BY <1>2, <1>6, <1>7 DEF InWalk
<1>9. answer'[p].source = "none"
  BY <1>1 DEF InvWalks
<1> QED BY <1>1, <1>8, <1>9, WalkStep

\* asks for those of a key,
LEMMA QueryKeyWalks ==
    ASSUME IInv, InvWalks, NEW p \in Proc, NEW k \in Key, QueryKey(p, k)
    PROVE  InvWalks'
<1> DEFINE certs   == {c \in ct : c.key = k}
           visited == req[p].visited \cup {k}
           succ    == {EarliestSuccessor(k, certs)} \ ({NoKey} \cup visited)
           r == [req[p] EXCEPT !.got = @ \cup certs, !.visited = visited,
                               !.frontier = (@ \ {k}) \cup succ]
           had == req[p].loaded \cup req[p].got
           has == had \cup certs
<1>1. /\ req' = [req EXCEPT ![p] = r] /\ UNCHANGED <<ct, logged, answer>>
      /\ req[p].step = "chain" /\ k \in req[p].frontier
  BY DEF QueryKey
<1>2. req[p] \in Request /\ InWalk(req[p]) /\ OnChain(req[p]) /\ req[p].asked \in Nat
  BY <1>1 DEF IInv, InvTypes, InvWalks, InWalk, Request
<1>3. LogSound /\ req[p].loaded \subseteq ct /\ req[p].got \subseteq ct
  BY DEF IInv, InvFaithful, Faithful
<1>4. Faithful(certs)
  BY <1>3, KeyQueryIsFaithful
<1>5. /\ EarliestSuccessor(k, certs) = EarliestSuccessor(k, ct)
      /\ EarliestSuccessor(k, has) = EarliestSuccessor(k, ct)
  <2>1. /\ {c \in certs : c.key = k} = {c \in ct : c.key = k}
        /\ {c \in has : c.key = k} = {c \in ct : c.key = k}
    BY <1>3
  <2> HIDE DEF certs, has
  <2> QED BY <2>1, SameSuccessor
<1>6. \A j : j # k => {c \in has : c.key = j} = {c \in had : c.key = j}
  OBVIOUS
<1>7. {c \in has : c.key = k} = {c \in ct : c.key = k}
  BY <1>3
<1>8. /\ GenesisKeys(req[p].addr, req[p].day, req[p].got \cup certs) \subseteq
             GenesisKeys(req[p].addr, req[p].day, req[p].got) \cup {k}
      /\ GenesisKeys(req[p].addr, req[p].day, req[p].got) \subseteq
             GenesisKeys(req[p].addr, req[p].day, req[p].got \cup certs)
  BY DEF GenesisKeys
<1> HIDE DEF certs
<1>9. /\ r.step = "chain" /\ r.got = req[p].got \cup certs /\ r.visited = visited
      /\ r.frontier = (req[p].frontier \ {k}) \cup succ
      /\ r.asked = req[p].asked /\ r.loaded = req[p].loaded
      /\ r.addr = req[p].addr /\ r.day = req[p].day
      /\ r.loaded \cup r.got = has
  BY <1>1, <1>2 DEF Request
<1> HIDE DEF r, had, has
<1>10. r.frontier \cap r.visited = {}
  BY <1>2, <1>9 DEF OnChain
<1>11. GenesisKeys(r.addr, r.day, r.got) \subseteq r.visited \cup r.frontier
  BY <1>2, <1>8, <1>9 DEF OnChain
<1>12. ASSUME NEW j \in r.visited \cup r.frontier
       PROVE  \E g \in GenesisKeys(r.addr, r.day, r.got) : Descends(g, j)
  <2>1. CASE j \in req[p].visited \cup req[p].frontier
    BY <1>2, <1>8, <1>9, <2>1 DEF OnChain
  <2>2. CASE j \in succ
    <3>1. PICK g \in GenesisKeys(r.addr, r.day, r.got) : Descends(g, k)
      BY <1>1, <1>2, <1>8, <1>9 DEF OnChain
    <3>2. g \in Key
      <4>1. r.got \subseteq Cert
        BY <1>3, <1>9 DEF certs, LogSound, LogTypeOK
      <4> QED BY <4>1, GenesisGrows
    <3> QED BY <1>5, <2>2, <3>1, <3>2, DescentGoesOn
  <2> QED BY <1>1, <1>9, <2>1, <2>2
<1>13. ASSUME NEW j \in r.visited
       PROVE  EarliestSuccessor(j, r.loaded \cup r.got) \in {NoKey} \cup r.visited \cup r.frontier
  <2>1. CASE j = k
    BY <1>5, <1>9, <2>1
  <2>2. CASE j # k
    <3>1. EarliestSuccessor(j, has) = EarliestSuccessor(j, had)
      BY <1>6, <2>2, SameSuccessor
    <3>2. EarliestSuccessor(j, had) \in {NoKey} \cup req[p].visited \cup req[p].frontier
      BY <1>2, <1>9, <2>2 DEF OnChain, had
    <3> QED BY <1>9, <3>1, <3>2
  <2> QED BY <2>1, <2>2
<1>14. ASSUME NEW j \in r.visited
       PROVE  \E n \in r.asked..logged : KnownAt(r, j, n)
  <2>1. CASE j = k
    <3>1. CtAsOf(logged) = ct /\ logged \in r.asked..logged
      BY <1>2, <1>3, <1>9, PresentIsAll DEF InWalk, LogSound, LogTypeOK
    <3>2. PICK g \in GenesisKeys(req[p].addr, req[p].day, req[p].got) : Descends(g, k)
      BY <1>1, <1>2 DEF OnChain
    <3>3. g \in GenesisKeys(r.addr, r.day, r.got) /\ g \in GenesisKeys(r.addr, r.day, ct)
      BY <1>3, <1>8, <1>9, <3>2 DEF GenesisKeys
    <3>4. KnownAt(r, k, logged)
      BY <1>7, <1>9, <3>1, <3>2, <3>3 DEF KnownAt, Descends
    <3> QED BY <2>1, <3>1, <3>4
  <2>2. CASE j # k
    <3>1. j \in req[p].visited
      BY <1>9, <2>2
    <3>2. PICK n \in req[p].asked..logged : KnownAt(req[p], j, n)
      BY <1>2, <3>1 DEF OnChain
    <3>3. KnownAt(r, j, n)
      BY <1>6, <1>8, <1>9, <2>2, <3>2 DEF KnownAt, had
    <3> QED BY <1>9, <3>2, <3>3
  <2> QED BY <2>1, <2>2
<1>15. {c \in CtAsOf(r.asked) : c.addr = r.addr} \subseteq r.got
  BY <1>2, <1>9 DEF OnChain
<1>16. InWalk(r)
  <2>1. OnChain(r)
    BY <1>10, <1>11, <1>12, <1>13, <1>14, <1>15 DEF OnChain
  <2> QED BY <1>2, <1>9, <2>1 DEF InWalk
<1>17. answer'[p].source = "none"
  BY <1>1 DEF InvWalks
<1> QED BY <1>1, <1>16, <1>17, WalkStep

\* and ends, with an answer or without.
LEMMA EndWalks ==
    ASSUME IInv, InvAnswers, InvWalks, NEW p \in Proc, Finish(p) \/ QueryFails(p)
    PROVE  InvWalks'
<1>1. /\ UNCHANGED <<ct, logged>> /\ req' = [req EXCEPT ![p] = NoRequest]
      /\ \A q \in Proc \ {p} : answer'[q] = answer[q]
  BY DEF Finish, QueryFails, Tell, logVars, InvAnswers
<1>2. InWalk(NoRequest) /\ NoRequest.step = "idle"
  BY NoRequestWalks DEF IInv, NoRequest
<1> QED BY <1>1, <1>2, WalkStep

\* Every step preserves the invariant of the walks.
LEMMA WalksStep ==
    ASSUME IInv, InvAnswers, InvWalks, [Next]_vars
    PROVE  InvWalks'
<1>1. ASSUME NEW c \in Cert, Log(c), UNCHANGED <<req, answer>>
      PROVE  InvWalks'
  <2>1. ASSUME NEW p \in Proc
        PROVE  InWalk(req[p])'
    <3>1. req[p] \in Request /\ req[p].got \subseteq ct /\ InWalk(req[p])
      BY DEF IInv, InvTypes, InvFaithful, Faithful, InvWalks
    <3>2. \E r : r = req[p] /\ InWalk(r)'
      BY <1>1, <3>1, WalkGrows DEF IInv
    <3> QED BY <1>1, <3>2 DEF InWalk, OnChain, KnownAt
  <2> QED BY <1>1, <2>1 DEF InvWalks
<1>2. CASE UNCHANGED <<ct, logged, req, answer>>
  <2>1. ASSUME NEW p \in Proc
        PROVE  InWalk(req[p])'
    <3>1. \E r : r = req[p] /\ InWalk(r)'
      BY <1>2, WalkStill DEF InvWalks
    <3> QED BY <1>2, <3>1 DEF InWalk, OnChain, KnownAt
  <2> QED BY <1>2, <2>1 DEF InvWalks
<1>3. ASSUME NEW k \in Key, NEW a \in Addr, LogAddress(k, a)
      PROVE  InvWalks'
  <2>1. today \in Nat /\ today + Window \in Nat
    BY VerifierAssumption DEF IInv, LogSound, LogTypeOK
  <2> QED BY <1>1, <1>3, <2>1, IpCertType DEF LogAddress
<1>4. ASSUME NEW k \in Key, NEW s \in Key, LogCommitment(k, s)
      PROVE  InvWalks'
  BY <1>1, <1>4, CommitmentCertType DEF LogCommitment
<1>5. CASE Midnight \/ (\E a \in Addr : CacheLost(a)) \/ UNCHANGED vars
  BY <1>2, <1>5 DEF Midnight, NewDay, CacheLost, vars
<1>6. ASSUME NEW p \in Proc, Walk(p) \/ QueryFails(p)
      PROVE  InvWalks'
  BY <1>6, QueryAddressWalks, QueryKeyWalks, EndWalks DEF Walk
<1> QED BY <1>3, <1>4, <1>5, <1>6, BeginWalks DEF Next

\* The invariant of the walks holds of every behaviour.
LEMMA WalksInvariant == Spec => []InvWalks
<1>1. Init => InvWalks
  BY InvInit, NoRequestWalks DEF Init, InvWalks, NoRequest, IInv
<1>2. IInv /\ InvAnswers /\ InvWalks /\ [Next]_vars => InvWalks'
  BY WalksStep
<1> QED BY <1>1, <1>2, Invariance, AnswersInvariant, PTL DEF Spec

-----------------------------------------------------------------------------
(* What a walk has found when it ends.                                     *)

\* When the walk's bound sees all descendants of the genesis keys, a walk ends
\* because no key is left to visit.
LEMMA EndsComplete ==
    ASSUME IInv, InvWalks, NEW p \in Proc, Finish(p),
           WithinBound(req[p].addr, req[p].day)
    PROVE  /\ req[p].frontier = {}
           /\ IsFiniteSet(req[p].visited)
           /\ Cardinality(req[p].visited) <= MaxGenerations
<1>1. /\ OnChain(req[p]) /\ req[p] \in Request
      /\ LogSound /\ req[p].got \subseteq ct /\ ct \subseteq Cert
  BY DEF Finish, InvWalks, InWalk, IInv, InvTypes, InvFaithful, Faithful, LogSound, LogTypeOK
<1>2. req[p].frontier = {} \/ Cardinality(req[p].visited) >= MaxGenerations
  BY DEF Finish
<1>3. GenesisKeys(req[p].addr, req[p].day, req[p].got)
          \subseteq GenesisKeys(req[p].addr, req[p].day, ct)
  BY <1>1, GenesisGrows
<1>4. \A k \in req[p].visited \cup req[p].frontier :
          k \in Key /\ \E g \in GenesisKeys(req[p].addr, req[p].day, ct) : Descends(g, k)
  BY <1>1, <1>3 DEF OnChain, Request
<1>5. req[p].frontier \cap req[p].visited = {}
  BY <1>1 DEF OnChain
<1> QED BY <1>1, <1>2, <1>4, <1>5, BoundSuffices DEF WithinBound

\* The successors of the keys visited have then all been visited.
LEMMA VisitedIsClosed ==
    ASSUME IInv, InvWalks, NEW p \in Proc, Finish(p), req[p].frontier = {}
    PROVE  /\ req[p] \in Request
           /\ LogSound /\ Faithful(req[p].loaded \cup req[p].got)
           /\ GenesisKeys(req[p].addr, req[p].day, req[p].loaded \cup req[p].got)
                  \subseteq req[p].visited
           /\ GenesisKeys(req[p].addr, req[p].day, req[p].loaded \cup req[p].got)
                  = GenesisKeys(req[p].addr, req[p].day, req[p].got)
           /\ GenesisKeys(req[p].addr, req[p].day, CtAsOf(req[p].asked))
                  \subseteq GenesisKeys(req[p].addr, req[p].day, req[p].got)
           /\ \A k \in req[p].visited :
                  /\ EarliestSuccessor(k, req[p].loaded \cup req[p].got)
                         \in {NoKey} \cup req[p].visited
                  /\ \E n \in req[p].asked..logged : KnownAt(req[p], k, n)
<1>1. /\ OnChain(req[p]) /\ GenesisKeys(req[p].addr, req[p].day, req[p].loaded) = {}
      /\ req[p] \in Request
  BY DEF Finish, InvWalks, InWalk, IInv, InvTypes
<1>2. LogSound /\ Faithful(req[p].loaded \cup req[p].got)
  BY MergeIsFaithful DEF IInv, InvFaithful
<1>3. GenesisKeys(req[p].addr, req[p].day, req[p].loaded \cup req[p].got)
          = GenesisKeys(req[p].addr, req[p].day, req[p].got)
  BY <1>1 DEF GenesisKeys
<1>4. GenesisKeys(req[p].addr, req[p].day, CtAsOf(req[p].asked))
          \subseteq GenesisKeys(req[p].addr, req[p].day, req[p].got)
  BY <1>1 DEF OnChain, GenesisKeys, IsGenesis
<1> QED BY <1>1, <1>2, <1>3, <1>4 DEF OnChain

\* The chain that verified a document when the question was asked is in the
\* evidence when the answer is given.
LEMMA WalkFindsDocument ==
    ASSUME IInv, InvWalks, NEW p \in Proc, Finish(p), req[p].frontier = {},
           NEW doc \in Key,
           Verify(doc, req[p].addr, req[p].day, CtAsOf(req[p].asked)).verified
    PROVE  Verify(doc, req[p].addr, req[p].day, req[p].loaded \cup req[p].got).verified
<1> DEFINE A == CtAsOf(req[p].asked)
           B == req[p].loaded \cup req[p].got
           a == req[p].addr
           d == req[p].day
           visited == req[p].visited
<1>1. req[p].asked \in Nat /\ LogSound /\ Faithful(B) /\ visited \subseteq Key
  BY VisitedIsClosed DEF Request
<1>2. Faithful(A)
  BY <1>1, PastIsFaithful
<1>3. /\ GenesisKeys(a, d, A) \subseteq GenesisKeys(a, d, B)
      /\ GenesisKeys(a, d, B) \subseteq visited
  BY VisitedIsClosed
<1>4. ASSUME NEW k \in visited
      PROVE  {c \in A : c.key = k} \subseteq B
  <2>1. PICK n \in req[p].asked..logged : KnownAt(req[p], k, n)
    BY VisitedIsClosed
  <2>2. \A c \in ct : c.at \in Nat
    BY <1>1 DEF LogSound, LogTypeOK, Cert
  <2>3. \A c \in A : c \in CtAsOf(n)
    BY <1>1, <2>2 DEF CtAsOf
  <2> QED BY <2>1, <2>3 DEF KnownAt
<1>5. \A k \in visited : EarliestSuccessor(k, B) \in {NoKey} \cup visited
  BY VisitedIsClosed
<1>6. Verify(doc, a, d, A).verified
  OBVIOUS
<1>7. Verify(doc, a, d, B).verified
  <2> HIDE DEF A, B, a, d, visited
  <2> QED BY <1>1, <1>2, <1>3, <1>4, <1>5, <1>6, CollectedVerifies
<1> QED BY <1>7

\* A step in which a walk's question is answered ends the walk.
LEMMA AnswersFinish ==
    ASSUME IInv, InvAnswers, InvWalks, [Next]_vars, NEW p \in Proc, Answers(p, req[p])
    PROVE  /\ Finish(p)
           /\ answer'[p].verdict = Verify(req[p].doc, req[p].addr, req[p].day,
                                          req[p].loaded \cup req[p].got)
<1>1. req[p].step = "chain" /\ answer'[p].source = "ct" /\ answer[p].source = "none"
  BY DEF Answers, InvWalks
<1>2. answer' # answer
  BY <1>1
<1>3. ASSUME NEW q \in Proc, NEW doc \in Document, NEW a \in Addr, NEW d \in 0..LastDay,
             Begin(q, doc, a, d)
      PROVE  FALSE
  <2>1. req[q].step = "idle" /\ (\A o \in Proc \ {q} : answer'[o] = answer[o])
    BY <1>3 DEF Begin, Tell, InvAnswers
  <2> QED BY <1>1, <2>1
<1>4. PICK q \in Proc : Finish(q)
  BY <1>2, <1>3
  DEF Next, Walk, QueryAddress, QueryKey, QueryFails, CacheLost, LogAddress,
      LogCommitment, Midnight, vars
<1>5. \A o \in Proc \ {q} : answer'[o] = answer[o]
  BY <1>4 DEF Finish, Tell, InvAnswers
<1>6. q = p
  BY <1>1, <1>5
<1> QED BY <1>4, <1>6 DEF Finish, Tell, InvAnswers

\* A document that CT already verified when the question was asked is VERIFIED by
\* a walk through CT, however CT grew while it ran.
THEOREM WalksAreComplete == Spec => WalkIsComplete
<1>1. IInv /\ InvAnswers /\ InvWalks /\ [Next]_vars =>
          [\A p \in Proc : LET r == req[p] IN
              /\ Answers(p, r) /\ r.doc # NoKey /\ WithinBound(r.addr, r.day)
              /\ Verify(r.doc, r.addr, r.day, CtAsOf(r.asked)).verified
              => answer'[p].verdict.verified]_vars
  <2> SUFFICES ASSUME IInv, InvAnswers, InvWalks, [Next]_vars, NEW p \in Proc,
                      Answers(p, req[p]), req[p].doc # NoKey,
                      WithinBound(req[p].addr, req[p].day),
                      Verify(req[p].doc, req[p].addr, req[p].day,
                             CtAsOf(req[p].asked)).verified
               PROVE  answer'[p].verdict.verified
    OBVIOUS
  <2>1. /\ Finish(p)
        /\ answer'[p].verdict = Verify(req[p].doc, req[p].addr, req[p].day,
                                       req[p].loaded \cup req[p].got)
    BY AnswersFinish
  <2>2. req[p].frontier = {}
    BY <2>1, EndsComplete
  <2>3. req[p].doc \in Key
    BY DEF IInv, InvTypes, Request
  <2> QED BY <2>1, <2>2, <2>3, WalkFindsDocument
<1> QED BY <1>1, Invariance, AnswersInvariant, WalksInvariant, PTL DEF Spec, WalkIsComplete

\* The chain to the tip, as the evidence has it when the walk ends, is the chain
\* that CT had when the tip was asked for, up to the tip's own successor.
LEMMA TipWasTip ==
    ASSUME IInv, InvWalks, NEW p \in Proc, Finish(p),
           WithinBound(req[p].addr, req[p].day),
           NEW g, GenesisKeys(req[p].addr, req[p].day, req[p].loaded \cup req[p].got) = {g}
    PROVE  \E n \in req[p].asked..logged :
              /\ g \in GenesisKeys(req[p].addr, req[p].day, CtAsOf(n))
              /\ CurrentKey(g, req[p].loaded \cup req[p].got) = CurrentKey(g, CtAsOf(n))
<1> DEFINE B == req[p].loaded \cup req[p].got
           a == req[p].addr
           d == req[p].day
           visited == req[p].visited
           chain == Hops(g, NoKey, B)[MaxGenerations]
<1>1. req[p].frontier = {} /\ IsFiniteSet(visited) /\ Cardinality(visited) <= MaxGenerations
  BY EndsComplete
<1>2. /\ LogSound /\ Faithful(B) /\ visited \subseteq Key /\ g \in visited
      /\ req[p].asked \in Nat /\ GenesisKeys(a, d, req[p].got) = {g}
  BY <1>1, VisitedIsClosed DEF Request
<1>3. MaxGenerations \in 0..MaxGenerations /\ MaxGenerations \in Nat
  BY GenerationsAssumption
<1>4. IsWalk(chain, MaxGenerations, g, NoKey, B)
  BY <1>2, <1>3, FaithfulNamesKeys, WalkIsWalk
<1>5. WalkChain(g, NoKey, B) = chain
  BY DEF WalkChain
<1> HIDE DEF chain
<1>6. /\ IsPath(chain, B) /\ chain[1] = g
      /\ chain \in Seq(Key) /\ Len(chain) \in Nat /\ Len(chain) > 0
      /\ \A i, j \in 1..Len(chain) : chain[i] = chain[j] => i = j
  <2>1. IsPath(chain, B) /\ chain[1] = g
    BY <1>4 DEF IsWalk
  <2> HIDE DEF B
  <2>2. chain \in Seq(Key) /\ Len(chain) > 0
    BY <2>1 DEF IsPath
  <2>3. \A i, j \in 1..Len(chain) : chain[i] = chain[j] => i = j
    BY <2>1 DEF IsPath
  <2> QED BY <2>1, <2>2, <2>3
<1>7. \A i \in 1..Len(chain) : chain[i] \in visited
  BY <1>1, <1>2, <1>6, VisitedIsClosed, PathStays
<1>8. Len(chain) <= MaxGenerations
  <2>1. chain \in Injection(1..Len(chain), visited)
    <3>1. chain \in [1..Len(chain) -> visited]
      BY <1>6, <1>7
    <3> QED BY <1>6, <3>1 DEF Injection, IsInjective
  <2>2. IsFiniteSet(1..Len(chain)) /\ Cardinality(1..Len(chain)) = Len(chain)
    <3>1. 1 \in Int /\ Len(chain) \in Int /\ ~(1 > Len(chain))
      BY <1>6
    <3>2. IsFiniteSet(1..Len(chain)) /\ Cardinality(1..Len(chain)) = Len(chain) - 1 + 1
      BY <3>1, FS_Interval
    <3> QED BY <1>6, <3>2
  <2>3. Cardinality(visited) \in Nat
    BY <1>1, FS_CardinalityType
  <2>4. Cardinality(1..Len(chain)) <= Cardinality(visited)
    BY <1>1, <2>1, <2>2, FS_Injection
  <2> QED BY <1>1, <1>3, <1>6, <2>2, <2>3, <2>4
<1>9. Hop(chain, NoKey, B) = chain
  BY <1>3, <1>4, <1>6, <1>8 DEF IsWalk
<1>10. LastOf(chain) \in visited /\ LastOf(chain) \in Key
  BY <1>2, <1>6, <1>7 DEF LastOf
<1>11. PICK n \in req[p].asked..logged : KnownAt(req[p], LastOf(chain), n)
  BY <1>1, <1>10, VisitedIsClosed
<1> DEFINE A == CtAsOf(n)
<1>12. n \in Nat /\ Faithful(A)
  BY <1>2, PastIsFaithful DEF LogSound, LogTypeOK
<1>13. g \in GenesisKeys(a, d, A) /\ Authority!Descends(g, LastOf(chain), SuccessorMap(A))
  BY <1>2, <1>11 DEF KnownAt
<1>14. /\ EarliestSuccessor(LastOf(chain), A) = EarliestSuccessor(LastOf(chain), B)
       /\ Activated(LastOf(chain), B) <=> Activated(LastOf(chain), A)
  BY <1>11, SameSuccessor DEF KnownAt
<1> HIDE DEF A, B
<1>15. IsPath(chain, A)
  BY <1>2, <1>6, <1>12, <1>13, PathIsKnown
<1>16. IsWalk(chain, MaxGenerations, g, NoKey, A)
  <2>1. Hop(chain, NoKey, A) = chain
    BY <1>9, <1>14 DEF Hop
  <2> QED BY <1>4, <1>15, <2>1 DEF IsWalk
<1>17. WalkChain(g, NoKey, A) = chain
  <2>1. Hops(g, NoKey, A)[MaxGenerations] = chain
    BY <1>2, <1>16, PathIsWalked
  <2> QED BY <2>1 DEF WalkChain
<1>18. CurrentKey(g, B) = CurrentKey(g, A)
  BY <1>5, <1>6, <1>14, <1>15, <1>17, SameKeyInControl
<1> QED BY <1>11, <1>13, <1>18 DEF A, B

\* The key a walk reports for an RUUID without a document was in control in CT at
\* some moment between the question and the answer.
THEOREM ReportedKeysWereCurrent == Spec => ReportedKeyWasCurrent
<1>1. IInv /\ InvAnswers /\ InvWalks /\ [Next]_vars =>
          [\A p \in Proc : LET r == req[p] IN
              /\ Answers(p, r) /\ answer'[p].verdict.reason = "current"
              /\ WithinBound(r.addr, r.day)
              => \E n \in r.asked..logged :
                    \E g \in GenesisKeys(r.addr, r.day, CtAsOf(n)) :
                        answer'[p].verdict.key = CurrentKey(g, CtAsOf(n))]_vars
  <2> SUFFICES ASSUME IInv, InvAnswers, InvWalks, [Next]_vars, NEW p \in Proc,
                      Answers(p, req[p]), answer'[p].verdict.reason = "current",
                      WithinBound(req[p].addr, req[p].day)
               PROVE  \E n \in req[p].asked..logged :
                         \E g \in GenesisKeys(req[p].addr, req[p].day, CtAsOf(n)) :
                             answer'[p].verdict.key = CurrentKey(g, CtAsOf(n))
    OBVIOUS
  <2> DEFINE B == req[p].loaded \cup req[p].got
  <2>1. /\ Finish(p)
        /\ answer'[p].verdict = Verify(req[p].doc, req[p].addr, req[p].day, B)
    BY AnswersFinish
  <2>2. LogSound /\ B \subseteq ct
    BY DEF IInv, InvFaithful, Faithful
  <2>3. PICK g : /\ GenesisKeys(req[p].addr, req[p].day, B) = {g}
                 /\ answer'[p].verdict.key = CurrentKey(g, B)
    BY <2>1, <2>2, CurrentHasOneGenesis
  <2>4. \E n \in req[p].asked..logged :
           /\ g \in GenesisKeys(req[p].addr, req[p].day, CtAsOf(n))
           /\ CurrentKey(g, B) = CurrentKey(g, CtAsOf(n))
    BY <2>1, <2>3, TipWasTip
  <2> QED BY <2>3, <2>4
<1> QED BY <1>1, Invariance, AnswersInvariant, WalksInvariant, PTL DEF Spec, ReportedKeyWasCurrent

=============================================================================
