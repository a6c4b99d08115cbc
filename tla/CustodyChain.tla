---------------------------- MODULE CustodyChain ----------------------------
(***************************************************************************)
(* The custody chain of src/ruuid/verify.py as pure operators: which       *)
(* certificates establish the genesis of an RUUID, which key each key      *)
(* commits to, how the chain of commitments is walked, and the verdict of  *)
(* `verify` on a body of evidence.                                         *)
(*                                                                         *)
(* A certificate keeps what the verdict reads of a CtCert.  `at` is its    *)
(* position in Certificate Transparency and stands for ordering_ms(); a    *)
(* certificate issued by seal or rotate either carries an address (the IP  *)
(* certificate) or pins a successor (the commitment certificate).  A       *)
(* domain certificate adds neither and is left out.                        *)
(***************************************************************************)
EXTENDS Integers, FiniteSets, Sequences, Functions

CONSTANTS
    Key,            \* keys, by their SPKI hash
    NoKey,          \* no key: no document, no successor
    Addr,           \* addresses an RUUID can be anchored to
    NoAddr,         \* the address of a certificate that carries none
    MaxGenerations  \* _MAX_GENERATIONS

ASSUME KeyAssumption == NoKey \notin Key
ASSUME AddrAssumption == NoAddr \notin Addr /\ Addr # {}
ASSUME GenerationsAssumption == MaxGenerations \in Nat \ {0}

Cert == [at: Nat, key: Key, addr: Addr \cup {NoAddr}, from: Nat, to: Nat,
         succ: Key \cup {NoKey}]

\* An IP-SAN certificate of key k for address a, valid from day d to day e.
IpCert(k, a, d, e) ==
    [at |-> 0, key |-> k, addr |-> a, from |-> d, to |-> e, succ |-> NoKey]

\* A certificate under key k whose dNSName encodes the SPKI of s.
\* Its window plays no part in any verdict.
CommitmentCert(k, s) ==
    [at |-> 0, key |-> k, addr |-> NoAddr, from |-> 0, to |-> 0, succ |-> s]

-----------------------------------------------------------------------------
(* Genesis, commitment and activation.                                     *)

IsGenesis(c, a, d) == c.addr = a /\ c.from <= d /\ d <= c.to

GenesisKeys(a, d, certs) == {c.key : c \in {x \in certs : IsGenesis(x, a, d)}}

Commitments(k, certs) == {c \in certs : c.key = k /\ c.succ # NoKey}

\* A plausible slip: commits.sort(reverse=True), or commits[-1].
LatestSuccessor(k, certs) ==
    LET commits == Commitments(k, certs)
    IN  IF commits = {} THEN NoKey
        ELSE (CHOOSE c \in commits : \A x \in commits : x.at <= c.at).succ

EarliestSuccessor(k, certs) ==
    LET commits == Commitments(k, certs)
    IN  IF commits = {} THEN NoKey
        ELSE (CHOOSE c \in commits : \A x \in commits : c.at <= x.at).succ

Activated(k, certs) == \E c \in certs : c.key = k

-----------------------------------------------------------------------------
(* The walk.                                                               *)

LastOf(chain) == chain[Len(chain)]

\* A plausible slip: the walk looks at its target only when it has ended.
HopPastTarget(chain, target, certs) ==
    LET succ == EarliestSuccessor(LastOf(chain), certs)
    IN  IF succ \in {NoKey} \cup Range(chain) THEN chain ELSE Append(chain, succ)

\* One hop: stay at the target, at a key that commits to nothing, and at a
\* key whose successor the chain has already seen.
Hop(chain, target, certs) ==
    LET succ == EarliestSuccessor(LastOf(chain), certs)
    IN  IF LastOf(chain) = target \/ succ \in {NoKey} \cup Range(chain)
        THEN chain
        ELSE Append(chain, succ)

\* The chain after each number of hops from start.
Hops(start, target, certs) ==
    LET walk[n \in 0..MaxGenerations] ==
            IF n = 0 THEN <<start>> ELSE Hop(walk[n - 1], target, certs)
    IN  walk

\* _walk_chain: at most MaxGenerations hops from start.  The empty sequence is
\* None: a target that the walk does not reach.  Target NoKey walks to the tip.
WalkChain(start, target, certs) ==
    LET chain == Hops(start, target, certs)[MaxGenerations]
    IN  IF target \in {NoKey, LastOf(chain)} THEN chain ELSE <<>>

\* A plausible slip: the tip is reported before it has acted in CT.
UntrimmedKey(start, certs) == LastOf(WalkChain(start, NoKey, certs))

\* The last key of the walk that has acted in CT, or the genesis key.
CurrentKey(start, certs) ==
    LET chain == WalkChain(start, NoKey, certs)
        live  == {1} \cup {n \in DOMAIN chain : Activated(chain[n], certs)}
    IN  chain[CHOOSE n \in live : \A m \in live : m <= n]

-----------------------------------------------------------------------------
(* The verdict.                                                            *)

Reason == {"no genesis", "genesis", "rotated", "cold", "unendorsed",
           "current", "ambiguous"}

Verdict == [verified: BOOLEAN, reason: Reason, key: Key \cup {NoKey}]

Accept(reason, k) == [verified |-> TRUE, reason |-> reason, key |-> k]
Reject(reason) == [verified |-> FALSE, reason |-> reason, key |-> NoKey]

\* A plausible slip: a pinned successor is accepted before it has acted in CT.
VerifyDocumentCold(doc, a, d, certs) ==
    LET genesis == GenesisKeys(a, d, certs)
        endorsed == \E g \in genesis : WalkChain(g, doc, certs) # <<>>
    IN  IF genesis = {} THEN Reject("no genesis")
        ELSE IF doc \in genesis THEN Accept("genesis", doc)
        ELSE IF ~endorsed THEN Reject("unendorsed")
        ELSE Accept("rotated", doc)

\* A document that commits key doc, for an RUUID of address a and day d.
VerifyDocument(doc, a, d, certs) ==
    LET genesis == GenesisKeys(a, d, certs)
        endorsed == \E g \in genesis : WalkChain(g, doc, certs) # <<>>
    IN  IF genesis = {} THEN Reject("no genesis")
        ELSE IF doc \in genesis THEN Accept("genesis", doc)
        ELSE IF ~endorsed THEN Reject("unendorsed")
        ELSE IF ~Activated(doc, certs) THEN Reject("cold")
        ELSE Accept("rotated", doc)

\* No document: the key in control now, when one key held the address.
VerifyAddress(a, d, certs) ==
    LET genesis == GenesisKeys(a, d, certs)
    IN  IF genesis = {} THEN Reject("no genesis")
        ELSE IF Cardinality(genesis) > 1 THEN Reject("ambiguous")
        ELSE Accept("current", CurrentKey(CHOOSE g \in genesis : TRUE, certs))

Verify(doc, a, d, certs) ==
    IF doc = NoKey THEN VerifyAddress(a, d, certs)
    ELSE VerifyDocument(doc, a, d, certs)

-----------------------------------------------------------------------------
(* The reference meaning of a chain, free of the walk and of its bound.    *)

SuccessorMap(certs) == [k \in Key |-> EarliestSuccessor(k, certs)]

=============================================================================
