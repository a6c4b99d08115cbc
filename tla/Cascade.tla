------------------------------- MODULE Cascade -------------------------------
(***************************************************************************)
(* Verification against custody bundles: CascadingSource and               *)
(* LocalBundleSource of src/ruuid/verify.py as the source of the walk that *)
(* verify_ruuid makes.                                                     *)
(*                                                                         *)
(* A source pools the certificates of the bundle files in its directory.   *)
(* An address that is not pooled sends the cascade to the issuer's         *)
(* published bundle, once, and then to crt.sh; a key that is not pooled    *)
(* goes to crt.sh unless the address was answered from the pool.           *)
(*                                                                         *)
(* A bundle holds any part of CT: it may be old, made of the files on an   *)
(* issuer's disk, or one that someone has taken certificates out of.       *)
(* Certificates that were never in CT are left to the SCT gate; one that   *)
(* it drops is one that the bundle lacks.  Files are put into the          *)
(* directory by hand and by _save, removed, and torn by crashes: it is not *)
(* kept as state, since it may hold any bundle when a source is built.     *)
(***************************************************************************)
EXTENDS CtLog

CONSTANTS
    Proc,     \* processes that verify
    V6,       \* addresses that certificates spell in another way than RUUIDs
    Document, \* the keys that documents commit
    Window,   \* days an IP certificate is valid for after its first
    LastDay,  \* bound: the last day
    MaxLog    \* bound: entries in CT

ASSUME CascadeAssumption ==
    /\ Document \subseteq Key /\ V6 \subseteq Addr
    /\ Window \in Nat /\ LastDay \in Nat /\ MaxLog \in Nat

VARIABLES
    source, \* the source each process has built
    req,    \* the verification each process is running
    answer  \* the answer each process gave to its last question

vars == <<ct, logged, today, source, req, answer>>

Source == [kind: {"none", "local", "cascade"}, pool: SUBSET Cert,
           tried: SUBSET Addr, authoritative: BOOLEAN]

NoSource == [kind |-> "none", pool |-> {}, tried |-> {}, authoritative |-> FALSE]

\* asked is the length of CT when the verification began.
Request == [step: {"idle", "address", "chain"}, doc: Key \cup {NoKey},
            addr: Addr, day: Nat, asked: Nat, got: SUBSET Cert,
            visited: SUBSET Key, frontier: SUBSET Key]

AnyAddr == CHOOSE a \in Addr : TRUE

NoRequest == [step |-> "idle", doc |-> NoKey, addr |-> AnyAddr, day |-> 0,
              asked |-> 0, got |-> {}, visited |-> {}, frontier |-> {}]

Answer == [doc: Key \cup {NoKey}, addr: Addr, day: Nat, verdict: Verdict]

NoAnswer == [doc |-> NoKey, addr |-> AnyAddr, day |-> 0,
             verdict |-> Reject("no genesis")]

TypeOK ==
    /\ LogTypeOK
    /\ source \in [Proc -> Source]
    /\ req \in [Proc -> Request]
    /\ answer \in [Proc -> Answer]

Init ==
    /\ LogInit
    /\ source = [p \in Proc |-> NoSource]
    /\ req = [p \in Proc |-> NoRequest]
    /\ answer = [p \in Proc |-> NoAnswer]

-----------------------------------------------------------------------------
(* The layers.                                                             *)

OfAddress(a, certs) == {c \in certs : c.addr = a}

OfKey(k, certs) == {c \in certs : c.key = k}

\* What an issuer may serve and a directory may hold: build_published_custody
\* takes the certificates that are on the issuer's disk, gather_custody_for_ip
\* those that CT had at the moments it asked, up to a bound.
Bundle == SUBSET ct

\* A process builds its source: the certificates of every bundle file in the
\* directory are pooled.
Start(p, kind, certs) ==
    /\ req[p].step = "idle"
    /\ source' = [source EXCEPT ![p] = [NoSource EXCEPT !.kind = kind, !.pool = certs]]
    /\ answer' = [answer EXCEPT ![p] = NoAnswer]
    /\ UNCHANGED <<ct, logged, today, req>>

\* verify_ruuid with a source and no cache.
Ask(p, doc, a, d) ==
    /\ source[p].kind # "none"
    /\ req[p].step = "idle"
    /\ req' = [req EXCEPT ![p] =
          [NoRequest EXCEPT !.step = "address", !.doc = doc, !.addr = a,
                            !.day = d, !.asked = logged]]
    /\ answer' = [answer EXCEPT ![p] = NoAnswer]
    /\ UNCHANGED <<ct, logged, today, source>>

\* The walk has the certificates of its address.
Root(p, certs) ==
    req' = [req EXCEPT ![p] =
        [@ EXCEPT !.step = "chain", !.got = certs,
                  !.frontier = GenesisKeys(req[p].addr, req[p].day, certs)]]

\* A pool compares the text of addresses, and openssl writes all the groups of
\* an IPv6 address out, in upper case.
Pooled(p) ==
    IF req[p].addr \in V6 THEN {} ELSE OfAddress(req[p].addr, source[p].pool)

\* certs_for_ip, from the pool.  Offline there is nothing else.
AddressFromPool(p) ==
    /\ req[p].step = "address"
    /\ Pooled(p) # {} \/ source[p].kind = "local"
    /\ Root(p, Pooled(p))
    /\ source' = [source EXCEPT ![p].authoritative = TRUE]
    /\ UNCHANGED <<ct, logged, today, answer>>

\* The address is new to the source: it is about to be looked up.
Misses(p) ==
    /\ req[p].step = "address"
    /\ source[p].kind = "cascade"
    /\ Pooled(p) = {}
    /\ req[p].addr \notin source[p].tried

\* A plausible slip: the fetched bundle replaces the pool.
FetchIssuerReplaces(p, certs) ==
    /\ Misses(p)
    /\ certs # {}
    /\ source' = [source EXCEPT ![p] =
          [source[p] EXCEPT !.pool = certs, !.tried = @ \cup {req[p].addr}]]
    /\ UNCHANGED <<ct, logged, today, req, answer>>

\* _fetch_issuer: the bundle of the first domain of the address that serves
\* anything is pooled.
FetchIssuer(p, certs) ==
    /\ Misses(p)
    /\ certs # {}
    /\ source' = [source EXCEPT ![p] =
          [source[p] EXCEPT !.pool = @ \cup certs, !.tried = @ \cup {req[p].addr}]]
    /\ UNCHANGED <<ct, logged, today, req, answer>>

\* No PTR, no answer, or nothing usable from any domain.
FetchNothing(p) ==
    /\ Misses(p)
    /\ source' = [source EXCEPT ![p].tried = @ \cup {req[p].addr}]
    /\ UNCHANGED <<ct, logged, today, req, answer>>

\* The address was looked up and is not pooled.
FallsThrough(p) ==
    /\ req[p].step = "address"
    /\ source[p].kind = "cascade"
    /\ Pooled(p) = {}
    /\ req[p].addr \in source[p].tried

\* A plausible slip: the flag of an earlier question is left as it was.
AddressFromCrtShUnreset(p) ==
    /\ FallsThrough(p)
    /\ Root(p, OfAddress(req[p].addr, ct))
    /\ UNCHANGED <<ct, logged, today, source, answer>>

\* certs_for_ip, from crt.sh, whose certificates are not pooled.
AddressFromCrtSh(p) ==
    /\ FallsThrough(p)
    /\ Root(p, OfAddress(req[p].addr, ct))
    /\ source' = [source EXCEPT ![p].authoritative = FALSE]
    /\ UNCHANGED <<ct, logged, today, answer>>

\* A plausible slip: a key without a successor is not told apart.
VisitUnchecked(p, k, certs) ==
    /\ req[p].step = "chain"
    /\ k \in req[p].frontier
    /\ Cardinality(req[p].visited) < MaxGenerations
    /\ LET visited == req[p].visited \cup {k}
           succ    == {EarliestSuccessor(k, certs)} \ visited
       IN  req' = [req EXCEPT ![p] =
                      [req[p] EXCEPT !.got = @ \cup certs, !.visited = visited,
                                     !.frontier = (@ \ {k}) \cup succ]]
    /\ UNCHANGED <<ct, logged, today, source, answer>>

\* One turn of the walk's loop: key k has these certificates.
Visit(p, k, certs) ==
    /\ req[p].step = "chain"
    /\ k \in req[p].frontier
    /\ Cardinality(req[p].visited) < MaxGenerations
    /\ LET visited == req[p].visited \cup {k}
           succ    == {EarliestSuccessor(k, certs)} \ ({NoKey} \cup visited)
       IN  req' = [req EXCEPT ![p] =
                      [req[p] EXCEPT !.got = @ \cup certs, !.visited = visited,
                                     !.frontier = (@ \ {k}) \cup succ]]
    /\ UNCHANGED <<ct, logged, today, source, answer>>

\* certs_for_spki: from the pool when it has any, or must have all there are.
KeyFromPool(p, k) ==
    /\ OfKey(k, source[p].pool) # {} \/ source[p].authoritative
    /\ Visit(p, k, OfKey(k, source[p].pool))

KeyFromCrtSh(p, k) ==
    /\ OfKey(k, source[p].pool) = {}
    /\ ~source[p].authoritative
    /\ Visit(p, k, OfKey(k, ct))

\* The walk is over: verify() on what it found.
Finish(p) ==
    /\ req[p].step = "chain"
    /\ req[p].frontier = {} \/ Cardinality(req[p].visited) >= MaxGenerations
    /\ answer' = [answer EXCEPT ![p] =
          [doc |-> req[p].doc, addr |-> req[p].addr, day |-> req[p].day,
           verdict |-> Verify(req[p].doc, req[p].addr, req[p].day, req[p].got)]]
    /\ req' = [req EXCEPT ![p] = NoRequest]
    /\ UNCHANGED <<ct, logged, today, source>>

\* crt.sh does not answer after the last retry: the verification raises, but
\* the source keeps its pool and the addresses it has tried.
CrtShFails(p) ==
    /\ \/ FallsThrough(p)
       \/ /\ req[p].step = "chain"
          /\ ~source[p].authoritative
          /\ \E k \in req[p].frontier : OfKey(k, source[p].pool) = {}
    /\ req' = [req EXCEPT ![p] = NoRequest]
    /\ source' = [source EXCEPT ![p].authoritative =
                     IF req[p].step = "address" THEN FALSE ELSE @]
    /\ UNCHANGED <<ct, logged, today, answer>>

-----------------------------------------------------------------------------
(* What others do.                                                         *)

LogAddress(k, a) ==
    /\ logged < MaxLog
    /\ Log(IpCert(k, a, today, today + Window))
    /\ UNCHANGED <<source, req, answer>>

LogCommitment(k, s) ==
    /\ logged < MaxLog
    /\ Log(CommitmentCert(k, s))
    /\ UNCHANGED <<source, req, answer>>

Midnight ==
    /\ today < LastDay
    /\ NewDay
    /\ UNCHANGED <<source, req, answer>>

-----------------------------------------------------------------------------
AddressQuery(p) ==
    \/ AddressFromPool(p)
    \/ \E certs \in Bundle : FetchIssuer(p, certs)
    \/ FetchNothing(p)
    \/ AddressFromCrtSh(p)

KeyQuery(p) == \E k \in Key : KeyFromPool(p, k) \/ KeyFromCrtSh(p, k)

Verification(p) ==
    \/ \E kind \in {"local", "cascade"}, certs \in Bundle : Start(p, kind, certs)
    \/ \E doc \in Document, a \in Addr, d \in 0..LastDay : Ask(p, doc, a, d)
    \/ AddressQuery(p)
    \/ KeyQuery(p)
    \/ Finish(p)
    \/ CrtShFails(p)

Next ==
    \/ \E p \in Proc : Verification(p)
    \/ \E k \in Key, a \in Addr : LogAddress(k, a)
    \/ \E k, s \in Key : LogCommitment(k, s)
    \/ Midnight

Spec == Init /\ [][Next]_vars

-----------------------------------------------------------------------------
(* Properties.                                                             *)

\* Key d is reached from g by commitments that are in CT, each key's first one or
\* not.
Reached(g, d) ==
    \A S \in SUBSET Key :
        g \in S /\ (\A c \in ct : c.key \in S /\ c.succ # NoKey => c.succ \in S)
            => d \in S

\* Whatever bundles hold and withhold, and whichever layers answered, a document
\* is VERIFIED only if its key has acted in CT and commitments in CT lead to it
\* from a key that held the address on the day: a bundle may choose between the
\* forks of a chain, and can do no more.
VerifiedIsEndorsed ==
    \A p \in Proc : LET r == answer[p] IN r.verdict.verified =>
        /\ Activated(r.doc, ct)
        /\ \E g \in GenesisKeys(r.addr, r.day, ct) : Reached(g, r.doc)

\* A pool that holds CT's first commitment of every key that it holds any
\* commitment of.
Candid(pool) ==
    \A k \in Key : Commitments(k, pool) # {} =>
        \E c \in Commitments(k, pool) : \A x \in Commitments(k, ct) : c.at <= x.at

\* Process p answers its request in this step.
Answers(p) == req[p].step = "chain" /\ req'[p].step = "idle" /\ answer'[p] # answer[p]

\* When no bundle hides a fork, however old the bundles are and whatever else they
\* lack, a document is VERIFIED only if CT puts its key in the custody chain of a
\* key that held the address on the day, and it has acted.
VerifiedIsSound ==
    [][\A p \in Proc :
          /\ Answers(p) /\ answer'[p].verdict.verified
          /\ Candid(source[p].pool)
          => /\ Activated(req[p].doc, ct)
             /\ \E g \in GenesisKeys(req[p].addr, req[p].day, ct) :
                    Descends(g, req[p].doc)]_vars

\* The evidence of a walk names, for each key, the successor that CT names or the
\* one that its pool names: mixing bundles of other ages with crt.sh's answers
\* over a growing CT never makes up a third.
EvidenceAgrees ==
    \A p \in Proc, k \in Key :
        EarliestSuccessor(k, req[p].got) \in
            {NoKey, EarliestSuccessor(k, source[p].pool), EarliestSuccessor(k, ct)}

\* A pool that lacks nothing CT held on the addresses and keys it mentions.
Whole(pool, held) ==
    \A x \in pool, c \in held :
        c.key \in {x.key, x.succ} \/ (c.addr = x.addr /\ c.addr # NoAddr) => c \in pool

WithinBound(a, d) ==
    Cardinality({k \in Key : \E g \in GenesisKeys(a, d, ct) : Descends(g, k)})
        <= MaxGenerations

\* CT verified the document of p's request when p asked.
WasVerified(p) ==
    Verify(req[p].doc, req[p].addr, req[p].day, CtAsOf(req[p].asked)).verified

\* A document that CT verified when the question was asked is VERIFIED by the
\* cascade, whichever layer answers what, as long as the pool is whole: a key
\* or an address is never missed because another layer was asked about it.
WholePoolIsComplete ==
    [][\A p \in Proc :
          /\ Answers(p) /\ source[p].kind = "cascade"
          /\ WithinBound(req[p].addr, req[p].day) /\ WasVerified(p)
          /\ Whole(source[p].pool, CtAsOf(req[p].asked)) /\ Candid(source[p].pool)
          => answer'[p].verdict.verified]_vars

\* What the documentation says of the cascade: a bundle can only fail to help,
\* and the cascade falls through to crt.sh.
CascadeFallsThrough ==
    [][\A p \in Proc :
          /\ Answers(p) /\ source[p].kind = "cascade"
          /\ WithinBound(req[p].addr, req[p].day) /\ WasVerified(p)
          => answer'[p].verdict.verified]_vars

\* A document that a source's pool verifies stays verified as the source pools
\* more bundles, whatever they hold and withhold, unless the pool has hidden a
\* fork from the first: one issuer's bundle does not undo another's.  (A source
\* that has tried an address is not a new one.)
PoolNeverForgets ==
    [][\A p \in Proc :
          /\ source'[p].tried # {} /\ source'[p].pool # source[p].pool
          /\ Candid(source[p].pool)
          => \A k \in Key, a \in Addr, d \in 0..LastDay :
                VerifyDocument(k, a, d, source[p].pool).verified
                    => VerifyDocument(k, a, d, source'[p].pool).verified]_vars

=============================================================================
