----------------------------- MODULE CtVerifier -----------------------------
(***************************************************************************)
(* verify_ruuid of src/ruuid/verify.py: processes that judge RUUIDs        *)
(* against a live CT index, sharing the on-disk per-IP cache (IpCertCache).*)
(*                                                                         *)
(* A verification that the cache does not answer asks CT for the           *)
(* certificates of the address, then for those of one key after another    *)
(* along the chain (_fetch_certs).  CT grows between the queries, other    *)
(* processes load and save the cache meanwhile, and a query may fail.      *)
(***************************************************************************)
EXTENDS CtLog

CONSTANTS
    Proc,     \* processes that verify
    Document, \* the keys that documents commit; NoKey: no document
    Window,   \* days an IP certificate is valid for after its first
    LastDay,  \* bound: the last day
    MaxLog    \* bound: entries in CT

ASSUME VerifierAssumption ==
    Document \subseteq Key \cup {NoKey} /\ Window \in Nat /\ LastDay \in Nat /\ MaxLog \in Nat

VARIABLES
    cache,   \* the certificates cached for each address; none: no file
    req,     \* the verification each process is running
    answer   \* the answer each process gave to its last question

vars == <<ct, logged, today, cache, req, answer>>

\* asked is the length of CT when the verification began.
Request == [step: {"idle", "address", "chain"}, doc: Key \cup {NoKey},
            addr: Addr, day: Nat, asked: Nat, loaded: SUBSET Cert,
            got: SUBSET Cert, visited: SUBSET Key, frontier: SUBSET Key]

\* source is where the evidence came from, or "none" without an answer.
Answer == [source: {"none", "cache", "ct"}, doc: Key \cup {NoKey}, addr: Addr,
           day: Nat, verdict: Verdict]

TypeOK ==
    /\ LogTypeOK
    /\ cache \in [Addr -> SUBSET Cert]
    /\ req \in [Proc -> Request]
    /\ answer \in [Proc -> Answer]

AnyAddr == CHOOSE a \in Addr : TRUE

NoRequest == [step |-> "idle", doc |-> NoKey, addr |-> AnyAddr, day |-> 0,
              asked |-> 0, loaded |-> {}, got |-> {}, visited |-> {},
              frontier |-> {}]

NoAnswer == [source |-> "none", doc |-> NoKey, addr |-> AnyAddr, day |-> 0,
             verdict |-> Reject("no genesis")]

Init ==
    /\ LogInit
    /\ cache = [a \in Addr |-> {}]
    /\ req = [p \in Proc |-> NoRequest]
    /\ answer = [p \in Proc |-> NoAnswer]

-----------------------------------------------------------------------------
(* verify_ruuid                                                            *)

\* verify() on the evidence, and the end of process p's verification.
Tell(p, source, r, certs) ==
    /\ answer' = [answer EXCEPT ![p] =
          [source |-> source, doc |-> r.doc, addr |-> r.addr, day |-> r.day,
           verdict |-> Verify(r.doc, r.addr, r.day, certs)]]
    /\ req' = [req EXCEPT ![p] = NoRequest]

\* A verification begins: the cache file of the address is loaded.  If a
\* cached certificate establishes the genesis the cached ones are the
\* evidence, and CT is not asked.
Begin(p, doc, a, d) ==
    /\ req[p].step = "idle"
    /\ LET r == [NoRequest EXCEPT !.step = "address", !.doc = doc, !.addr = a,
                    !.day = d, !.asked = logged, !.loaded = cache[a]]
       IN  IF GenesisKeys(a, d, cache[a]) # {}
           THEN Tell(p, "cache", r, cache[a])
           ELSE /\ req' = [req EXCEPT ![p] = r]
                /\ answer' = [answer EXCEPT ![p] = NoAnswer]
    /\ UNCHANGED <<ct, logged, today, cache>>

\* certs_for_ip: the certificates of the address.  The walk starts from the
\* genesis keys among them.
QueryAddress(p) ==
    /\ req[p].step = "address"
    /\ LET certs == {c \in ct : c.addr = req[p].addr}
       IN  req' = [req EXCEPT ![p] =
                      [@ EXCEPT !.step = "chain", !.got = certs,
                                !.frontier = GenesisKeys(req[p].addr, req[p].day, certs)]]
    /\ UNCHANGED <<ct, logged, today, cache, answer>>

\* A plausible slip: the walk forgets which keys it has asked for.
QueryKeyForgetful(p, k) ==
    /\ req[p].step = "chain"
    /\ k \in req[p].frontier
    /\ LET certs == {c \in ct : c.key = k}
           succ  == {EarliestSuccessor(k, certs)} \ {NoKey}
       IN  req' = [req EXCEPT ![p] =
                      [req[p] EXCEPT !.got = @ \cup certs,
                                     !.frontier = (@ \ {k}) \cup succ]]
    /\ UNCHANGED <<ct, logged, today, cache, answer>>

\* A plausible slip: the walk follows the newest commitment of a key.
QueryKeyNewest(p, k) ==
    /\ req[p].step = "chain"
    /\ k \in req[p].frontier
    /\ Cardinality(req[p].visited) < MaxGenerations
    /\ LET certs   == {c \in ct : c.key = k}
           visited == req[p].visited \cup {k}
           succ    == {LatestSuccessor(k, certs)} \ ({NoKey} \cup visited)
       IN  req' = [req EXCEPT ![p] =
                      [req[p] EXCEPT !.got = @ \cup certs, !.visited = visited,
                                     !.frontier = (@ \ {k}) \cup succ]]
    /\ UNCHANGED <<ct, logged, today, cache, answer>>

\* A plausible slip: a key without a successor is not told apart.
QueryKeyUnchecked(p, k) ==
    /\ req[p].step = "chain"
    /\ k \in req[p].frontier
    /\ Cardinality(req[p].visited) < MaxGenerations
    /\ LET certs   == {c \in ct : c.key = k}
           visited == req[p].visited \cup {k}
           succ    == {EarliestSuccessor(k, certs)} \ visited
       IN  req' = [req EXCEPT ![p] =
                      [req[p] EXCEPT !.got = @ \cup certs, !.visited = visited,
                                     !.frontier = (@ \ {k}) \cup succ]]
    /\ UNCHANGED <<ct, logged, today, cache, answer>>

\* certs_for_spki for a key of the frontier, and on to its successor.
QueryKey(p, k) ==
    /\ req[p].step = "chain"
    /\ k \in req[p].frontier
    /\ Cardinality(req[p].visited) < MaxGenerations
    /\ LET certs   == {c \in ct : c.key = k}
           visited == req[p].visited \cup {k}
           succ    == {EarliestSuccessor(k, certs)} \ ({NoKey} \cup visited)
       IN  req' = [req EXCEPT ![p] =
                      [req[p] EXCEPT !.got = @ \cup certs, !.visited = visited,
                                     !.frontier = (@ \ {k}) \cup succ]]
    /\ UNCHANGED <<ct, logged, today, cache, answer>>

\* A plausible slip: the walk ends one key before its bound.
FinishEarly(p) ==
    /\ req[p].step = "chain"
    /\ req[p].frontier = {} \/ Cardinality(req[p].visited) + 1 >= MaxGenerations
    /\ LET certs == req[p].loaded \cup req[p].got
       IN  /\ Tell(p, "ct", req[p], certs)
           /\ \/ cache' = [cache EXCEPT ![req[p].addr] = certs]
              \/ UNCHANGED cache
    /\ UNCHANGED logVars

\* The walk is over: what it found is merged with what was loaded, and saved
\* over the cache file, unless the disk refuses.
Finish(p) ==
    /\ req[p].step = "chain"
    /\ req[p].frontier = {} \/ Cardinality(req[p].visited) >= MaxGenerations
    /\ LET certs == req[p].loaded \cup req[p].got
       IN  /\ Tell(p, "ct", req[p], certs)
           /\ \/ cache' = [cache EXCEPT ![req[p].addr] = certs]
              \/ UNCHANGED cache
    /\ UNCHANGED logVars

\* crt.sh does not answer after the last retry: the verification raises.
QueryFails(p) ==
    /\ req[p].step # "idle"
    /\ req' = [req EXCEPT ![p] = NoRequest]
    /\ UNCHANGED <<ct, logged, today, cache, answer>>

\* A cache file is deleted, or torn by a crash while it was written: load
\* finds nothing in it.
CacheLost(a) ==
    /\ cache[a] # {}
    /\ cache' = [cache EXCEPT ![a] = {}]
    /\ UNCHANGED <<ct, logged, today, req, answer>>

-----------------------------------------------------------------------------
(* What others log.                                                        *)

LogAddress(k, a) ==
    /\ logged < MaxLog
    /\ Log(IpCert(k, a, today, today + Window))
    /\ UNCHANGED <<cache, req, answer>>

LogCommitment(k, s) ==
    /\ logged < MaxLog
    /\ Log(CommitmentCert(k, s))
    /\ UNCHANGED <<cache, req, answer>>

Midnight ==
    /\ today < LastDay
    /\ NewDay
    /\ UNCHANGED <<cache, req, answer>>

-----------------------------------------------------------------------------
Walk(p) == QueryAddress(p) \/ (\E k \in Key : QueryKey(p, k)) \/ Finish(p)

Next ==
    \/ \E p \in Proc, doc \in Document, a \in Addr, d \in 0..LastDay :
          Begin(p, doc, a, d)
    \/ \E p \in Proc : Walk(p) \/ QueryFails(p)
    \/ \E a \in Addr : CacheLost(a)
    \/ \E k \in Key, a \in Addr : LogAddress(k, a)
    \/ \E k, s \in Key : LogCommitment(k, s)
    \/ Midnight

Spec == Init /\ [][Next]_vars

\* A process that verifies goes on: verify_ruuid is one call.
FairSpec == Spec /\ \A p \in Proc : WF_vars(Walk(p))

-----------------------------------------------------------------------------
(* Properties.                                                             *)

Live(g, k) == Descends(g, k) /\ Activated(k, ct)

\* A key that is ever reported VERIFIED descends in CT from a key that held
\* the address on the day, and has acted in CT, then and for ever after:
\* whatever was cached when, in whichever order the queries ran, and whatever
\* was lost or overwritten on the way.
VerifiedIsSound ==
    \A p \in Proc : answer[p].verdict.verified =>
        \E g \in GenesisKeys(answer[p].addr, answer[p].day, ct) :
            Live(g, answer[p].verdict.key)

\* What IpCertCache's documentation says: whether a key held an address on a
\* day is a fact of CT, so answers about one RUUID, whenever and from whatever
\* evidence they were given, do not name keys of different genesis.
AnswersShareAChain ==
    \A p, q \in Proc : LET r == answer[p] s == answer[q] IN
        /\ r.verdict.reason = "current" /\ s.verdict.reason = "current"
        /\ r.addr = s.addr /\ r.day = s.day
        => Descends(r.verdict.key, s.verdict.key) \/ Descends(s.verdict.key, r.verdict.key)

\* All of a genesis key's descendants fit in the walk's bound.
WithinBound(a, d) ==
    Cardinality({k \in Key : \E g \in GenesisKeys(a, d, ct) : Descends(g, k)})
        <= MaxGenerations

\* Process p answers request r in this step.
Answers(p, r) == req[p] = r /\ r.step = "chain" /\ answer'[p].source = "ct"

\* A document that CT already verified when the question was asked is
\* VERIFIED by a walk through CT, though CT grew while it ran.
WalkIsComplete ==
    [][\A p \in Proc : LET r == req[p] IN
          /\ Answers(p, r) /\ r.doc # NoKey /\ WithinBound(r.addr, r.day)
          /\ Verify(r.doc, r.addr, r.day, CtAsOf(r.asked)).verified
          => answer'[p].verdict.verified]_vars

\* The key a walk reports for an RUUID without a document was in control at
\* some moment between the question and the answer.
ReportedKeyWasCurrent ==
    [][\A p \in Proc : LET r == req[p] IN
          /\ Answers(p, r) /\ answer'[p].verdict.reason = "current"
          /\ WithinBound(r.addr, r.day)
          => \E n \in r.asked..logged :
                \E g \in GenesisKeys(r.addr, r.day, CtAsOf(n)) :
                    answer'[p].verdict.key = CurrentKey(g, CtAsOf(n))]_vars

\* What the documentation says of verify and a rotated document: VERIFIED if
\* and only if the chain in CT reaches its key.  Here, the half the cache bears
\* on, for an answer that the cache gives at once.
VerifiedIfChainReaches ==
    [][\A p \in Proc : LET r == answer'[p] IN
          r # answer[p] /\ r.source = "cache" /\ r.doc # NoKey =>
              (Verify(r.doc, r.addr, r.day, ct).reason = "rotated" => r.verdict.verified)]_vars

\* The evidence a verification or the cache holds never contradicts CT on who
\* succeeds a key: it knows no successor, or the one that CT will always give.
EvidenceAgrees ==
    \A certs \in {cache[a] : a \in Addr} \cup
                 UNION {{req[p].loaded, req[p].got} : p \in Proc} :
        \A k \in Key : EarliestSuccessor(k, certs) \in {NoKey, EarliestSuccessor(k, ct)}

\* Over CT, with its forks and cycles, _walk_chain reaches descendants only, and
\* every descendant of a key that has no more of them than the walk's bound lets
\* it see.
WalkFindsDescendants ==
    \A g, d \in Key :
        /\ WalkChain(g, d, ct) # <<>> => Descends(g, d)
        /\ /\ Descends(g, d)
           /\ Cardinality({k \in Key : Descends(g, k)}) <= MaxGenerations + 1
           => WalkChain(g, d, ct) # <<>>

\* Log growth implements the abstract promise: a successor is never rewritten.
ImplementsSuccession == Authority!Spec

\* Every verification ends, whatever cycles the commitments form.
VerificationEnds == \A p \in Proc : req[p].step # "idle" ~> req[p].step = "idle"

=============================================================================
