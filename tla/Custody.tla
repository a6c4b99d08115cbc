------------------------------- MODULE Custody -------------------------------
(***************************************************************************)
(* The issuer's side of a custody chain: `seal` and `rotate` of            *)
(* src/ruuid/seal.py, each a sequence of steps over Certificate            *)
(* Transparency and the state directories under ~/.ruuid/seals, and        *)
(* `custody --seals`, which publishes the certificates found there.        *)
(*                                                                         *)
(* A command works in a temporary directory: what it has generated and     *)
(* issued is lost, except from CT, if it fails before the files are        *)
(* copied.  Generation 0 is the directory seal writes, generation g+1 the  *)
(* one rotate writes from generation g.  A key that was on a host may      *)
(* leak; whoever holds the copy can log certificates under it.             *)
(***************************************************************************)
EXTENDS CtLog

CONSTANTS
    Identity,       \* seals, each of one RUUID
    Outsider,       \* whoever holds a leaked key
    Nobody,         \* the owner of a key not yet generated
    Window,         \* days an IP certificate is valid for after its first
    LastGeneration, \* bound: the last generation directory
    LastDay,        \* bound: the last day
    MaxLog          \* bound: entries in CT

ASSUME OwnerAssumption ==
    /\ Outsider # Nobody
    /\ Outsider \notin Identity
    /\ Nobody \notin Identity

ASSUME BoundAssumption ==
    /\ Window \in Nat
    /\ LastGeneration \in Nat
    /\ LastDay \in Nat
    /\ MaxLog \in Nat

VARIABLES
    owner,   \* who generated each key
    cmd,     \* the command each identity's operator is running
    dirs,    \* the state directories of each identity
    ruuid,   \* the address and day an identity's RUUID encodes
    leaked,  \* keys whose private half has leaked
    bundle   \* the custody bundle each identity last published

vars == <<ct, logged, today, owner, cmd, dirs, ruuid, leaked, bundle>>

Generation == 0..LastGeneration

Step == {"idle", "issued", "committed", "copied", "documented"}

Command == [step: Step, gen: Generation, key: Key \cup {NoKey},
            next: Key \cup {NoKey}, certs: SUBSET Cert]

Idle == [step |-> "idle", gen |-> 0, key |-> NoKey, next |-> NoKey, certs |-> {}]

\* key.pem, next-key.pem, the *-cert.pem files, the key uuid-document.json
\* commits, and the keys that seal.json or rotation.json records.
Dir == [key: Key \cup {NoKey}, next: Key \cup {NoKey}, certs: SUBSET Cert,
        doc: Key \cup {NoKey}, recKey: Key \cup {NoKey},
        recNext: Key \cup {NoKey}]

NoDir == [key |-> NoKey, next |-> NoKey, certs |-> {}, doc |-> NoKey,
          recKey |-> NoKey, recNext |-> NoKey]

Ruuid == [addr: Addr \cup {NoAddr}, day: Nat]

TypeOK ==
    /\ LogTypeOK
    /\ owner \in [Key -> Identity \cup {Outsider, Nobody}]
    /\ cmd \in [Identity -> Command]
    /\ dirs \in [Identity -> [Generation -> Dir]]
    /\ ruuid \in [Identity -> Ruuid]
    /\ leaked \subseteq Key
    /\ bundle \in [Identity -> SUBSET Cert]

Init ==
    /\ LogInit
    /\ owner = [k \in Key |-> Nobody]
    /\ cmd = [i \in Identity |-> Idle]
    /\ dirs = [i \in Identity |-> [g \in Generation |-> NoDir]]
    /\ ruuid = [i \in Identity |-> [addr |-> NoAddr, day |-> 0]]
    /\ leaked = {}
    /\ bundle = [i \in Identity |-> {}]

-----------------------------------------------------------------------------
(* The steps that seal and rotate share.                                   *)

\* Issuing logs certificate c; the command keeps its own copy of it.
Issue(i, c, command) ==
    /\ logged < MaxLog
    /\ Log(c)
    /\ cmd' = [cmd EXCEPT ![i] =
                  [command EXCEPT !.certs = @ \cup {[c EXCEPT !.at = logged + 1]}]]

\* _publish_commitment: a fresh cold key s, and a certificate under the
\* command's key that pins it.  In CT before anything is on disk.
PublishCommitment(i, s) ==
    /\ cmd[i].step = "issued"
    /\ owner[s] = Nobody
    /\ owner' = [owner EXCEPT ![s] = i]
    /\ Issue(i, CommitmentCert(cmd[i].key, s),
             [cmd[i] EXCEPT !.step = "committed", !.next = s])
    /\ UNCHANGED <<dirs, ruuid, leaked, bundle>>

\* The files of the temporary directory are copied over the generation's own.
\* The document and the record of an earlier run stay until they are rewritten.
CopyFiles(i) ==
    /\ dirs' = [dirs EXCEPT ![i][cmd[i].gen] =
                    [@ EXCEPT !.key = cmd[i].key, !.next = cmd[i].next,
                              !.certs = cmd[i].certs]]
    /\ cmd' = [cmd EXCEPT ![i].step = "copied"]
    /\ UNCHANGED <<ct, logged, today, owner, leaked, bundle>>

\* A plausible slip: rotate signs the document with the fresh cold key.
WriteDocumentOfNext(i) ==
    /\ cmd[i].step = "copied"
    /\ dirs' = [dirs EXCEPT ![i][cmd[i].gen].doc =
                    IF cmd[i].gen = 0 THEN cmd[i].key ELSE cmd[i].next]
    /\ cmd' = [cmd EXCEPT ![i].step = "documented"]
    /\ UNCHANGED <<ct, logged, today, owner, ruuid, leaked, bundle>>

\* uuid-document.json, committing the key the command made active.
WriteDocument(i) ==
    /\ cmd[i].step = "copied"
    /\ dirs' = [dirs EXCEPT ![i][cmd[i].gen].doc = cmd[i].key]
    /\ cmd' = [cmd EXCEPT ![i].step = "documented"]
    /\ UNCHANGED <<ct, logged, today, owner, ruuid, leaked, bundle>>

\* seal.json or rotation.json, last.
WriteRecord(i) ==
    /\ cmd[i].step = "documented"
    /\ dirs' = [dirs EXCEPT ![i][cmd[i].gen] =
                    [@ EXCEPT !.recKey = cmd[i].key, !.recNext = cmd[i].next]]
    /\ cmd' = [cmd EXCEPT ![i] = Idle]
    /\ UNCHANGED <<ct, logged, today, owner, ruuid, leaked, bundle>>

\* The command raises, or the host goes down: the temporary directory is gone.
Fail(i) ==
    /\ cmd[i].step # "idle"
    /\ cmd' = [cmd EXCEPT ![i] = Idle]
    /\ UNCHANGED <<ct, logged, today, owner, dirs, ruuid, leaked, bundle>>

-----------------------------------------------------------------------------
(* seal                                                                    *)

\* A plausible slip: acme.sh writes the genesis key into the final directory.
SealIssueInPlace(i, a, k) ==
    /\ cmd[i].step = "idle"
    /\ dirs[i][0] = NoDir
    /\ owner[k] = Nobody
    /\ owner' = [owner EXCEPT ![k] = i]
    /\ Issue(i, IpCert(k, a, today, today + Window),
             [Idle EXCEPT !.step = "issued", !.key = k])
    /\ dirs' = [dirs EXCEPT ![i][0].key = k]
    /\ UNCHANGED <<ruuid, leaked, bundle>>

\* acme.sh generates the genesis key and issues the IP certificate.  A failed
\* seal can be run again as long as it has left no directory.
SealIssue(i, a, k) ==
    /\ cmd[i].step = "idle"
    /\ dirs[i][0] = NoDir
    /\ owner[k] = Nobody
    /\ owner' = [owner EXCEPT ![k] = i]
    /\ Issue(i, IpCert(k, a, today, today + Window),
             [Idle EXCEPT !.step = "issued", !.key = k])
    /\ UNCHANGED <<dirs, ruuid, leaked, bundle>>

\* With the IP certificate, and the commitment under --pre-rotate, in hand:
\* pick an anchor day in the window that is not in the future, mint the RUUID,
\* and copy the files.
SealCopy(i, day) ==
    /\ cmd[i].step \in {"issued", "committed"}
    /\ cmd[i].gen = 0
    /\ day <= today
    /\ \E c \in cmd[i].certs :
          /\ c.addr \in Addr
          /\ IsGenesis(c, c.addr, day)
          /\ ruuid' = [ruuid EXCEPT ![i] = [addr |-> c.addr, day |-> day]]
    /\ CopyFiles(i)

-----------------------------------------------------------------------------
(* rotate                                                                  *)

\* A plausible slip: no check that the directory pins a successor at all.
RotateBeginUnpinned(i, g) ==
    /\ cmd[i].step = "idle"
    /\ g + 1 \in Generation
    /\ dirs[i][g].recKey # NoKey
    /\ dirs[i][g].next = dirs[i][g].recNext
    /\ cmd' = [cmd EXCEPT ![i] = [Idle EXCEPT !.step = "issued", !.gen = g + 1,
                                              !.key = dirs[i][g].next]]
    /\ UNCHANGED <<ct, logged, today, owner, dirs, ruuid, leaked, bundle>>

\* From a directory with a record that pins a successor, and whose
\* next-key.pem is that successor.  Nothing tells rotate whether this
\* directory has been rotated from before.
RotateBegin(i, g) ==
    /\ cmd[i].step = "idle"
    /\ g + 1 \in Generation
    /\ dirs[i][g].recNext # NoKey
    /\ dirs[i][g].next = dirs[i][g].recNext
    /\ cmd' = [cmd EXCEPT ![i] = [Idle EXCEPT !.step = "issued", !.gen = g + 1,
                                              !.key = dirs[i][g].next]]
    /\ UNCHANGED <<ct, logged, today, owner, dirs, ruuid, leaked, bundle>>

RotateCopy(i) ==
    /\ cmd[i].step = "committed"
    /\ cmd[i].gen > 0
    /\ CopyFiles(i)
    /\ UNCHANGED ruuid

-----------------------------------------------------------------------------
(* custody --seals                                                         *)

\* build_published_custody: every certificate on the issuer's disk.
PublishBundle(i) ==
    /\ bundle' = [bundle EXCEPT ![i] =
                     UNION {dirs[i][g].certs : g \in Generation}]
    /\ UNCHANGED <<ct, logged, today, owner, cmd, dirs, ruuid, leaked>>

-----------------------------------------------------------------------------
(* A leaked key, and what its holder can log.                              *)

\* Only a key.pem in a state directory is exposed: next-key.pem is kept cold.
Leak(i, g) ==
    /\ dirs[i][g].key # NoKey
    /\ leaked' = leaked \cup {dirs[i][g].key}
    /\ UNCHANGED <<ct, logged, today, owner, cmd, dirs, ruuid, bundle>>

\* The holder of a leaked key, or of one of its own, commits to a key of its
\* own, which needs no more than a certificate for a name of its choosing.
OutsiderCommit(k, s) ==
    /\ k \in leaked \/ owner[k] = Outsider
    /\ owner[s] \in {Nobody, Outsider}
    /\ logged < MaxLog
    /\ owner' = [owner EXCEPT ![s] = Outsider]
    /\ Log(CommitmentCert(k, s))
    /\ UNCHANGED <<cmd, dirs, ruuid, leaked, bundle>>

Midnight ==
    /\ today < LastDay
    /\ NewDay
    /\ UNCHANGED <<owner, cmd, dirs, ruuid, leaked, bundle>>

-----------------------------------------------------------------------------
Seal(i) ==
    \/ \E a \in Addr, k \in Key : SealIssue(i, a, k)
    \/ \E day \in 0..LastDay : SealCopy(i, day)

Rotate(i) ==
    \/ \E g \in Generation : RotateBegin(i, g)
    \/ RotateCopy(i)

Shared(i) ==
    \/ \E s \in Key : PublishCommitment(i, s)
    \/ WriteDocument(i)
    \/ WriteRecord(i)
    \/ Fail(i)

Next ==
    \/ \E i \in Identity : Seal(i) \/ Rotate(i) \/ Shared(i) \/ PublishBundle(i)
    \/ \E i \in Identity, g \in Generation : Leak(i, g)
    \/ \E k, s \in Key : OutsiderCommit(k, s)
    \/ Midnight

Spec == Init /\ [][Next]_vars

-----------------------------------------------------------------------------
(* Properties.                                                             *)

\* The owner of key k has committed it to a successor of its own.
Committed(k) == \E c \in Commitments(k, ct) : owner[c.succ] = owner[k]

\* A key whose owner has committed to a successor keeps that owner's choice,
\* whoever else logs a commitment under it, before or after: the earliest
\* commitment wins in _earliest_successor, and seal and rotate publish theirs
\* before the key is written to a directory it can leak from.
NoForkTakesHold ==
    \A k \in Key : owner[k] \in Identity /\ Committed(k)
                      => owner[EarliestSuccessor(k, ct)] = owner[k]

\* The chain of custody of an RUUID sealed with --pre-rotate never leaves the
\* keys its issuer generated, though every key it has retired may have leaked.
ChainStaysWithIssuer ==
    \A i \in Identity : dirs[i][0].recNext # NoKey =>
        \A k \in Key : Descends(dirs[i][0].recKey, k) => owner[k] = i

\* The documents identity i has on disk.
DocumentsOf(i) == {dirs[i][g].doc : g \in Generation} \ {NoKey}

Verified(i, doc, certs) ==
    VerifyDocument(doc, ruuid[i].addr, ruuid[i].day, certs).verified

\* Nobody has re-run a rotation of i from a directory it had rotated from.
RotatedOnce(i) ==
    \A k \in Key : \A x, y \in {c \in Commitments(k, ct) : owner[c.succ] = i} :
        owner[k] = i => x = y

\* Every document seal and rotate write is accepted by verify, as long as no
\* rotation was run twice from one directory: whatever leaked, and whichever
\* commands failed on the way.
UndisturbedDocumentsVerify ==
    \A i \in Identity : RotatedOnce(i) =>
        \A doc \in DocumentsOf(i) : Verified(i, doc, ct)

\* What the README says of every rotation: the document it writes commits the
\* tip that a verifier's walk through CT reaches.
RotatedDocumentsVerify ==
    \A i \in Identity : \A doc \in DocumentsOf(i) : Verified(i, doc, ct)

\* The bundle an issuer publishes from its own disk accepts no document of
\* its own that CT rejects, as long as no rotation was run twice.
UndisturbedBundleAgrees ==
    \A i \in Identity : RotatedOnce(i) =>
        \A k \in Key : Verified(i, k, bundle[i]) => Verified(i, k, ct)

\* What the README says of custody --seals: the same bundle as CT gives.
BundleAgrees ==
    \A i \in Identity : \A doc \in DocumentsOf(i) :
        Verified(i, doc, bundle[i]) => Verified(i, doc, ct)

=============================================================================
