---------------------------- MODULE Custody_proofs ----------------------------
(***************************************************************************)
(* Proofs about Custody, for any keys, identities and bounds: types, the   *)
(* fate of forks, that a chain of custody stays with its issuer, and what  *)
(* verify says of the documents and bundles that issuers write.            *)
(*                                                                         *)
(* The argument.  A successor key is pinned in CT when it is generated and *)
(* reaches a host, where it can leak, only when a rotation has published   *)
(* its own commitment: InvExposed.  So whoever commits under a leaked key  *)
(* of a chain comes second, and every key of a chain is either exposed and *)
(* committed by its owner or not exposed and committed by nobody else.     *)
(***************************************************************************)
EXTENDS Custody, CtLog_proofs

\* Key k is or was on a host, or has leaked from one.
Exposed(k) ==
    k \in leaked \/ \E i \in Identity, g \in Generation : dirs[i][g].key = k

\* Some commitment in CT pins key k.
Pinned(k) == \E c \in ct : c.succ = k

\* A certificate names generated keys.
InvGenerated ==
    \A c \in ct : /\ owner[c.key] # Nobody
                  /\ c.succ # NoKey => owner[c.succ] # Nobody

\* A commitment that the owner of its key did not make follows a leak.
InvOutsider ==
    \A c \in ct : c.succ # NoKey /\ owner[c.key] \in Identity =>
        owner[c.succ] = owner[c.key] \/ c.key \in leaked

InvLeaked == \A k \in leaked : owner[k] \in Identity

\* The command that identity i runs.
CommandOK(i) == LET c == cmd[i] IN
    /\ c.step # "idle" => c.key # NoKey
    /\ c.key # NoKey => owner[c.key] = i
    /\ c.step = "issued" /\ c.gen = 0 => ~Exposed(c.key) /\ ~Pinned(c.key)
    /\ c.step = "issued" /\ c.gen > 0 => Pinned(c.key)
    /\ c.step = "committed" => c.next # NoKey
    /\ c.next # NoKey => /\ c.key # NoKey /\ Committed(c.key)
                         /\ owner[c.next] = i /\ Pinned(c.next)

InvCommand == \A i \in Identity : CommandOK(i)

\* A state directory of identity i.
DirOK(i, g) == LET d == dirs[i][g] IN
    /\ d.key # NoKey => owner[d.key] = i
    /\ d.next # NoKey => owner[d.next] = i /\ Pinned(d.next)
    /\ d.recNext # NoKey =>
          d.recKey # NoKey /\ owner[d.recKey] = i /\ Committed(d.recKey)

InvDirs == \A i \in Identity, g \in Generation : DirOK(i, g)

\* A pinned key that has been on a host has been committed by its owner.
InvExposed == \A k \in Key : Exposed(k) /\ Pinned(k) => Committed(k)

IInv ==
    /\ TypeOK
    /\ LogSound
    /\ InvGenerated
    /\ InvOutsider
    /\ InvLeaked
    /\ InvCommand
    /\ InvDirs
    /\ InvExposed
    /\ NoForkTakesHold

-----------------------------------------------------------------------------
(* What a step keeps of the facts the invariant is made of.                *)

\* A step that logs nothing and generates no key.
LEMMA QuietStep ==
    ASSUME IInv, UNCHANGED <<ct, logged, owner>>, today' \in Nat,
           leaked \subseteq leaked'
    PROVE  /\ LogSound' /\ InvGenerated' /\ InvOutsider' /\ NoForkTakesHold'
           /\ \A k : Committed(k)' <=> Committed(k)
           /\ \A k : Pinned(k)' <=> Pinned(k)
<1>1. LogSound'
  BY DEF IInv, LogSound, LogTypeOK, Ordered, IsFirst, Commitments
<1>2. InvGenerated' /\ InvOutsider'
  BY DEF IInv, InvGenerated, InvOutsider
<1>3. \A k : Committed(k)' <=> Committed(k)
  BY DEF Committed, Commitments
<1>4. NoForkTakesHold'
  <2>1. \A k : EarliestSuccessor(k, ct)' = EarliestSuccessor(k, ct)
    OBVIOUS
  <2> QED BY <1>3, <2>1 DEF IInv, NoForkTakesHold
<1>5. \A k : Pinned(k)' <=> Pinned(k)
  BY DEF Pinned
<1> QED BY <1>1, <1>2, <1>3, <1>4, <1>5

\* Keys keep the owner that generated them.
OwnersStay == \A k \in Key : owner[k] # Nobody => owner'[k] = owner[k]

\* A step that logs certificate c.
LEMMA LoggingStep ==
    ASSUME IInv, NEW c \in Cert, Log(c), OwnersStay,
           owner'[c.key] # Nobody, c.succ # NoKey => owner'[c.succ] # Nobody
    PROVE  /\ LogSound' /\ InvGenerated'
           /\ \A k \in Key : owner[k] # Nobody /\ Committed(k) => Committed(k)'
           /\ \A k \in Key : Pinned(k) => Pinned(k)'
           /\ \A k \in Key : Pinned(k)' => Pinned(k) \/ k = c.succ
<1>1. /\ ct' = ct \cup {Stamped(c)}
      /\ Stamped(c).key = c.key /\ Stamped(c).succ = c.succ
  BY StampedType DEF Log, Stamped, IInv
<1>2. LogSound'
  BY LogKeepsSound DEF IInv
<1>3. \A x \in ct : x.key \in Key /\ x.succ \in Key \cup {NoKey}
  BY DEF IInv, LogSound, LogTypeOK, Cert
<1>4. InvGenerated'
  BY <1>1, <1>3 DEF InvGenerated, IInv, OwnersStay
<1>5. ASSUME NEW k \in Key, owner[k] # Nobody, Committed(k)
      PROVE  Committed(k)'
  <2>1. PICK x \in Commitments(k, ct) : owner[x.succ] = owner[k]
    BY <1>5 DEF Committed
  <2>2. x \in Commitments(k, ct')
    BY <1>1, <2>1 DEF Commitments
  <2>3. x.succ \in Key
    BY <1>3, <2>1 DEF Commitments
  <2>4. owner'[x.succ] = owner'[k]
    BY <1>5, <2>1, <2>3 DEF OwnersStay
  <2> QED BY <2>2, <2>4 DEF Committed
<1>6. \A k \in Key : Pinned(k) => Pinned(k)'
  BY <1>1 DEF Pinned
<1>7. \A k \in Key : Pinned(k)' => Pinned(k) \/ k = c.succ
  BY <1>1 DEF Pinned
<1> QED BY <1>2, <1>4, <1>5, <1>6, <1>7

\* A logged commitment that its key's owner made comes first, or after another
\* of the same owner; any other leaves the first where it is.
LEMMA NoForkStep ==
    ASSUME IInv, NEW c \in Cert, Log(c), OwnersStay,
           c.succ # NoKey /\ owner'[c.succ] = owner'[c.key] =>
               Committed(c.key) \/ Commitments(c.key, ct) = {} \/ owner'[c.key] \notin Identity
    PROVE  NoForkTakesHold'
<1> SUFFICES ASSUME NEW k \in Key, owner'[k] \in Identity, Committed(k)'
             PROVE  owner'[EarliestSuccessor(k, ct')] = owner'[k]
  BY DEF NoForkTakesHold
<1>1. PICK x \in Commitments(k, ct') : owner'[x.succ] = owner'[k]
  BY DEF Committed
<1>2. Commitments(k, ct') =
          Commitments(k, ct) \cup
              (IF c.key = k /\ c.succ # NoKey THEN {Stamped(c)} ELSE {})
  BY CommitmentsAfterLog DEF IInv
<1>3. Stamped(c).key = c.key /\ Stamped(c).succ = c.succ
  BY StampedType DEF IInv
<1>4. LogSound
  BY DEF IInv
<1>5. CASE Commitments(k, ct) = {}
  <2>1. x = Stamped(c) /\ c.key = k /\ c.succ # NoKey
    BY <1>1, <1>2, <1>5
  <2>2. EarliestSuccessor(k, ct) = NoKey
    BY <1>5, NoneCommitted
  <2>3. EarliestSuccessor(k, ct') = c.succ
    BY <1>4, <2>1, <2>2, SuccessorAfterLog
  <2> QED BY <1>1, <1>3, <2>1, <2>3
<1>6. CASE Commitments(k, ct) # {}
  <2>1. /\ EarliestSuccessor(k, ct') = EarliestSuccessor(k, ct)
        /\ \E y \in Commitments(k, ct) : EarliestSuccessor(k, ct) = y.succ
    BY <1>4, <1>6, SuccessorInLog, SuccessorAfterLog
  <2>2. \A y \in Commitments(k, ct) :
            y.succ \in Key /\ owner[y.succ] # Nobody /\ owner'[y.succ] = owner[y.succ]
    BY DEF Commitments, IInv, InvGenerated, OwnersStay, LogSound, LogTypeOK, Cert
  <2>3. owner[k] # Nobody /\ owner'[k] = owner[k]
    BY <1>6 DEF Commitments, IInv, InvGenerated, OwnersStay
  <2>4. Committed(k)
    <3>1. CASE x \in Commitments(k, ct)
      BY <1>1, <2>2, <2>3, <3>1 DEF Committed
    <3>2. CASE x \notin Commitments(k, ct)
      BY <1>1, <1>2, <1>3, <1>6, <3>2
    <3> QED BY <3>1, <3>2
  <2>5. owner[EarliestSuccessor(k, ct)] = owner[k]
    BY <2>3, <2>4 DEF IInv, NoForkTakesHold
  <2> QED BY <2>1, <2>2, <2>3, <2>5
<1> QED BY <1>5, <1>6

-----------------------------------------------------------------------------
(* Types.                                                                  *)

\* What TypeOK needs to be inductive: a command that issues has a key.
InvKeyed == \A i \in Identity : cmd[i].step # "idle" => cmd[i].key # NoKey

\* Logging a certificate keeps the log's types.
LEMMA LogTypes ==
    ASSUME TypeOK, NEW c \in Cert, Log(c)
    PROVE  LogTypeOK' /\ Stamped(c) \in Cert
<1>1. ct' = ct \cup {Stamped(c)} /\ logged' = logged + 1 /\ today' = today
  BY DEF Log, Stamped
<1>2. logged + 1 \in Nat
  BY DEF TypeOK, LogTypeOK
<1>3. Stamped(c) \in Cert
  BY <1>2 DEF Stamped, Cert
<1> QED BY <1>1, <1>2, <1>3 DEF TypeOK, LogTypeOK

\* The command that has just issued certificate c.
With(command, c) == [command EXCEPT !.certs = @ \cup {Stamped(c)}]

\* Issuing one keeps the log's and the commands' types.
LEMMA IssueTypes ==
    ASSUME TypeOK, NEW i \in Identity, NEW c \in Cert, NEW command \in Command,
           Issue(i, c, command)
    PROVE  /\ LogTypeOK'
           /\ cmd' \in [Identity -> Command]
           /\ \A j \in Identity : cmd'[j] = IF j = i THEN With(command, c) ELSE cmd[j]
<1>1. Stamped(c) \in Cert /\ LogTypeOK'
  BY LogTypes DEF Issue
<1>2. With(command, c) \in Command
  BY <1>1 DEF Command, With
<1>3. cmd' = [cmd EXCEPT ![i] = With(command, c)]
  BY DEF Issue, Stamped, With
<1> QED BY <1>1, <1>2, <1>3 DEF TypeOK

\* The idle command is a command without a key.
LEMMA IdleType == Idle \in Command /\ Idle.step = "idle" /\ Idle.key = NoKey
                  /\ Idle.next = NoKey
BY BoundAssumption DEF Idle, Command, Step, Generation

\* The two actions that issue for a command, by what they leave it with.
LEMMA SealIssueEffect ==
    ASSUME TypeOK, NEW i \in Identity, NEW a \in Addr, NEW k \in Key, SealIssue(i, a, k)
    PROVE  /\ IpCert(k, a, today, today + Window) \in Cert
           /\ LogTypeOK' /\ cmd' \in [Identity -> Command]
           /\ \A j \in Identity \ {i} : cmd'[j] = cmd[j]
           /\ cmd'[i].step = "issued" /\ cmd'[i].gen = 0
           /\ cmd'[i].key = k /\ cmd'[i].next = NoKey
           /\ cmd'[i].certs = {Stamped(IpCert(k, a, today, today + Window))}
<1> DEFINE new == [Idle EXCEPT !.step = "issued", !.key = k]
           c   == IpCert(k, a, today, today + Window)
<1>1. c \in Cert
  BY BoundAssumption, IpCertType DEF TypeOK, LogTypeOK
<1>2. new \in Command
  BY IdleType DEF Command, Step
<1>3. /\ LogTypeOK' /\ cmd' \in [Identity -> Command]
      /\ \A j \in Identity : cmd'[j] = IF j = i THEN With(new, c) ELSE cmd[j]
  BY <1>1, <1>2, IssueTypes DEF SealIssue
<1>4. /\ With(new, c).step = "issued" /\ With(new, c).gen = 0
      /\ With(new, c).key = k /\ With(new, c).next = NoKey
      /\ With(new, c).certs = {Stamped(c)}
  BY DEF With, Idle
<1> QED BY <1>1, <1>3, <1>4

\* What _publish_commitment changes, spelt out for the command that ran it.
LEMMA PublishEffect ==
    ASSUME TypeOK, InvKeyed, NEW i \in Identity, NEW s \in Key, PublishCommitment(i, s)
    PROVE  /\ cmd[i].step = "issued"
           /\ cmd[i].key \in Key /\ CommitmentCert(cmd[i].key, s) \in Cert
           /\ LogTypeOK' /\ cmd' \in [Identity -> Command]
           /\ \A j \in Identity \ {i} : cmd'[j] = cmd[j]
           /\ cmd'[i].step = "committed" /\ cmd'[i].gen = cmd[i].gen
           /\ cmd'[i].key = cmd[i].key /\ cmd'[i].next = s
           /\ cmd'[i].certs = cmd[i].certs \cup {Stamped(CommitmentCert(cmd[i].key, s))}
<1> DEFINE new == [cmd[i] EXCEPT !.step = "committed", !.next = s]
           c   == CommitmentCert(cmd[i].key, s)
<1>1. cmd[i].step = "issued" /\ cmd[i] \in Command /\ cmd[i].key \in Key
  BY DEF PublishCommitment, TypeOK, InvKeyed, Command
<1>2. c \in Cert
  BY <1>1, CommitmentCertType
<1>3. new \in Command
  BY <1>1 DEF Command, Step
<1>4. /\ LogTypeOK' /\ cmd' \in [Identity -> Command]
      /\ \A j \in Identity : cmd'[j] = IF j = i THEN With(new, c) ELSE cmd[j]
  BY <1>2, <1>3, IssueTypes DEF PublishCommitment
<1>5. /\ With(new, c).step = "committed" /\ With(new, c).gen = cmd[i].gen
      /\ With(new, c).key = cmd[i].key /\ With(new, c).next = s
      /\ With(new, c).certs = cmd[i].certs \cup {Stamped(c)}
  BY <1>1 DEF With, Command
<1> QED BY <1>1, <1>2, <1>4, <1>5

\* One state directory rewritten.
LEMMA DirRewritten ==
    ASSUME TypeOK, NEW i \in Identity, NEW g \in Generation, NEW d \in Dir,
           dirs' = [dirs EXCEPT ![i][g] = d]
    PROVE  /\ dirs' \in [Identity -> [Generation -> Dir]]
           /\ \A j \in Identity, h \in Generation :
                  dirs'[j][h] = IF j = i /\ h = g THEN d ELSE dirs[j][h]
<1>1. [dirs[i] EXCEPT ![g] = d] \in [Generation -> Dir]
  BY DEF TypeOK
<1>2. dirs' = [dirs EXCEPT ![i] = [dirs[i] EXCEPT ![g] = d]]
  BY DEF TypeOK
<1>3. dirs' \in [Identity -> [Generation -> Dir]]
  BY <1>1, <1>2 DEF TypeOK
<1>4. ASSUME NEW j \in Identity, NEW h \in Generation
      PROVE  dirs'[j][h] = IF j = i /\ h = g THEN d ELSE dirs[j][h]
  BY <1>2 DEF TypeOK
<1> QED BY <1>3, <1>4

\* What identity i's directory holds after its command has written to it.
Copied(i) == [dirs[i][cmd[i].gen] EXCEPT !.key = cmd[i].key, !.next = cmd[i].next,
                                         !.certs = cmd[i].certs]
Documented(i) == [dirs[i][cmd[i].gen] EXCEPT !.doc = cmd[i].key]
Recorded(i) == [dirs[i][cmd[i].gen] EXCEPT !.recKey = cmd[i].key, !.recNext = cmd[i].next]

\* What writing one generation's directory changes, and that it changes no other.
LEMMA DirsWritten ==
    ASSUME TypeOK, NEW i \in Identity
    PROVE  /\ cmd[i].gen \in Generation
           /\ Copied(i) \in Dir /\ Documented(i) \in Dir /\ Recorded(i) \in Dir
           /\ CopyFiles(i) => dirs' = [dirs EXCEPT ![i][cmd[i].gen] = Copied(i)]
           /\ WriteDocument(i) => dirs' = [dirs EXCEPT ![i][cmd[i].gen] = Documented(i)]
           /\ WriteRecord(i) => dirs' = [dirs EXCEPT ![i][cmd[i].gen] = Recorded(i)]
<1>1. /\ cmd[i].gen \in Generation
      /\ cmd[i].key \in Key \cup {NoKey} /\ cmd[i].next \in Key \cup {NoKey}
      /\ cmd[i].certs \in SUBSET Cert
  BY DEF TypeOK, Command
<1>2. dirs[i][cmd[i].gen] \in Dir
  BY <1>1 DEF TypeOK
<1>3. Copied(i) \in Dir
  BY <1>1, <1>2 DEF Copied, Dir
<1>4. Documented(i) \in Dir
  BY <1>1, <1>2 DEF Documented, Dir
<1>5. Recorded(i) \in Dir
  BY <1>1, <1>2 DEF Recorded, Dir
<1>6. CopyFiles(i) => dirs' = [dirs EXCEPT ![i][cmd[i].gen] = Copied(i)]
  BY <1>1 DEF CopyFiles, Copied, TypeOK
<1>7. WriteDocument(i) => dirs' = [dirs EXCEPT ![i][cmd[i].gen] = Documented(i)]
  BY <1>1 DEF WriteDocument, Documented, TypeOK
<1>8. WriteRecord(i) => dirs' = [dirs EXCEPT ![i][cmd[i].gen] = Recorded(i)]
  BY <1>1 DEF WriteRecord, Recorded, TypeOK
<1> QED BY <1>1, <1>3, <1>4, <1>5, <1>6, <1>7, <1>8

\* What identity i's command becomes.
LEMMA CommandMoves ==
    ASSUME TypeOK, NEW i \in Identity, NEW step \in Step,
           cmd' = [cmd EXCEPT ![i].step = step]
    PROVE  /\ cmd' \in [Identity -> Command]
           /\ \A j \in Identity : cmd'[j] = IF j = i THEN [cmd[i] EXCEPT !.step = step]
                                              ELSE cmd[j]
<1>1. cmd' = [cmd EXCEPT ![i] = [cmd[i] EXCEPT !.step = step]]
  BY DEF TypeOK
<1>2. [cmd[i] EXCEPT !.step = step] \in Command
  BY DEF TypeOK, Command
<1> QED BY <1>1, <1>2 DEF TypeOK

\* Copying the files keeps the types of the commands and the directories.
LEMMA CopyTypes ==
    ASSUME TypeOK, NEW i \in Identity, CopyFiles(i)
    PROVE  dirs' \in [Identity -> [Generation -> Dir]] /\ cmd' \in [Identity -> Command]
<1>1. "copied" \in Step
  BY DEF Step
<1>2. cmd' \in [Identity -> Command]
  BY <1>1, CommandMoves DEF CopyFiles
<1>3. dirs' \in [Identity -> [Generation -> Dir]]
  BY DirsWritten, DirRewritten
<1> QED BY <1>2, <1>3

\* Every step preserves the type invariant.
LEMMA TypeStep ==
    ASSUME TypeOK, InvKeyed, Next
    PROVE  TypeOK'
<1> USE DEF TypeOK
<1>1. ASSUME NEW i \in Identity, NEW a \in Addr, NEW k \in Key, SealIssue(i, a, k)
      PROVE  TypeOK'
  <2>1. LogTypeOK' /\ cmd' \in [Identity -> Command]
    BY <1>1, SealIssueEffect
  <2> QED BY <1>1, <2>1 DEF SealIssue
<1>2. ASSUME NEW i \in Identity, NEW day \in 0..LastDay, SealCopy(i, day)
      PROVE  TypeOK'
  <2>1. dirs' \in [Identity -> [Generation -> Dir]] /\ cmd' \in [Identity -> Command]
    BY <1>2, CopyTypes DEF SealCopy
  <2>2. ruuid' \in [Identity -> Ruuid]
    BY <1>2, BoundAssumption DEF SealCopy, Ruuid, Command, Cert
  <2> QED BY <1>2, <2>1, <2>2 DEF SealCopy, CopyFiles, LogTypeOK
<1>3. ASSUME NEW i \in Identity, NEW g \in Generation, RotateBegin(i, g)
      PROVE  TypeOK'
  <2>1. dirs[i][g].next \in Key \cup {NoKey} /\ g + 1 \in Generation
    BY <1>3 DEF RotateBegin, Dir
  <2>2. [Idle EXCEPT !.step = "issued", !.gen = g + 1, !.key = dirs[i][g].next] \in Command
    BY <2>1, IdleType DEF Command, Step
  <2> QED BY <1>3, <2>2 DEF RotateBegin, LogTypeOK
<1>4. ASSUME NEW i \in Identity, RotateCopy(i)
      PROVE  TypeOK'
  BY <1>4, CopyTypes DEF RotateCopy, CopyFiles, LogTypeOK
<1>5. ASSUME NEW i \in Identity, NEW s \in Key, PublishCommitment(i, s)
      PROVE  TypeOK'
  <2>1. LogTypeOK' /\ cmd' \in [Identity -> Command]
    BY <1>5, PublishEffect
  <2> QED BY <1>5, <2>1 DEF PublishCommitment
<1>6. ASSUME NEW i \in Identity, WriteDocument(i)
      PROVE  TypeOK'
  <2>1. "documented" \in Step
    BY DEF Step
  <2>2. cmd' \in [Identity -> Command]
    BY <1>6, <2>1, CommandMoves DEF WriteDocument
  <2>3. dirs' \in [Identity -> [Generation -> Dir]]
    <3>1. Documented(i) \in Dir /\ cmd[i].gen \in Generation
          /\ dirs' = [dirs EXCEPT ![i][cmd[i].gen] = Documented(i)]
      BY <1>6, DirsWritten
    <3> QED BY <3>1, DirRewritten
  <2> QED BY <1>6, <2>2, <2>3 DEF WriteDocument, LogTypeOK
<1>7. ASSUME NEW i \in Identity, WriteRecord(i)
      PROVE  TypeOK'
  <2>2. dirs' \in [Identity -> [Generation -> Dir]]
    <3>1. Recorded(i) \in Dir /\ cmd[i].gen \in Generation
          /\ dirs' = [dirs EXCEPT ![i][cmd[i].gen] = Recorded(i)]
      BY <1>7, DirsWritten
    <3> QED BY <3>1, DirRewritten
  <2> QED BY <1>7, <2>2, IdleType DEF WriteRecord, LogTypeOK
<1>8. ASSUME NEW i \in Identity, Fail(i)
      PROVE  TypeOK'
  BY <1>8, IdleType DEF Fail, LogTypeOK
<1>9. ASSUME NEW i \in Identity, PublishBundle(i)
      PROVE  TypeOK'
  <2>1. UNION {dirs[i][g].certs : g \in Generation} \subseteq Cert
    BY DEF Dir
  <2> QED BY <1>9, <2>1 DEF PublishBundle, LogTypeOK
<1>10. ASSUME NEW i \in Identity, NEW g \in Generation, Leak(i, g)
       PROVE  TypeOK'
  <2>1. dirs[i][g].key \in Key
    BY <1>10 DEF Leak, Dir
  <2> QED BY <1>10, <2>1 DEF Leak, LogTypeOK
<1>11. ASSUME NEW k \in Key, NEW s \in Key, OutsiderCommit(k, s)
       PROVE  TypeOK'
  <2>1. CommitmentCert(k, s) \in Cert
    BY CommitmentCertType
  <2>2. LogTypeOK'
    BY <1>11, <2>1, LogTypes DEF OutsiderCommit
  <2> QED BY <1>11, <2>2 DEF OutsiderCommit
<1>12. ASSUME Midnight
       PROVE  TypeOK'
  BY <1>12 DEF Midnight, NewDay, LogTypeOK
<1> QED
  BY <1>1, <1>2, <1>3, <1>4, <1>5, <1>6, <1>7, <1>8, <1>9, <1>10, <1>11, <1>12
  DEF Next, Seal, Rotate, Shared

\* A step that logs nothing and generates no key preserves what the invariant
\* says of keys and certificates.
LEMMA KeyedStep ==
    ASSUME TypeOK, InvKeyed, Next
    PROVE  InvKeyed'
<1> SUFFICES ASSUME NEW j \in Identity, cmd'[j].step # "idle"
             PROVE  cmd'[j].key # NoKey
  BY DEF InvKeyed
<1>1. cmd[j].step # "idle" => cmd[j].key # NoKey
  BY DEF InvKeyed
<1>2. ASSUME NEW i \in Identity, NEW a \in Addr, NEW k \in Key, SealIssue(i, a, k)
      PROVE  cmd'[j].key # NoKey
  BY <1>1, <1>2, SealIssueEffect, KeyAssumption
<1>3. ASSUME NEW i \in Identity, NEW s \in Key, PublishCommitment(i, s)
      PROVE  cmd'[j].key # NoKey
  BY <1>1, <1>3, PublishEffect, KeyAssumption
<1>4. ASSUME NEW i \in Identity, NEW step \in Step, cmd[i].step # "idle",
             cmd' = [cmd EXCEPT ![i].step = step]
      PROVE  cmd'[j].key # NoKey
  <2>1. cmd'[j] = IF j = i THEN [cmd[i] EXCEPT !.step = step] ELSE cmd[j]
    BY <1>4, CommandMoves
  <2>2. cmd[i] \in Command /\ cmd[i].key # NoKey
    BY <1>4 DEF TypeOK, InvKeyed
  <2> QED BY <1>1, <2>1, <2>2 DEF Command
<1>5. ASSUME NEW i \in Identity, NEW g \in Generation, RotateBegin(i, g)
      PROVE  cmd'[j].key # NoKey
  BY <1>1, <1>5 DEF RotateBegin, TypeOK, Idle
<1>6. ASSUME NEW i \in Identity, cmd' = [cmd EXCEPT ![i] = Idle]
      PROVE  cmd'[j].key # NoKey
  BY <1>1, <1>6, IdleType DEF TypeOK
<1>7. CASE UNCHANGED cmd
  BY <1>1, <1>7
<1>8. "copied" \in Step /\ "documented" \in Step
  BY DEF Step
<1>9. CASE \E i \in Identity : Seal(i)
  BY <1>2, <1>4, <1>8, <1>9 DEF Seal, SealCopy, CopyFiles
<1>10. CASE \E i \in Identity : Rotate(i)
  BY <1>4, <1>5, <1>8, <1>10 DEF Rotate, RotateCopy, CopyFiles
<1>11. CASE \E i \in Identity : Shared(i)
  BY <1>3, <1>4, <1>6, <1>8, <1>11 DEF Shared, WriteDocument, WriteRecord, Fail
<1> QED
  BY <1>7, <1>9, <1>10, <1>11 DEF Next, PublishBundle, Leak, OutsiderCommit, Midnight

\* Every key, certificate, command and directory has its type, at every step.
THEOREM CustodyTypeCorrect == Spec => []TypeOK
<1>1. Init => TypeOK /\ InvKeyed
  BY IdleType DEF Init, TypeOK, InvKeyed, LogInit, LogTypeOK, NoDir, Dir, Ruuid
<1>2. TypeOK /\ InvKeyed /\ [Next]_vars => TypeOK' /\ InvKeyed'
  <2>1. CASE Next
    BY <2>1, TypeStep, KeyedStep
  <2>2. CASE UNCHANGED vars
    BY <2>2 DEF vars, TypeOK, InvKeyed, LogTypeOK
  <2> QED BY <2>1, <2>2
<1> QED BY <1>1, <1>2, PTL DEF Spec

-----------------------------------------------------------------------------
(* The inductive invariant.                                                *)

\* Keys that are or were on a host are their issuers'; pinned keys have owners.
LEMMA WhoseKeys ==
    ASSUME IInv, NEW k \in Key
    PROVE  /\ Exposed(k) => owner[k] \in Identity
           /\ Pinned(k) => owner[k] # Nobody
<1>1. Exposed(k) => owner[k] \in Identity
  BY KeyAssumption DEF IInv, InvLeaked, InvDirs, DirOK, Exposed
<1>2. Pinned(k) => owner[k] # Nobody
  BY KeyAssumption DEF IInv, InvGenerated, Pinned
<1> QED BY <1>1, <1>2

\* A step that logs c, by whoever, and writes to no directory.
LEMMA LoggingKeeps ==
    ASSUME IInv, NEW c \in Cert, Log(c), OwnersStay, UNCHANGED <<dirs, leaked>>,
           owner'[c.key] # Nobody, c.succ # NoKey => owner'[c.succ] # Nobody,
           c.succ # NoKey => owner[c.succ] \notin Identity
    PROVE  /\ InvLeaked' /\ InvDirs' /\ InvExposed'
           /\ \A i \in Identity : cmd'[i] = cmd[i] => CommandOK(i)'
<1>1. /\ \A k \in Key : owner[k] # Nobody /\ Committed(k) => Committed(k)'
      /\ \A k \in Key : Pinned(k) => Pinned(k)'
      /\ \A k \in Key : Pinned(k)' => Pinned(k) \/ k = c.succ
  BY LoggingStep
<1>2. \A k \in Key : owner[k] \in Identity => owner'[k] = owner[k]
  BY OwnerAssumption DEF OwnersStay
<1>3. \A k \in Key : Exposed(k)' <=> Exposed(k)
  BY DEF Exposed
<1>4. leaked \subseteq Key
  BY DEF IInv, TypeOK
<1>5. InvLeaked'
  BY <1>2, <1>4 DEF IInv, InvLeaked
<1>6. ASSUME NEW i \in Identity, NEW g \in Generation
      PROVE  DirOK(i, g)'
  <2>1. /\ dirs[i][g].key \in Key \cup {NoKey} /\ dirs[i][g].next \in Key \cup {NoKey}
        /\ dirs[i][g].recKey \in Key \cup {NoKey}
    BY DEF IInv, TypeOK, Dir
  <2>2. i # Nobody /\ DirOK(i, g)
    BY OwnerAssumption DEF IInv, InvDirs
  <2> QED BY <1>1, <1>2, <2>1, <2>2 DEF DirOK
<1>7. ASSUME NEW k \in Key, Exposed(k)', Pinned(k)'
      PROVE  Committed(k)'
  <2>1. Exposed(k) /\ owner[k] \in Identity /\ owner[k] # Nobody
    BY <1>3, <1>7, WhoseKeys, OwnerAssumption
  <2>2. Pinned(k)
    BY <1>1, <1>7, <2>1, KeyAssumption
  <2> QED BY <1>1, <2>1, <2>2 DEF IInv, InvExposed
<1>8. ASSUME NEW i \in Identity, cmd'[i] = cmd[i]
      PROVE  CommandOK(i)'
  <2>1. cmd[i].key \in Key \cup {NoKey} /\ cmd[i].next \in Key \cup {NoKey}
    BY DEF IInv, TypeOK, Command
  <2>2. i # Nobody /\ CommandOK(i)
    BY OwnerAssumption DEF IInv, InvCommand
  <2>3. \A k \in Key : owner[k] = i /\ ~Pinned(k) => ~Pinned(k)'
    BY <1>1, KeyAssumption
  <2> QED BY <1>1, <1>2, <1>3, <1>8, <2>1, <2>2, <2>3 DEF CommandOK
<1> QED BY <1>5, <1>6, <1>7, <1>8 DEF InvDirs, InvExposed

\* A genesis key issued by seal preserves the invariant.
LEMMA SealIssueStep ==
    ASSUME IInv, NEW i \in Identity, NEW a \in Addr, NEW k \in Key, SealIssue(i, a, k),
           TypeOK'
    PROVE  IInv'
<1> DEFINE c == IpCert(k, a, today, today + Window)
<1>1. c \in Cert /\ c.key = k /\ c.succ = NoKey /\ Log(c)
  <2>1. today \in Nat /\ today + Window \in Nat
    BY BoundAssumption DEF IInv, TypeOK, LogTypeOK
  <2> QED BY <2>1, IpCertType DEF SealIssue, Issue
<1> HIDE DEF c
<1>2. /\ owner[k] = Nobody /\ owner' = [owner EXCEPT ![k] = i]
      /\ UNCHANGED <<dirs, leaked>> /\ i # Nobody
  BY OwnerAssumption DEF SealIssue
<1>3. OwnersStay /\ owner'[k] = i
  BY <1>2 DEF OwnersStay, IInv, TypeOK
<1>4. LogSound' /\ InvGenerated'
  BY <1>1, <1>2, <1>3, LoggingStep
<1>5. InvLeaked' /\ InvDirs' /\ InvExposed'
  BY <1>1, <1>2, <1>3, LoggingKeeps
<1>6. NoForkTakesHold'
  BY <1>1, <1>2, <1>3, NoForkStep
<1>7. InvOutsider'
  <2>1. ct' = ct \cup {Stamped(c)} /\ Stamped(c).succ = NoKey
    BY <1>1, StampedType DEF Log, Stamped, IInv
  <2>2. \A x \in ct : x.succ # NoKey => /\ x.key \in Key /\ owner'[x.key] = owner[x.key]
                                        /\ x.succ \in Key /\ owner'[x.succ] = owner[x.succ]
    BY <1>3 DEF IInv, InvGenerated, OwnersStay, TypeOK, LogTypeOK, Cert
  <2> QED BY <1>2, <2>1, <2>2 DEF IInv, InvOutsider
<1>8. InvCommand'
  <2>1. ~Exposed(k)' /\ ~Pinned(k)'
    <3>1. ~Exposed(k) /\ ~Pinned(k)
      BY <1>2, WhoseKeys, OwnerAssumption
    <3>2. Exposed(k)' <=> Exposed(k)
      BY <1>2 DEF Exposed
    <3>3. \A x \in Key : Pinned(x)' => Pinned(x) \/ x = NoKey
      BY <1>1, <1>2, <1>3, LoggingStep
    <3> QED BY <3>1, <3>2, <3>3, KeyAssumption
  <2>2. CommandOK(i)'
    <3>1. /\ cmd'[i].step = "issued" /\ cmd'[i].gen = 0
          /\ cmd'[i].key = k /\ cmd'[i].next = NoKey
      BY SealIssueEffect DEF IInv
    <3> QED BY <1>3, <2>1, <3>1, KeyAssumption DEF CommandOK
  <2>3. \A j \in Identity \ {i} : CommandOK(j)'
    BY <1>1, <1>2, <1>3, LoggingKeeps, SealIssueEffect DEF IInv
  <2> QED BY <2>2, <2>3 DEF InvCommand
<1> QED BY <1>4, <1>5, <1>6, <1>7, <1>8 DEF IInv

\* A commitment published by seal or rotate preserves the invariant: a key that
\* is not exposed has nothing committed under it, and an exposed pinned key has its
\* owner's commitment already.
LEMMA PublishStep ==
    ASSUME IInv, NEW i \in Identity, NEW s \in Key, PublishCommitment(i, s), TypeOK'
    PROVE  IInv'
<1> DEFINE k == cmd[i].key
           c == CommitmentCert(k, s)
<1>1. InvKeyed
  BY DEF IInv, InvCommand, CommandOK, InvKeyed
<1>2. /\ cmd[i].step = "issued" /\ k \in Key /\ c \in Cert
      /\ \A j \in Identity \ {i} : cmd'[j] = cmd[j]
      /\ cmd'[i].step = "committed" /\ cmd'[i].key = k /\ cmd'[i].next = s
  BY <1>1, PublishEffect DEF IInv
<1>3. c.key = k /\ c.succ = s /\ s # NoKey /\ k # NoKey /\ Log(c)
  BY <1>2, CommitmentCertType, KeyAssumption DEF PublishCommitment, Issue
<1>4. /\ owner[s] = Nobody /\ owner' = [owner EXCEPT ![s] = i]
      /\ UNCHANGED <<dirs, leaked>> /\ i # Nobody /\ Nobody \notin Identity
  BY OwnerAssumption DEF PublishCommitment
<1>5. owner[k] = i /\ CommandOK(i)
  BY <1>2, <1>3 DEF IInv, InvCommand, CommandOK
<1>6. OwnersStay /\ owner'[s] = i /\ owner'[k] = i
  BY <1>2, <1>4, <1>5 DEF OwnersStay, IInv, TypeOK
<1> HIDE DEF c
<1>7. /\ LogSound' /\ InvGenerated'
      /\ \A x \in Key : Pinned(x)' => Pinned(x) \/ x = s
  BY <1>2, <1>3, <1>4, <1>6, LoggingStep
<1>8. InvLeaked' /\ InvDirs' /\ InvExposed'
  BY <1>2, <1>3, <1>4, <1>6, LoggingKeeps
<1>9. ct' = ct \cup {Stamped(c)} /\ Stamped(c).key = k /\ Stamped(c).succ = s
  BY <1>2, <1>3, StampedType DEF Log, Stamped, IInv
<1>10. Committed(k) \/ Commitments(k, ct) = {}
  <2>1. k \in leaked => Committed(k)
    <3>1. k \in leaked => Exposed(k)
      BY DEF Exposed
    <3>2. k \in leaked => cmd[i].gen # 0 /\ cmd[i].gen \in Nat
      BY <1>2, <1>5, <3>1, BoundAssumption DEF CommandOK, IInv, TypeOK, Command, Generation
    <3>3. k \in leaked => Pinned(k)
      BY <1>2, <1>5, <3>2 DEF CommandOK
    <3> QED BY <1>2, <3>1, <3>3 DEF IInv, InvExposed
  <2>2. \A x \in Commitments(k, ct) : owner[x.succ] = i \/ k \in leaked
    BY <1>5 DEF IInv, InvOutsider, Commitments
  <2> QED BY <1>5, <2>1, <2>2 DEF Committed
<1>11. NoForkTakesHold'
  BY <1>2, <1>3, <1>6, <1>10, NoForkStep
<1>12. InvOutsider'
  <2>1. \A x \in ct : x.succ # NoKey => /\ x.key \in Key /\ owner'[x.key] = owner[x.key]
                                        /\ x.succ \in Key /\ owner'[x.succ] = owner[x.succ]
    BY <1>6 DEF IInv, InvGenerated, OwnersStay, TypeOK, LogTypeOK, Cert
  <2> QED BY <1>4, <1>6, <1>9, <2>1 DEF IInv, InvOutsider
<1>13. InvCommand'
  <2>1. Committed(k)'
    <3>1. Stamped(c) \in Commitments(k, ct')
      BY <1>3, <1>9 DEF Commitments
    <3> QED BY <1>2, <1>6, <1>9, <3>1 DEF Committed
  <2>2. Pinned(s)'
    BY <1>9 DEF Pinned
  <2>3. CommandOK(i)'
    BY <1>2, <1>3, <1>6, <2>1, <2>2 DEF CommandOK
  <2>4. \A j \in Identity \ {i} : CommandOK(j)'
    BY <1>2, <1>3, <1>4, <1>6, LoggingKeeps
  <2> QED BY <2>3, <2>4 DEF InvCommand
<1> QED BY <1>7, <1>8, <1>11, <1>12, <1>13 DEF IInv

\* A commitment by whoever holds a leaked key preserves the invariant: a leaked
\* key was committed before it leaked, and the earliest commitment wins.
LEMMA OutsiderStep ==
    ASSUME IInv, NEW k \in Key, NEW s \in Key, OutsiderCommit(k, s), TypeOK'
    PROVE  IInv'
<1> DEFINE c == CommitmentCert(k, s)
<1>1. /\ c \in Cert /\ c.key = k /\ c.succ = s /\ s # NoKey /\ Log(c)
  BY CommitmentCertType, KeyAssumption DEF OutsiderCommit
<1> HIDE DEF c
<1>2. /\ owner[s] \in {Nobody, Outsider} /\ owner' = [owner EXCEPT ![s] = Outsider]
      /\ UNCHANGED <<dirs, leaked, cmd>>
      /\ Outsider # Nobody /\ Outsider \notin Identity /\ Nobody \notin Identity
      /\ k \in leaked \/ owner[k] = Outsider
  BY OwnerAssumption DEF OutsiderCommit
<1>3. OwnersStay /\ owner'[s] = Outsider
  BY <1>2 DEF OwnersStay, IInv, TypeOK
<1>4. owner'[k] # Nobody /\ (owner'[k] \in Identity => k \in leaked)
  BY <1>2, <1>3 DEF OwnersStay, IInv, InvLeaked
<1>5. LogSound' /\ InvGenerated'
  BY <1>1, <1>2, <1>3, <1>4, LoggingStep
<1>6. InvLeaked' /\ InvDirs' /\ InvExposed' /\ \A j \in Identity : CommandOK(j)'
  BY <1>1, <1>2, <1>3, <1>4, LoggingKeeps
<1>7. NoForkTakesHold'
  BY <1>1, <1>2, <1>3, NoForkStep
<1>8. InvOutsider'
  <2>1. ct' = ct \cup {Stamped(c)} /\ Stamped(c).key = k /\ Stamped(c).succ = s
    BY <1>1, StampedType DEF Log, Stamped, IInv
  <2>2. \A x \in ct : x.succ # NoKey => /\ x.key \in Key /\ owner'[x.key] = owner[x.key]
                                        /\ x.succ \in Key /\ owner'[x.succ] = owner[x.succ]
    BY <1>3 DEF IInv, InvGenerated, OwnersStay, TypeOK, LogTypeOK, Cert
  <2> QED BY <1>2, <1>4, <2>1, <2>2 DEF IInv, InvOutsider
<1> QED BY <1>5, <1>6, <1>7, <1>8 DEF IInv, InvCommand

\* Copying the files of seal and rotate preserves the invariant.
LEMMA CopyStep ==
    ASSUME IInv, NEW i \in Identity, CopyFiles(i), TypeOK',
           cmd[i].step = "committed" \/ (cmd[i].step = "issued" /\ cmd[i].gen = 0)
    PROVE  IInv'
<1>1. UNCHANGED <<ct, logged, owner, leaked>> /\ today' \in Nat
  BY DEF CopyFiles, IInv, TypeOK, LogTypeOK
<1>2. /\ \A j \in Identity \ {i} : cmd'[j] = cmd[j]
      /\ cmd'[i].step = "copied" /\ cmd'[i].key = cmd[i].key /\ cmd'[i].next = cmd[i].next
  <2>1. "copied" \in Step /\ cmd[i] \in Command
    BY DEF Step, IInv, TypeOK
  <2> QED BY <2>1, CommandMoves DEF CopyFiles, IInv, Command
<1>3. \A j \in Identity, g \in Generation :
          dirs'[j][g] = IF j = i /\ g = cmd[i].gen THEN Copied(i) ELSE dirs[j][g]
  <2>1. /\ cmd[i].gen \in Generation /\ Copied(i) \in Dir
        /\ dirs' = [dirs EXCEPT ![i][cmd[i].gen] = Copied(i)]
    BY DirsWritten DEF IInv
  <2> QED BY <2>1, DirRewritten DEF IInv
<1>4. /\ cmd[i].gen \in Generation
      /\ Copied(i).key = cmd[i].key /\ Copied(i).next = cmd[i].next
      /\ Copied(i).recKey = dirs[i][cmd[i].gen].recKey
      /\ Copied(i).recNext = dirs[i][cmd[i].gen].recNext
  BY DEF Copied, IInv, TypeOK, Command, Dir
<1>5. /\ LogSound' /\ InvGenerated' /\ InvOutsider' /\ NoForkTakesHold'
      /\ \A k : Committed(k)' <=> Committed(k)
      /\ \A k : Pinned(k)' <=> Pinned(k)
  BY <1>1, QuietStep
<1>6. CommandOK(i) /\ cmd[i].key # NoKey /\ owner[cmd[i].key] = i
  BY DEF IInv, InvCommand, CommandOK
<1>7. \A k : Exposed(k)' => Exposed(k) \/ k = cmd[i].key
  BY <1>1, <1>3, <1>4 DEF Exposed
<1>8. InvDirs'
  <2> SUFFICES ASSUME NEW j \in Identity, NEW g \in Generation
               PROVE  DirOK(j, g)'
    BY DEF InvDirs
  <2>1. DirOK(j, g)
    BY DEF IInv, InvDirs
  <2>2. CASE j = i /\ g = cmd[i].gen
    BY <1>1, <1>3, <1>4, <1>5, <1>6, <2>1, <2>2 DEF DirOK, CommandOK
  <2>3. CASE ~(j = i /\ g = cmd[i].gen)
    BY <1>1, <1>3, <1>5, <2>1, <2>3 DEF DirOK
  <2> QED BY <2>2, <2>3
<1>9. InvCommand'
  <2>1. CommandOK(i)'
    BY <1>1, <1>2, <1>5, <1>6 DEF CommandOK
  <2>2. ASSUME NEW j \in Identity \ {i}
        PROVE  CommandOK(j)'
    <3>1. CommandOK(j)
      BY DEF IInv, InvCommand
    <3>2. cmd'[j] = cmd[j]
      BY <1>2
    <3>3. cmd[j].step = "issued" => cmd[j].key # cmd[i].key
      BY <1>6, <3>1 DEF CommandOK
    <3> QED BY <1>1, <1>5, <1>7, <3>1, <3>2, <3>3 DEF CommandOK
  <2> QED BY <2>1, <2>2 DEF InvCommand
<1>10. InvExposed'
  <2>1. Pinned(cmd[i].key) => Committed(cmd[i].key)
    BY <1>6 DEF CommandOK
  <2> QED BY <1>5, <1>7, <2>1 DEF IInv, InvExposed
<1>11. InvLeaked'
  BY <1>1 DEF IInv, InvLeaked
<1> QED BY <1>5, <1>8, <1>9, <1>10, <1>11 DEF IInv

\* A step that changes neither CT nor owners, and no key on a host, and leaves
\* identity i with a command and a directory that are in order.
LEMMA TidyStep ==
    ASSUME IInv, NEW i \in Identity, TypeOK', UNCHANGED <<ct, logged, owner, leaked>>,
           \A j \in Identity \ {i} : cmd'[j] = cmd[j],
           \A j \in Identity, g \in Generation :
               dirs'[j][g].key = dirs[j][g].key /\ dirs'[j][g].next = dirs[j][g].next,
           \A j \in Identity, g \in Generation :
               \/ /\ dirs'[j][g].recKey = dirs[j][g].recKey
                  /\ dirs'[j][g].recNext = dirs[j][g].recNext
               \/ /\ dirs'[j][g].recKey = cmd[i].key
                  /\ dirs'[j][g].recNext = cmd[i].next
                  /\ i = j,
           CommandOK(i)'
    PROVE  IInv'
<1>1. /\ LogSound' /\ InvGenerated' /\ InvOutsider' /\ NoForkTakesHold'
      /\ \A k : Committed(k)' <=> Committed(k)
      /\ \A k : Pinned(k)' <=> Pinned(k)
  <2>1. today' \in Nat
    BY DEF TypeOK, LogTypeOK
  <2> QED BY <2>1, QuietStep
<1>2. \A k : Exposed(k)' <=> Exposed(k)
  BY DEF Exposed
<1>3. InvCommand'
  <2>1. ASSUME NEW j \in Identity \ {i}
        PROVE  CommandOK(j)'
    <3>1. CommandOK(j) /\ cmd'[j] = cmd[j]
      BY DEF IInv, InvCommand
    <3> QED BY <1>1, <1>2, <3>1 DEF CommandOK
  <2> QED BY <2>1 DEF InvCommand
<1>4. InvDirs'
  <2> SUFFICES ASSUME NEW j \in Identity, NEW g \in Generation
               PROVE  DirOK(j, g)'
    BY DEF InvDirs
  <2>1. DirOK(j, g) /\ CommandOK(i)
    BY DEF IInv, InvDirs, InvCommand
  <2> QED BY <1>1, <2>1 DEF DirOK, CommandOK
<1>5. InvExposed'
  BY <1>1, <1>2 DEF IInv, InvExposed
<1>6. InvLeaked'
  BY DEF IInv, InvLeaked
<1> QED BY <1>1, <1>3, <1>4, <1>5, <1>6 DEF IInv

\* A leak preserves the invariant: the key that leaks was on a host already.
LEMMA LeakStep ==
    ASSUME IInv, NEW i \in Identity, NEW g \in Generation, Leak(i, g), TypeOK'
    PROVE  IInv'
<1>1. /\ UNCHANGED <<ct, logged, today, owner, cmd, dirs>>
      /\ dirs[i][g].key # NoKey /\ leaked' = leaked \cup {dirs[i][g].key}
  BY DEF Leak
<1>2. /\ LogSound' /\ InvGenerated' /\ InvOutsider' /\ NoForkTakesHold'
      /\ \A k : Committed(k)' <=> Committed(k)
      /\ \A k : Pinned(k)' <=> Pinned(k)
  BY <1>1, QuietStep DEF IInv, TypeOK, LogTypeOK
<1>3. \A k : Exposed(k)' <=> Exposed(k)
  BY <1>1 DEF Exposed
<1>4. InvLeaked'
  BY <1>1 DEF IInv, InvLeaked, InvDirs, DirOK
<1>5. InvCommand'
  <2>1. ASSUME NEW j \in Identity
        PROVE  CommandOK(j)'
    <3>1. CommandOK(j)
      BY DEF IInv, InvCommand
    <3> QED BY <1>1, <1>2, <1>3, <3>1 DEF CommandOK
  <2> QED BY <2>1 DEF InvCommand
<1>6. InvDirs'
  <2>1. ASSUME NEW j \in Identity, NEW h \in Generation
        PROVE  DirOK(j, h)'
    <3>1. DirOK(j, h)
      BY DEF IInv, InvDirs
    <3> QED BY <1>1, <1>2, <3>1 DEF DirOK
  <2> QED BY <2>1 DEF InvDirs
<1>7. InvExposed'
  BY <1>2, <1>3 DEF IInv, InvExposed
<1> QED BY <1>2, <1>4, <1>5, <1>6, <1>7 DEF IInv

\* A step of publication or time alone preserves the invariant.
LEMMA StillStep ==
    ASSUME IInv, TypeOK', UNCHANGED <<ct, logged, owner, leaked, dirs, cmd>>
    PROVE  IInv'
<1>1. /\ LogSound' /\ InvGenerated' /\ InvOutsider' /\ NoForkTakesHold'
      /\ \A k : Committed(k)' <=> Committed(k)
      /\ \A k : Pinned(k)' <=> Pinned(k)
  <2>1. today' \in Nat
    BY DEF TypeOK, LogTypeOK
  <2> QED BY <2>1, QuietStep
<1>2. \A k : Exposed(k)' <=> Exposed(k)
  BY DEF Exposed
<1>3. InvCommand'
  BY <1>1, <1>2 DEF IInv, InvCommand, CommandOK
<1>4. InvDirs'
  BY <1>1 DEF IInv, InvDirs, DirOK
<1>5. InvExposed' /\ InvLeaked'
  BY <1>1, <1>2 DEF IInv, InvExposed, InvLeaked
<1> QED BY <1>1, <1>3, <1>4, <1>5 DEF IInv

\* Every step preserves the invariant.
LEMMA InvStep ==
    ASSUME IInv, Next
    PROVE  IInv'
<1>1. TypeOK /\ InvKeyed
  BY DEF IInv, InvCommand, CommandOK, InvKeyed
<1>2. TypeOK'
  BY <1>1, TypeStep
<1>3. ASSUME NEW i \in Identity, Seal(i)
      PROVE  IInv'
  BY <1>2, <1>3, SealIssueStep, CopyStep DEF Seal, SealCopy
<1>4. ASSUME NEW i \in Identity, RotateCopy(i)
      PROVE  IInv'
  <2>1. CopyFiles(i)
    BY <1>4 DEF RotateCopy
  <2>2. cmd[i].step = "committed" \/ (cmd[i].step = "issued" /\ cmd[i].gen = 0)
    BY <1>4 DEF RotateCopy
  <2> QED BY <1>2, <2>1, <2>2, CopyStep
<1>5. ASSUME NEW i \in Identity, NEW g \in Generation, RotateBegin(i, g)
      PROVE  IInv'
  <2>1. DirOK(i, g) /\ dirs[i][g].next # NoKey
    BY <1>5 DEF IInv, InvDirs, RotateBegin
  <2>2. /\ cmd'[i].step = "issued" /\ cmd'[i].gen = g + 1
        /\ cmd'[i].key = dirs[i][g].next /\ cmd'[i].next = NoKey
    BY <1>5 DEF RotateBegin, Idle, IInv, TypeOK
  <2>3. g \in Nat /\ g + 1 # 0
    BY BoundAssumption DEF Generation
  <2>4. /\ UNCHANGED <<ct, logged, owner, dirs, leaked>>
        /\ \A j \in Identity \ {i} : cmd'[j] = cmd[j]
    BY <1>5 DEF RotateBegin, IInv, TypeOK
  <2>5. CommandOK(i)'
    BY <2>1, <2>2, <2>3, <2>4 DEF CommandOK, DirOK, Pinned
  <2> QED BY <1>2, <2>4, <2>5, TidyStep
<1>6. ASSUME NEW i \in Identity, NEW s \in Key, PublishCommitment(i, s)
      PROVE  IInv'
  BY <1>2, <1>6, PublishStep
<1>7. ASSUME NEW i \in Identity, WriteDocument(i)
      PROVE  IInv'
  <2>1. /\ UNCHANGED <<ct, logged, owner, leaked>>
        /\ cmd' = [cmd EXCEPT ![i].step = "documented"]
    BY <1>7 DEF WriteDocument
  <2>2. "documented" \in Step /\ cmd[i] \in Command
    BY DEF Step, IInv, TypeOK
  <2>3. /\ \A j \in Identity \ {i} : cmd'[j] = cmd[j]
        /\ cmd'[i].step = "documented" /\ cmd'[i].key = cmd[i].key
        /\ cmd'[i].next = cmd[i].next
    BY <2>1, <2>2, CommandMoves DEF IInv, Command
  <2>4. cmd[i].step # "idle" /\ CommandOK(i)
    BY <1>7 DEF WriteDocument, IInv, InvCommand
  <2>5. CommandOK(i)'
    BY <2>1, <2>3, <2>4 DEF CommandOK, Committed, Commitments, Pinned
  <2>6. \A j \in Identity, g \in Generation :
            dirs'[j][g] = IF j = i /\ g = cmd[i].gen THEN Documented(i) ELSE dirs[j][g]
    <3>1. /\ cmd[i].gen \in Generation /\ Documented(i) \in Dir
          /\ dirs' = [dirs EXCEPT ![i][cmd[i].gen] = Documented(i)]
      BY <1>7, DirsWritten DEF IInv
    <3> QED BY <3>1, DirRewritten DEF IInv
  <2>7. LET d == dirs[i][cmd[i].gen] IN
        /\ Documented(i).key = d.key /\ Documented(i).next = d.next
        /\ Documented(i).recKey = d.recKey /\ Documented(i).recNext = d.recNext
    BY DEF Documented, IInv, TypeOK, Command, Dir
  <2> QED BY <1>2, <2>1, <2>3, <2>5, <2>6, <2>7, TidyStep
<1>8. ASSUME NEW i \in Identity, WriteRecord(i)
      PROVE  IInv'
  <2>1. UNCHANGED <<ct, logged, owner, leaked>> /\ cmd' = [cmd EXCEPT ![i] = Idle]
    BY <1>8 DEF WriteRecord
  <2>2. (\A j \in Identity \ {i} : cmd'[j] = cmd[j]) /\ CommandOK(i)'
    BY <2>1, IdleType DEF CommandOK, IInv, TypeOK, Idle
  <2>3. \A j \in Identity, g \in Generation :
            dirs'[j][g] = IF j = i /\ g = cmd[i].gen THEN Recorded(i) ELSE dirs[j][g]
    <3>1. /\ cmd[i].gen \in Generation /\ Recorded(i) \in Dir
          /\ dirs' = [dirs EXCEPT ![i][cmd[i].gen] = Recorded(i)]
      BY <1>8, DirsWritten DEF IInv
    <3> QED BY <3>1, DirRewritten DEF IInv
  <2>4. LET d == dirs[i][cmd[i].gen] IN
        /\ Recorded(i).key = d.key /\ Recorded(i).next = d.next
        /\ Recorded(i).recKey = cmd[i].key /\ Recorded(i).recNext = cmd[i].next
    BY DEF Recorded, IInv, TypeOK, Command, Dir
  <2> QED BY <1>2, <2>1, <2>2, <2>3, <2>4, TidyStep
<1>9. ASSUME NEW i \in Identity, Fail(i)
      PROVE  IInv'
  <2>1. UNCHANGED <<ct, logged, owner, leaked, dirs>> /\ cmd' = [cmd EXCEPT ![i] = Idle]
    BY <1>9 DEF Fail
  <2>2. (\A j \in Identity \ {i} : cmd'[j] = cmd[j]) /\ CommandOK(i)'
    BY <2>1, IdleType DEF CommandOK, IInv, TypeOK, Idle
  <2> QED BY <1>2, <2>1, <2>2, TidyStep
<1>10. ASSUME NEW i \in Identity, NEW g \in Generation, Leak(i, g)
       PROVE  IInv'
  BY <1>2, <1>10, LeakStep
<1>11. ASSUME NEW k \in Key, NEW s \in Key, OutsiderCommit(k, s)
       PROVE  IInv'
  BY <1>2, <1>11, OutsiderStep
<1>12. ASSUME UNCHANGED <<ct, logged, owner, leaked, dirs, cmd>>
       PROVE  IInv'
  BY <1>2, <1>12, StillStep
<1> QED
  BY <1>3, <1>4, <1>5, <1>6, <1>7, <1>8, <1>9, <1>10, <1>11, <1>12
  DEF Next, Rotate, Shared, PublishBundle, Midnight, NewDay

\* The invariant holds initially.
LEMMA InvInit == Init => IInv
<1> SUFFICES ASSUME Init PROVE IInv
  OBVIOUS
<1>1. LogSound /\ ct = {}
  BY EmptyLog DEF Init, LogInit
<1>2. TypeOK
  BY IdleType DEF Init, TypeOK, LogInit, LogTypeOK, NoDir, Dir, Ruuid
<1>3. InvGenerated /\ InvOutsider /\ InvLeaked
  BY <1>1 DEF Init, InvGenerated, InvOutsider, InvLeaked
<1>4. InvCommand
  BY IdleType DEF Init, InvCommand, CommandOK
<1>5. InvDirs
  BY DEF Init, InvDirs, DirOK, NoDir
<1>6. InvExposed
  BY <1>1 DEF InvExposed, Pinned
<1>7. NoForkTakesHold
  BY <1>1 DEF NoForkTakesHold, Committed, Commitments
<1> QED BY <1>1, <1>2, <1>3, <1>4, <1>5, <1>6, <1>7 DEF IInv

\* The inductive invariant holds of every behaviour.
LEMMA Invariance == Spec => []IInv
<1>1. IInv /\ [Next]_vars => IInv'
  <2> SUFFICES ASSUME IInv, [Next]_vars PROVE IInv'
    OBVIOUS
  <2>1. CASE Next
    BY <2>1, InvStep
  <2>2. CASE UNCHANGED vars
    <3>1. TypeOK'
      BY <2>2 DEF vars, IInv, TypeOK, LogTypeOK
    <3> QED BY <2>2, <3>1, StillStep DEF vars
  <2> QED BY <2>1, <2>2
<1> QED BY <1>1, InvInit, PTL DEF Spec

-----------------------------------------------------------------------------
(* What it gives.                                                          *)

\* The choice of successor an owner has published stands, whoever holds the
\* key later: publication before exposure (seal, rotate) and
\* earliest-commitment-wins (_earliest_successor) together.
THEOREM NoForkEverTakesHold == Spec => []NoForkTakesHold
<1>1. IInv => NoForkTakesHold
  BY DEF IInv
<1> QED BY <1>1, Invariance, PTL

\* The keys of identity i that a chain of its own can reach.
InChain(i) == {k \in Key : owner[k] = i /\ (Pinned(k) \/ Committed(k))}

\* The keys an issuer generated, and committed to, are closed under succession.
LEMMA ChainIsClosed ==
    ASSUME IInv, NEW i \in Identity
    PROVE  Authority!Closed(InChain(i), SuccessorMap(ct))
<1> SUFFICES ASSUME NEW k \in InChain(i), EarliestSuccessor(k, ct) # NoKey
             PROVE  EarliestSuccessor(k, ct) \in InChain(i)
  BY DEF Authority!Closed, SuccessorMap, InChain
<1> DEFINE s == EarliestSuccessor(k, ct)
<1>1. k \in Key /\ owner[k] = i
  BY DEF InChain
<1>2. PICK c \in Commitments(k, ct) : s = c.succ
  BY <1>1, SuccessorInLog DEF IInv
<1>3. s \in Key
  BY <1>1, SuccessorInLog DEF IInv
<1>4. Committed(k)
  <2>1. CASE k \in leaked
    <3>1. Exposed(k)
      BY <2>1 DEF Exposed
    <3> QED BY <1>1, <3>1 DEF InChain, IInv, InvExposed
  <2>2. CASE k \notin leaked
    BY <1>1, <1>2, <2>2 DEF Committed, Commitments, IInv, InvOutsider
  <2> QED BY <2>1, <2>2
<1>5. owner[s] = i
  BY <1>1, <1>4 DEF IInv, NoForkTakesHold
<1>6. Pinned(s)
  BY <1>2 DEF Pinned, Commitments
<1> QED BY <1>3, <1>5, <1>6 DEF InChain

\* The chain of an RUUID sealed with --pre-rotate stays with its issuer, though
\* every key it has retired, and the one in use, may have leaked.
THEOREM ChainNeverLeavesIssuer == Spec => []ChainStaysWithIssuer
<1>1. IInv => ChainStaysWithIssuer
  <2> SUFFICES ASSUME IInv, NEW i \in Identity, dirs[i][0].recNext # NoKey,
                      NEW k \in Key, Descends(dirs[i][0].recKey, k)
               PROVE  owner[k] = i
    BY DEF ChainStaysWithIssuer
  <2> DEFINE g == dirs[i][0].recKey
  <2>1. 0 \in Generation
    BY BoundAssumption DEF Generation
  <2>2. g # NoKey /\ owner[g] = i /\ Committed(g)
    BY <2>1 DEF IInv, InvDirs, DirOK
  <2>3. g \in Key
    BY <2>1, <2>2 DEF IInv, TypeOK, Dir
  <2>4. g \in InChain(i) /\ InChain(i) \in SUBSET Key
    BY <2>2, <2>3 DEF InChain
  <2>5. k \in InChain(i)
    BY <2>4, ChainIsClosed DEF Descends, Authority!Descends
  <2> QED BY <2>5 DEF InChain
<1> QED BY <1>1, Invariance, PTL

\* A step logs one certificate, or none.
LEMMA StepsLog ==
    ASSUME IInv, Next
    PROVE  (\E c \in Cert : Log(c)) \/ ct' = ct
<1>1. TypeOK /\ InvKeyed
  BY DEF IInv, InvCommand, CommandOK, InvKeyed
<1>2. ASSUME NEW i \in Identity, NEW a \in Addr, NEW k \in Key, SealIssue(i, a, k)
      PROVE  \E c \in Cert : Log(c)
  BY <1>1, <1>2, SealIssueEffect DEF SealIssue, Issue
<1>3. ASSUME NEW i \in Identity, NEW s \in Key, PublishCommitment(i, s)
      PROVE  \E c \in Cert : Log(c)
  BY <1>1, <1>3, PublishEffect DEF PublishCommitment, Issue
<1>4. ASSUME NEW k \in Key, NEW s \in Key, OutsiderCommit(k, s)
      PROVE  \E c \in Cert : Log(c)
  BY <1>4, CommitmentCertType DEF OutsiderCommit
<1> QED
  BY <1>2, <1>3, <1>4
  DEF Next, Seal, SealCopy, CopyFiles, Rotate, RotateBegin, RotateCopy, Shared,
      WriteDocument, WriteRecord, Fail, PublishBundle, Leak, Midnight, NewDay

\* Whatever issuers do and outsiders log, nothing in CT takes a key out of a
\* chain of custody.
THEOREM CustodyChainsOnlyGrow == Spec => ChainsOnlyGrow
<1>1. IInv /\ [Next]_vars =>
          [\A g, d \in Key : Descends(g, d) => Descends(g, d)']_ct
  BY StepsLog, DescentAfterLog DEF IInv, vars
<1> QED BY <1>1, Invariance, PTL DEF Spec, ChainsOnlyGrow

\* The commands of seal and rotate implement the abstract promise: a key
\* endorses one successor, once and for all.
THEOREM CustodyImplementsSuccession == Spec => Authority!Spec
<1>1. Init => Authority!Init
  BY EmptyLog DEF Init
<1>2. IInv /\ [Next]_vars => [Authority!Next]_(SuccessorMap(ct))
  BY StepsLog, LogEndorses DEF IInv, vars
<1> QED BY <1>1, <1>2, Invariance, PTL DEF Spec, Authority!Spec

-----------------------------------------------------------------------------
(* Documents and bundles.                                                  *)
(*                                                                         *)
(* What an issuer holds it issued itself, of its own keys.  While nobody   *)
(* runs one rotation twice, its directories form a chain that the command  *)
(* it runs extends at its end; each of its commitments is the first of its *)
(* key, by NoForkTakesHold; so the walk follows the directories, and the   *)
(* bundle is faithful to CT.                                               *)

\* The certificates in CT that identity i issued, of its own keys.
Own(i) == {c \in ct : owner[c.key] = i /\ (c.succ # NoKey => owner[c.succ] = i)}

\* What identity i has at hand, and has published, it issued itself.
HoldsOwn(i) ==
    /\ cmd[i].certs \subseteq Own(i)
    /\ \A g \in Generation : dirs[i][g].certs \subseteq Own(i)
    /\ bundle[i] \subseteq Own(i)

\* Until seal copies its files there is nothing on disk, and from then on the
\* genesis key is the one the address had on the day the RUUID names.
Sealed(i) ==
    /\ cmd[i].step # "idle" =>
          (dirs[i][0].key = NoKey
              <=> cmd[i].gen = 0 /\ cmd[i].step \in {"issued", "committed"})
    /\ dirs[i][0].key = NoKey =>
          /\ \A g \in Generation : dirs[i][g] = NoDir
          /\ \A c \in cmd[i].certs : c.key = cmd[i].key
    /\ dirs[i][0].key # NoKey =>
          dirs[i][0].key \in GenesisKeys(ruuid[i].addr, ruuid[i].day, ct)

\* Key k is committed to s in CT.
Pins(k, s) == \E c \in Commitments(k, ct) : c.succ = s

\* Key s is in none of the directories d.
NewTo(s, d) == \A g \in Generation : s \notin {d[g].key, d[g].next}

\* The directories d form a chain: each generation's key is the successor that the
\* one before committed to, no successor is committed to twice, and a document
\* commits the key of its generation.
Linked(d) ==
    \A g \in Generation :
        /\ d[g].key = NoKey => d[g].next = NoKey /\ d[g].doc = NoKey
        /\ d[g].key # NoKey /\ g > 0 => d[g].key = d[g - 1].next /\ d[g].next # NoKey
        /\ d[g].next # NoKey => Pins(d[g].key, d[g].next)
        /\ d[g].doc \in {NoKey, d[g].key}
        /\ \A h \in Generation : d[g].next # NoKey =>
              /\ d[h].key = d[g].next => h = g + 1
              /\ d[h].next = d[g].next => h = g

\* Command c is about to extend the directories d, or has.
Extends(c, d) ==
    /\ c.step = "issued" => c.next = NoKey
    /\ c.step \in {"issued", "committed"} /\ c.gen > 0 => c.key = d[c.gen - 1].next
    /\ c.step = "committed" => Pins(c.key, c.next) /\ c.next # c.key /\ NewTo(c.next, d)
    /\ c.step \in {"copied", "documented"} => d[c.gen].key = c.key

Chained(i) == RotatedOnce(i) => Linked(dirs[i]) /\ Extends(cmd[i], dirs[i])

InvHolds == \A i \in Identity : HoldsOwn(i)
InvSealed == \A i \in Identity : Sealed(i)
InvChained == \A i \in Identity : Chained(i)

DocInv == IInv /\ InvHolds /\ InvSealed /\ InvChained

-----------------------------------------------------------------------------
(* What the invariant says of documents and bundles.                       *)

\* The one commitment of a key by its owner is the first in CT.
LEMMA OwnChoiceIsFirst ==
    ASSUME IInv, NEW i \in Identity, RotatedOnce(i), NEW c \in Own(i), c.succ # NoKey
    PROVE  c.key \in Key /\ IsFirst(c, c.key, ct) /\ EarliestSuccessor(c.key, ct) = c.succ
<1>1. /\ c \in ct /\ c.key \in Key /\ owner[c.key] = i /\ owner[c.succ] = i
      /\ c \in Commitments(c.key, ct)
  BY DEF Own, IInv, LogSound, LogTypeOK, Cert, Commitments
<1>2. PICK f \in ct : IsFirst(f, c.key, ct)
  BY <1>1 DEF IInv, LogSound
<1>3. EarliestSuccessor(c.key, ct) = f.succ
  BY <1>1, <1>2, FirstWins DEF IInv, LogSound, LogTypeOK
<1>4. owner[f.succ] = i
  BY <1>1, <1>3 DEF IInv, NoForkTakesHold, Committed
<1>5. f = c
  BY <1>1, <1>2, <1>4 DEF RotatedOnce, IsFirst
<1> QED BY <1>1, <1>2, <1>3, <1>5

\* What an issuer has published is faithful to CT.
LEMMA OwnIsFaithful ==
    ASSUME IInv, NEW i \in Identity, RotatedOnce(i), NEW A, A \subseteq Own(i)
    PROVE  Faithful(A)
<1>1. A \subseteq ct
  BY DEF Own
<1>2. ASSUME NEW k \in Key, Commitments(k, A) # {}
      PROVE  \E c \in A : IsFirst(c, k, ct)
  <2>1. PICK c \in A : c.key = k /\ c.succ # NoKey
    BY <1>2 DEF Commitments
  <2> QED BY <2>1, OwnChoiceIsFirst
<1> QED BY <1>1, <1>2 DEF Faithful

\* So its bundle accepts nothing that CT rejects.
LEMMA BundleIsSound == DocInv => UndisturbedBundleAgrees
<1> SUFFICES ASSUME DocInv, NEW i \in Identity, RotatedOnce(i), NEW k \in Key,
                    Verified(i, k, bundle[i])
             PROVE  Verified(i, k, ct)
  BY DEF UndisturbedBundleAgrees
<1>1. Faithful(bundle[i]) /\ bundle[i] \subseteq ct /\ LogSound
  BY OwnIsFaithful DEF DocInv, IInv, InvHolds, HoldsOwn, Faithful
<1>2. \A certs : Verify(k, ruuid[i].addr, ruuid[i].day, certs).verified
                     <=> Verified(i, k, certs)
  BY KeyAssumption DEF Verify, Verified
<1> QED BY <1>1, <1>2, MoreEvidenceVerifies

\* The keys of the directories, up to generation g, are a path of custody.
LEMMA DirsArePath ==
    ASSUME IInv, NEW i \in Identity, RotatedOnce(i), Linked(dirs[i]),
           NEW g \in Generation, dirs[i][g].key # NoKey
    PROVE  IsPath([n \in 1..(g + 1) |-> dirs[i][n - 1].key], ct)
<1> DEFINE d == dirs[i]
           chain == [n \in 1..(g + 1) |-> d[n - 1].key]
           S == {m \in Nat : m \in 0..g => d[g - m].key # NoKey}
<1>1. /\ g \in Nat /\ \A n \in 0..g : n \in Generation
      /\ \A n \in Generation : n \in Nat /\ d[n] \in Dir
  BY BoundAssumption DEF Generation, IInv, TypeOK
<1>2. ASSUME NEW n \in Generation, d[n].key # NoKey, n > 0
      PROVE  d[n - 1].key # NoKey
  <2>1. n - 1 \in Generation
    BY <1>1, <1>2, BoundAssumption DEF Generation
  <2> QED BY <1>2, <2>1 DEF Linked
<1>3. \A n \in 0..g : d[n].key \in Key
  <2>1. \A m \in 0..g : m \in S
    <3>1. 0 \in S
      BY <1>1
    <3>2. ASSUME NEW m \in 0..g, m < g, m \in S
          PROVE  m + 1 \in S
      <4>1. g - m \in Generation /\ g - m > 0 /\ d[g - m].key # NoKey /\ (g - m) - 1 = g - (m + 1)
        BY <1>1, <3>2
      <4>2. d[g - (m + 1)].key # NoKey
        BY <1>2, <4>1
      <4> QED BY <1>1, <4>2
    <3> HIDE DEF S
    <3> QED BY <1>1, <3>1, <3>2, UpTo
  <2>2. ASSUME NEW n \in 0..g
        PROVE  d[n].key # NoKey
    <3>1. g - n \in 0..g /\ g - (g - n) = n
      BY <1>1
    <3> QED BY <2>1, <3>1
  <2> QED BY <1>1, <2>2 DEF Dir
<1>4. \A n \in 0..g : n > 0 =>
          /\ n - 1 \in 0..g
          /\ d[n].key = d[n - 1].next /\ d[n - 1].next # NoKey
          /\ Pins(d[n - 1].key, d[n].key)
  <2> SUFFICES ASSUME NEW n \in 0..g, n > 0
               PROVE  /\ n - 1 \in 0..g
                      /\ d[n].key = d[n - 1].next /\ d[n - 1].next # NoKey
                      /\ Pins(d[n - 1].key, d[n].key)
    OBVIOUS
  <2>1. n - 1 \in 0..g /\ n \in Generation /\ n - 1 \in Generation
    BY <1>1
  <2>2. d[n].key # NoKey
    BY <1>3, KeyAssumption
  <2>3. d[n].key = d[n - 1].next
    BY <2>1, <2>2 DEF Linked
  <2> QED BY <2>1, <2>2, <2>3 DEF Linked
<1>5. ASSUME NEW m \in 0..g, NEW n \in 0..g, d[m].key = d[n].key, m > 0
      PROVE  m = n
  <2>1. m - 1 \in 0..g /\ d[n].key = d[m - 1].next /\ d[m - 1].next # NoKey
    BY <1>4, <1>5
  <2>2. n = (m - 1) + 1
    BY <1>1, <2>1 DEF Linked
  <2> QED BY <1>1, <2>2
<1>6. \A m, n \in 0..g : d[m].key = d[n].key => m = n
  BY <1>1, <1>5
<1>7. ASSUME NEW n \in 0..g, n > 0
      PROVE  EarliestSuccessor(d[n - 1].key, ct) = d[n].key
  <2>1. n - 1 \in Generation /\ n \in Generation /\ d[n].key \in Key /\ d[n - 1].key \in Key
    BY <1>1, <1>3, <1>4, <1>7
  <2>2. owner[d[n - 1].key] = i /\ owner[d[n].key] = i
    BY <2>1, KeyAssumption DEF IInv, InvDirs, DirOK
  <2>3. PICK c \in Commitments(d[n - 1].key, ct) : c.succ = d[n].key
    BY <1>4, <1>7 DEF Pins
  <2>4. c \in Own(i) /\ c.succ # NoKey /\ c.key = d[n - 1].key
    BY <2>2, <2>3 DEF Own, Commitments
  <2> QED BY <2>3, <2>4, OwnChoiceIsFirst
<1>8. chain \in Seq(Key) /\ Len(chain) = g + 1
  BY <1>1, <1>3
<1>9. ASSUME NEW n \in 1..g
      PROVE  chain[n + 1] = EarliestSuccessor(chain[n], ct)
  <2>1. n \in 0..g /\ n > 0 /\ n \in 1..(g + 1) /\ n + 1 \in 1..(g + 1) /\ (n + 1) - 1 = n
    BY <1>1
  <2> QED BY <1>7, <2>1
<1>10. ASSUME NEW m \in 1..(g + 1), NEW n \in 1..(g + 1), chain[m] = chain[n]
       PROVE  m = n
  <2>1. m - 1 \in 0..g /\ n - 1 \in 0..g
    BY <1>1
  <2> QED BY <1>6, <1>10, <2>1
<1> HIDE DEF chain
<1>11. (g + 1) - 1 = g /\ g + 1 > 0
  BY <1>1
<1>12. IsPath(chain, ct)
  BY <1>8, <1>9, <1>10, <1>11 DEF IsPath
<1> QED BY <1>12 DEF chain

\* A walk from the genesis key to the key of any generation within the bound.
LEMMA GenerationsAreWalked ==
    ASSUME IInv, NEW i \in Identity, RotatedOnce(i), Linked(dirs[i]),
           NEW g \in Generation, dirs[i][g].key # NoKey,
           LastGeneration <= MaxGenerations
    PROVE  WalkChain(dirs[i][0].key, dirs[i][g].key, ct) # <<>>
<1> DEFINE doc == dirs[i][g].key
           chain == [n \in 1..(g + 1) |-> dirs[i][n - 1].key]
<1>1. g \in Nat /\ g <= MaxGenerations /\ MaxGenerations \in Nat
  BY BoundAssumption, GenerationsAssumption DEF Generation
<1>2. IsPath(chain, ct) /\ chain \in Seq(Key) /\ Len(chain) = g + 1
  <2>1. IsPath(chain, ct)
    BY DirsArePath
  <2>2. DOMAIN chain = 1..(g + 1) /\ g + 1 \in Nat
    BY <1>1
  <2> HIDE DEF chain
  <2>3. chain \in Seq(Key) /\ Len(chain) \in Nat /\ DOMAIN chain = 1..Len(chain)
    BY <2>1 DEF IsPath
  <2> QED BY <2>1, <2>2, <2>3
<1>3. chain[1] = dirs[i][0].key /\ chain[g + 1] = doc
  <2>1. 1 \in 1..(g + 1) /\ g + 1 \in 1..(g + 1) /\ 1 - 1 = 0 /\ (g + 1) - 1 = g
    BY <1>1
  <2> QED BY <2>1
<1> HIDE DEF chain, doc
<1>4. LastOf(chain) = doc
  BY <1>2, <1>3 DEF LastOf
<1>5. \A n \in 1..(Len(chain) - 1) : chain[n] # doc
  <2> SUFFICES ASSUME NEW n \in 1..g, chain[n] = doc PROVE FALSE
    BY <1>1, <1>2
  <2>1. n \in 1..Len(chain) /\ g + 1 \in 1..Len(chain) /\ n # g + 1
    BY <1>1, <1>2
  <2> QED BY <1>2, <1>3, <2>1 DEF IsPath
<1>6. Hop(chain, doc, ct) = chain
  BY <1>4 DEF Hop
<1>7. doc \in Key /\ dirs[i][0].key \in Key
  <2>1. 1 \in 1..Len(chain) /\ g + 1 \in 1..Len(chain)
    BY <1>1, <1>2
  <2> QED BY <1>2, <1>3, <2>1
<1>8. IsWalk(chain, MaxGenerations, dirs[i][0].key, doc, ct)
  BY <1>1, <1>2, <1>3, <1>5, <1>6 DEF IsWalk
<1>9. Hops(dirs[i][0].key, doc, ct)[MaxGenerations] = chain
  BY <1>7, <1>8, PathIsWalked
<1>10. WalkChain(dirs[i][0].key, doc, ct) = chain
  BY <1>4, <1>9 DEF WalkChain
<1>11. chain # <<>>
  BY <1>1, <1>2
<1> QED BY <1>10, <1>11 DEF doc

\* So CT accepts every document on disk.
LEMMA DocumentsAreAccepted ==
    ASSUME LastGeneration <= MaxGenerations, DocInv
    PROVE  UndisturbedDocumentsVerify
<1> SUFFICES ASSUME NEW i \in Identity, RotatedOnce(i), NEW doc \in DocumentsOf(i)
             PROVE  Verified(i, doc, ct)
  BY DEF UndisturbedDocumentsVerify
<1> DEFINE genesis == GenesisKeys(ruuid[i].addr, ruuid[i].day, ct)
<1>1. PICK g \in Generation : dirs[i][g].doc = doc /\ doc # NoKey
  BY DEF DocumentsOf
<1>2. Linked(dirs[i])
  BY DEF DocInv, InvChained, Chained
<1>3. dirs[i][g].key = doc
  BY <1>1, <1>2 DEF Linked
<1>4. dirs[i][0].key \in genesis
  <2>1. dirs[i][0].key # NoKey
    BY <1>1, <1>3 DEF DocInv, InvSealed, Sealed, NoDir
  <2> QED BY <2>1 DEF DocInv, InvSealed, Sealed
<1>5. WalkChain(dirs[i][0].key, doc, ct) # <<>>
  BY <1>1, <1>2, <1>3, GenerationsAreWalked DEF DocInv
<1>6. doc \in genesis \/ Activated(doc, ct)
  <2>1. CASE g = 0
    BY <1>3, <1>4, <2>1
  <2>2. CASE g # 0
    <3>1. g > 0
      BY <2>2, BoundAssumption DEF Generation
    <3>2. Pins(doc, dirs[i][g].next)
      BY <1>1, <1>2, <1>3, <3>1 DEF Linked
    <3> QED BY <3>2 DEF Pins, Commitments, Activated
  <2> QED BY <2>1, <2>2
<1> HIDE DEF genesis
<1>7. VerifyDocument(doc, ruuid[i].addr, ruuid[i].day, ct).verified
  BY <1>4, <1>5, <1>6 DEF genesis, VerifyDocument, Accept
<1> QED BY <1>7 DEF Verified
-----------------------------------------------------------------------------
(* Every step keeps it.                                                    *)

\* CT and the keys' owners only grow.
Grows == ct \subseteq ct' /\ OwnersStay

\* A step logs certificates and generates keys, and takes none back.
LEMMA StepGrows ==
    ASSUME IInv, Next
    PROVE  Grows
<1>1. ct \subseteq ct'
  BY StepsLog DEF Log
<1>2. owner \in [Key -> Identity \cup {Outsider, Nobody}]
  BY DEF IInv, TypeOK
<1>3. ASSUME NEW i \in Identity, NEW a \in Addr, NEW k \in Key, SealIssue(i, a, k)
      PROVE  OwnersStay
  BY <1>2, <1>3 DEF SealIssue, OwnersStay
<1>4. ASSUME NEW i \in Identity, NEW s \in Key, PublishCommitment(i, s)
      PROVE  OwnersStay
  BY <1>2, <1>4 DEF PublishCommitment, OwnersStay
<1>5. ASSUME NEW k \in Key, NEW s \in Key, OutsiderCommit(k, s)
      PROVE  OwnersStay
  BY <1>2, <1>5 DEF OutsiderCommit, OwnersStay
<1>6. owner' = owner => OwnersStay
  BY DEF OwnersStay
<1> QED
  BY <1>1, <1>3, <1>4, <1>5, <1>6
  DEF Grows, Next, Seal, SealCopy, CopyFiles, Rotate, RotateBegin, RotateCopy, Shared,
      WriteDocument, WriteRecord, Fail, PublishBundle, Leak, Midnight

\* What an identity issued, and what it committed to, it has issued for ever.
LEMMA OwnGrows ==
    ASSUME IInv, Grows, NEW i \in Identity
    PROVE  /\ Own(i) \subseteq Own(i)'
           /\ RotatedOnce(i)' => RotatedOnce(i)
           /\ \A k, s : Pins(k, s) => Pins(k, s)'
<1>1. \A c \in ct : c.key \in Key /\ c.succ \in Key \cup {NoKey}
  BY DEF IInv, LogSound, LogTypeOK, Cert
<1>2. \A k \in Key : owner[k] = i => owner'[k] = i
  BY OwnerAssumption DEF Grows, OwnersStay
<1>3. \A c \in ct : c \in ct'
  BY DEF Grows
<1>4. Own(i) \subseteq Own(i)'
  BY <1>1, <1>2, <1>3 DEF Own
<1>5. ASSUME RotatedOnce(i)', NEW k \in Key, owner[k] = i,
             NEW x \in Commitments(k, ct), NEW y \in Commitments(k, ct),
             owner[x.succ] = i, owner[y.succ] = i
      PROVE  x = y
  <2>1. x \in Commitments(k, ct') /\ y \in Commitments(k, ct')
    BY <1>3 DEF Commitments
  <2>2. x.succ \in Key /\ y.succ \in Key
    BY <1>1 DEF Commitments
  <2>3. owner'[x.succ] = i /\ owner'[y.succ] = i /\ owner'[k] = i
    BY <1>2, <1>5, <2>2
  <2> QED BY <1>5, <2>1, <2>3 DEF RotatedOnce
<1>6. RotatedOnce(i)' => RotatedOnce(i)
  BY <1>5 DEF RotatedOnce
<1>7. \A k, s : Pins(k, s) => Pins(k, s)'
  BY <1>3 DEF Pins, Commitments
<1> QED BY <1>4, <1>6, <1>7

\* The key that an address had stays a genesis key.
LEMMA GenesisStays ==
    ASSUME Grows, NEW k, NEW a, NEW day, k \in GenesisKeys(a, day, ct)
    PROVE  k \in GenesisKeys(a, day, ct')
BY DEF Grows, GenesisKeys

\* What the invariant says of one identity.
IdentityOK(i) == HoldsOwn(i) /\ Sealed(i) /\ Chained(i)

\* A step of others.
LEMMA OthersStep ==
    ASSUME DocInv, Grows, NEW i \in Identity, cmd'[i] = cmd[i], dirs'[i] = dirs[i],
           ruuid'[i] = ruuid[i], bundle'[i] \subseteq Own(i)
    PROVE  IdentityOK(i)'
<1>1. /\ Own(i) \subseteq Own(i)' /\ (RotatedOnce(i)' => RotatedOnce(i))
  BY OwnGrows DEF DocInv
<1>2. HoldsOwn(i)'
  BY <1>1 DEF DocInv, InvHolds, HoldsOwn
<1>3. Sealed(i)'
  BY GenesisStays DEF DocInv, InvSealed, Sealed
<1>4. Chained(i)'
  <2> SUFFICES ASSUME RotatedOnce(i)'
               PROVE  Linked(dirs[i])' /\ Extends(cmd[i], dirs[i])'
    BY DEF Chained
  <2>1. Linked(dirs[i]) /\ Extends(cmd[i], dirs[i])
    BY <1>1 DEF DocInv, InvChained, Chained
  <2> DEFINE d == dirs[i]
             c == cmd[i]
  <2>2. Linked(d)' /\ Extends(c, d)'
    BY <1>1, <2>1, OwnGrows DEF DocInv, Linked, Extends, NewTo
  <2> QED BY <2>2
<1> QED BY <1>2, <1>3, <1>4 DEF IdentityOK

\* seal's first certificate.
LEMMA SealIssueKeeps ==
    ASSUME DocInv, Grows, NEW i \in Identity, NEW a \in Addr, NEW k \in Key, SealIssue(i, a, k)
    PROVE  IdentityOK(i)'
<1> DEFINE c == IpCert(k, a, today, today + Window)
<1>1. /\ c \in Cert /\ c.key = k /\ c.succ = NoKey /\ Log(c)
      /\ cmd'[i].step = "issued" /\ cmd'[i].gen = 0
      /\ cmd'[i].key = k /\ cmd'[i].next = NoKey
      /\ cmd'[i].certs = {Stamped(c)}
  <2>1. today \in Nat /\ today + Window \in Nat
    BY BoundAssumption DEF DocInv, IInv, TypeOK, LogTypeOK
  <2>2. c.key = k /\ c.succ = NoKey /\ Log(c)
    BY <2>1, IpCertType DEF SealIssue, Issue
  <2> QED BY <2>2, SealIssueEffect DEF DocInv, IInv
<1> HIDE DEF c
<1>2. Stamped(c) \in ct' /\ Stamped(c).key = k /\ Stamped(c).succ = NoKey
  BY <1>1, StampedType DEF Log, Stamped, DocInv, IInv
<1>3. /\ owner'[k] = i
      /\ UNCHANGED <<dirs, ruuid, bundle>> /\ dirs[i][0] = NoDir
  BY DEF SealIssue, DocInv, IInv, TypeOK
<1>4. Own(i) \subseteq Own(i)'
  BY OwnGrows DEF DocInv
<1>5. HoldsOwn(i)'
  <2>1. Stamped(c) \in Own(i)'
    BY <1>2, <1>3 DEF Own
  <2> QED BY <1>1, <1>3, <1>4, <2>1 DEF DocInv, InvHolds, HoldsOwn
<1>6. \A g \in Generation : dirs[i][g] = NoDir
  <2>1. dirs[i][0].key = NoKey
    BY <1>3 DEF NoDir
  <2> QED BY <2>1 DEF DocInv, InvSealed, Sealed
<1>7. Sealed(i)'
  <2>1. NoDir.key = NoKey
    BY DEF NoDir
  <2> QED BY <1>1, <1>2, <1>3, <1>6, <2>1 DEF Sealed
<1>8. Chained(i)'
  <2>1. \A g \in Generation : /\ dirs'[i][g].key = NoKey /\ dirs'[i][g].next = NoKey
                              /\ dirs'[i][g].doc = NoKey
    BY <1>3, <1>6 DEF NoDir
  <2>2. Linked(dirs[i])'
    BY <2>1 DEF Linked
  <2>3. Extends(cmd[i], dirs[i])'
    BY <1>1 DEF Extends
  <2> QED BY <2>2, <2>3 DEF Chained
<1> QED BY <1>5, <1>7, <1>8 DEF IdentityOK

\* A commitment, to a key that nothing on disk holds.
LEMMA PublishKeeps ==
    ASSUME DocInv, Grows, NEW i \in Identity, NEW s \in Key, PublishCommitment(i, s)
    PROVE  IdentityOK(i)'
<1> DEFINE k == cmd[i].key
           c == CommitmentCert(k, s)
<1>1. /\ cmd[i].step = "issued" /\ k \in Key /\ c \in Cert
      /\ cmd'[i].step = "committed" /\ cmd'[i].gen = cmd[i].gen
      /\ cmd'[i].key = k /\ cmd'[i].next = s
      /\ cmd'[i].certs = cmd[i].certs \cup {Stamped(c)}
  <2>1. TypeOK /\ InvKeyed
    BY DEF DocInv, IInv, InvCommand, CommandOK, InvKeyed
  <2> QED BY <2>1, PublishEffect
<1>2. c.key = k /\ c.succ = s /\ s # NoKey /\ k # NoKey /\ Log(c)
  BY <1>1, CommitmentCertType, KeyAssumption DEF PublishCommitment, Issue
<1> HIDE DEF c
<1>3. Stamped(c) \in ct' /\ Stamped(c).key = k /\ Stamped(c).succ = s
  BY <1>1, <1>2, StampedType DEF Log, Stamped, DocInv, IInv
<1>4. /\ owner[s] = Nobody /\ owner'[s] = i /\ owner[k] = i /\ owner'[k] = i
      /\ UNCHANGED <<dirs, ruuid, bundle>>
  <2>1. owner[k] = i
    BY <1>2 DEF DocInv, IInv, InvCommand, CommandOK
  <2> QED BY <1>1, <2>1 DEF PublishCommitment, DocInv, IInv, TypeOK
<1>5. /\ Own(i) \subseteq Own(i)' /\ (RotatedOnce(i)' => RotatedOnce(i))
      /\ \A x, y : Pins(x, y) => Pins(x, y)'
  BY OwnGrows DEF DocInv
<1>6. HoldsOwn(i)'
  <2>1. Stamped(c) \in Own(i)'
    BY <1>3, <1>4 DEF Own
  <2> QED BY <1>1, <1>4, <1>5, <2>1 DEF DocInv, InvHolds, HoldsOwn
<1>7. Sealed(i)'
  BY <1>1, <1>3, <1>4, GenesisStays DEF DocInv, InvSealed, Sealed
<1>8. NewTo(s, dirs[i]) /\ s # k
  <2>1. \A g \in Generation : /\ dirs[i][g].key # NoKey => owner[dirs[i][g].key] = i
                              /\ dirs[i][g].next # NoKey => owner[dirs[i][g].next] = i
    BY DEF DocInv, IInv, InvDirs, DirOK
  <2> QED BY <1>2, <1>4, <2>1, OwnerAssumption DEF NewTo
<1>9. Chained(i)'
  <2> SUFFICES ASSUME RotatedOnce(i)'
               PROVE  Linked(dirs[i])' /\ Extends(cmd[i], dirs[i])'
    BY DEF Chained
  <2>1. Linked(dirs[i]) /\ Extends(cmd[i], dirs[i])
    BY <1>5 DEF DocInv, InvChained, Chained
  <2>2. Linked(dirs[i])'
    BY <1>4, <1>5, <2>1 DEF Linked
  <2>3. Pins(cmd[i].key, cmd[i].next)'
    BY <1>1, <1>2, <1>3 DEF Pins, Commitments
  <2>4. cmd[i].gen > 0 => k = dirs[i][cmd[i].gen - 1].next
    BY <1>1, <2>1 DEF Extends
  <2>5. Extends(cmd[i], dirs[i])'
    BY <1>1, <1>4, <1>8, <2>3, <2>4 DEF Extends, NewTo
  <2> QED BY <2>2, <2>5
<1> QED BY <1>6, <1>7, <1>9 DEF IdentityOK

\* One more directory at the end of a chain.
LEMMA ChainGrows ==
    ASSUME NEW d, NEW e, NEW n \in Generation, Linked(d),
           d[n].key = NoKey,
           n = 0 => \A g \in Generation : d[g].next = NoKey,
           e[n].key # NoKey, e[n].doc = d[n].doc,
           n > 0 => e[n].key = d[n - 1].next /\ e[n].next # NoKey,
           e[n].next # NoKey => /\ Pins(e[n].key, e[n].next) /\ e[n].next # e[n].key
                                /\ NewTo(e[n].next, d),
           \A g \in Generation \ {n} : e[g] = d[g]
    PROVE  Linked(e)
<1>1. \A g \in Generation : g \in Nat /\ (g > 0 => g - 1 \in Generation /\ g - 1 # g)
  BY BoundAssumption DEF Generation
<1>2. d[n].next = NoKey /\ d[n].doc = NoKey
  BY DEF Linked
<1> SUFFICES ASSUME NEW g \in Generation
    PROVE /\ e[g].key = NoKey => e[g].next = NoKey /\ e[g].doc = NoKey
          /\ e[g].key # NoKey /\ g > 0 => e[g].key = e[g - 1].next /\ e[g].next # NoKey
          /\ e[g].next # NoKey => Pins(e[g].key, e[g].next)
          /\ e[g].doc \in {NoKey, e[g].key}
          /\ \A h \in Generation : e[g].next # NoKey =>
                /\ e[h].key = e[g].next => h = g + 1
                /\ e[h].next = e[g].next => h = g
  BY DEF Linked
<1>3. e[g].key = NoKey => e[g].next = NoKey /\ e[g].doc = NoKey
  BY DEF Linked
<1>4. e[g].next # NoKey => Pins(e[g].key, e[g].next)
  BY DEF Linked
<1>5. e[g].doc \in {NoKey, e[g].key}
  BY <1>2 DEF Linked
<1>6. ASSUME e[g].key # NoKey, g > 0
      PROVE  e[g].key = e[g - 1].next /\ e[g].next # NoKey
  <2>1. CASE g = n
    BY <1>1, <1>6, <2>1
  <2>2. CASE g # n /\ g - 1 # n
    BY <1>1, <1>6, <2>2 DEF Linked
  <2>3. CASE g # n /\ g - 1 = n
    BY <1>1, <1>2, <1>6, <2>3 DEF Linked
  <2> QED BY <2>1, <2>2, <2>3
<1>7. ASSUME NEW h \in Generation, e[g].next # NoKey
      PROVE  /\ e[h].key = e[g].next => h = g + 1
             /\ e[h].next = e[g].next => h = g
  <2>1. CASE g = n
    BY <1>7, <2>1 DEF NewTo
  <2>2. CASE g # n /\ h # n
    BY <1>7, <2>2 DEF Linked
  <2>3. CASE g # n /\ h = n
    <3>1. d[g].next # NoKey
      BY <1>7, <2>3
    <3>2. n > 0 /\ e[n].key = d[n - 1].next
      BY <1>1, <3>1
    <3>3. e[h].key = e[g].next => g = n - 1
      BY <1>1, <2>3, <3>1, <3>2 DEF Linked
    <3>4. e[h].next # e[g].next
      BY <1>7, <2>3, <3>1 DEF NewTo
    <3> QED BY <1>1, <2>3, <3>3, <3>4
  <2> QED BY <2>1, <2>2, <2>3
<1> QED BY <1>3, <1>4, <1>5, <1>6, <1>7


\* The files of a command that has published its commitment, or of a seal that
\* published none, copied: one more generation.
LEMMA CopyKeeps ==
    ASSUME DocInv, Grows, NEW i \in Identity, CopyFiles(i),
           \/ cmd[i].step = "committed"
           \/ cmd[i].step = "issued" /\ cmd[i].gen = 0,
           cmd[i].gen = 0 => cmd[i].key \in GenesisKeys(ruuid'[i].addr, ruuid'[i].day, ct),
           cmd[i].gen > 0 => ruuid'[i] = ruuid[i]
    PROVE  IdentityOK(i)'
<1> DEFINE n == cmd[i].gen
           d == dirs[i]
           e == dirs'[i]
<1>1. /\ UNCHANGED <<ct, owner, bundle>>
      /\ cmd'[i].step = "copied" /\ cmd'[i].gen = n /\ cmd'[i].key = cmd[i].key
      /\ cmd'[i].certs = cmd[i].certs
  <2>1. "copied" \in Step /\ cmd[i] \in Command
    BY DEF Step, DocInv, IInv, TypeOK
  <2> QED BY <2>1, CommandMoves DEF CopyFiles, DocInv, IInv, Command
<1>2. \A g \in Generation : e[g] = IF g = n THEN Copied(i) ELSE d[g]
  <2>1. /\ n \in Generation /\ Copied(i) \in Dir
        /\ dirs' = [dirs EXCEPT ![i][n] = Copied(i)]
    BY DirsWritten DEF DocInv, IInv
  <2> QED BY <2>1, DirRewritten DEF DocInv, IInv
<1>3. /\ n \in Generation
      /\ Copied(i).key = cmd[i].key /\ Copied(i).next = cmd[i].next
      /\ Copied(i).certs = cmd[i].certs /\ Copied(i).doc = d[n].doc
  BY DEF Copied, DocInv, IInv, TypeOK, Command, Dir
<1>4. cmd[i].key # NoKey /\ n \in Nat /\ 0 \in Generation
  BY <1>3, BoundAssumption DEF Generation, DocInv, IInv, InvCommand, CommandOK
<1>5. d[0].key = NoKey <=> n = 0
  BY DEF DocInv, InvSealed, Sealed
<1> HIDE DEF e
<1>6. HoldsOwn(i)'
  <2>1. \A g \in Generation : e[g].certs \subseteq Own(i)
    BY <1>2, <1>3 DEF DocInv, InvHolds, HoldsOwn
  <2>2. cmd[i].certs \subseteq Own(i) /\ bundle[i] \subseteq Own(i) /\ Own(i)' = Own(i)
    BY <1>1 DEF DocInv, InvHolds, HoldsOwn, Own
  <2> QED BY <1>1, <2>1, <2>2 DEF HoldsOwn, e
<1>7. Sealed(i)'
  <2>1. e[0].key # NoKey
    BY <1>2, <1>3, <1>4, <1>5
  <2>2. e[0].key \in GenesisKeys(ruuid'[i].addr, ruuid'[i].day, ct)
    <3>1. CASE n = 0
      BY <1>2, <1>3, <1>4, <3>1
    <3>2. CASE n > 0
      <4>1. e[0] = d[0] /\ ruuid'[i] = ruuid[i]
        BY <1>2, <1>4, <3>2
      <4> QED BY <1>5, <3>2, <4>1 DEF DocInv, InvSealed, Sealed
    <3> QED BY <1>4, <3>1, <3>2
  <2> QED BY <1>1, <2>1, <2>2 DEF Sealed, e
<1>8. Chained(i)'
  <2> SUFFICES ASSUME RotatedOnce(i)'
               PROVE  Linked(dirs[i])' /\ Extends(cmd[i], dirs[i])'
    BY DEF Chained
  <2>1. RotatedOnce(i) /\ Linked(d) /\ Extends(cmd[i], d)
    BY OwnGrows DEF DocInv, InvChained, Chained
  <2>2. cmd[i].next # NoKey => /\ Pins(cmd[i].key, cmd[i].next)
                               /\ cmd[i].next # cmd[i].key /\ NewTo(cmd[i].next, d)
    BY <2>1 DEF Extends
  <2>3. cmd[i].step = "committed" => cmd[i].next # NoKey
    BY DEF DocInv, IInv, InvCommand, CommandOK
  <2>4. d[n].key = NoKey
    <3>1. CASE n = 0
      BY <1>5, <3>1
    <3>2. CASE n > 0 /\ d[n].key # NoKey
      <4>1. d[n].key = d[n - 1].next /\ d[n].next # NoKey /\ Pins(d[n].key, d[n].next)
        BY <1>3, <2>1, <3>2 DEF Linked
      <4>2. cmd[i].key = d[n].key
        BY <2>1, <3>2, <4>1 DEF Extends
      <4>3. cmd[i].next # NoKey /\ Pins(cmd[i].key, cmd[i].next) /\ NewTo(cmd[i].next, d)
        BY <2>2, <2>3, <3>2
      <4>4. owner[cmd[i].key] = i /\ owner[cmd[i].next] = i
        BY <1>4, <4>3 DEF DocInv, IInv, InvCommand, CommandOK
      <4>5. owner[d[n].next] = i
        BY <1>3, <4>1 DEF DocInv, IInv, InvDirs, DirOK
      <4>6. cmd[i].key \in Key
        BY <1>4 DEF DocInv, IInv, TypeOK, Command
      <4>7. cmd[i].next = d[n].next
        BY <2>1, <4>1, <4>2, <4>3, <4>4, <4>5, <4>6 DEF RotatedOnce, Pins
      <4> QED BY <1>3, <4>3, <4>7 DEF NewTo
    <3> QED BY <1>4, <3>1, <3>2
  <2>5. n = 0 => \A g \in Generation : d[g].next = NoKey
    BY <1>5 DEF DocInv, InvSealed, Sealed, NoDir
  <2>6. n > 0 => cmd[i].key = d[n - 1].next /\ cmd[i].next # NoKey
    BY <2>1, <2>3 DEF Extends
  <2>7. Linked(e)
    <3>1. e[n] = Copied(i) /\ \A g \in Generation \ {n} : e[g] = d[g]
      BY <1>2, <1>3
    <3> HIDE DEF d, n
    <3> QED BY <1>3, <1>4, <2>1, <2>2, <2>4, <2>5, <2>6, <3>1, ChainGrows
  <2>8. Linked(dirs[i])'
    BY <1>1, <2>7 DEF Linked, Pins, Commitments, e
  <2>9. Extends(cmd[i], dirs[i])'
    BY <1>1, <1>2, <1>3 DEF Extends, e
  <2> QED BY <2>8, <2>9
<1> QED BY <1>6, <1>7, <1>8 DEF IdentityOK

\* seal's files.
LEMMA SealCopyKeeps ==
    ASSUME DocInv, Grows, NEW i \in Identity, NEW day \in 0..LastDay, SealCopy(i, day)
    PROVE  IdentityOK(i)'
<1>1. /\ cmd[i].step \in {"issued", "committed"} /\ cmd[i].gen = 0 /\ CopyFiles(i)
  BY DEF SealCopy
<1>2. PICK c \in cmd[i].certs : /\ IsGenesis(c, c.addr, day)
                                /\ ruuid' = [ruuid EXCEPT ![i] = [addr |-> c.addr, day |-> day]]
  BY DEF SealCopy
<1>3. ruuid'[i].addr = c.addr /\ ruuid'[i].day = day
  BY <1>2 DEF DocInv, IInv, TypeOK
<1>4. c \in ct /\ c.key = cmd[i].key
  <2>1. dirs[i][0].key = NoKey
    BY <1>1 DEF DocInv, InvSealed, Sealed
  <2> QED BY <1>2, <2>1 DEF DocInv, InvSealed, Sealed, InvHolds, HoldsOwn, Own
<1>5. cmd[i].key \in GenesisKeys(ruuid'[i].addr, ruuid'[i].day, ct)
  BY <1>2, <1>3, <1>4 DEF GenesisKeys
<1> QED BY <1>1, <1>5, CopyKeeps

\* A rotation's first step.
LEMMA RotateBeginKeeps ==
    ASSUME DocInv, Grows, NEW i \in Identity, NEW g \in Generation, RotateBegin(i, g)
    PROVE  IdentityOK(i)'
<1>1. /\ cmd'[i].step = "issued" /\ cmd'[i].gen = g + 1 /\ cmd'[i].certs = {}
      /\ cmd'[i].key = dirs[i][g].next /\ cmd'[i].next = NoKey
      /\ UNCHANGED <<ct, owner, dirs, ruuid, bundle>>
      /\ dirs[i][g] # NoDir
      /\ g \in Nat /\ (g + 1) - 1 = g /\ g + 1 # 0
  BY BoundAssumption DEF RotateBegin, Idle, NoDir, Generation, DocInv, IInv, TypeOK
<1>2. HoldsOwn(i)'
  BY <1>1 DEF DocInv, InvHolds, HoldsOwn, Own
<1>3. Sealed(i)'
  <2>1. dirs[i][0].key # NoKey
    BY <1>1 DEF DocInv, InvSealed, Sealed
  <2> QED BY <1>1, <2>1 DEF DocInv, InvSealed, Sealed
<1>4. Chained(i)'
  <2> SUFFICES ASSUME RotatedOnce(i)'
               PROVE  Linked(dirs[i])' /\ Extends(cmd[i], dirs[i])'
    BY DEF Chained
  <2>1. Linked(dirs[i])
    BY OwnGrows DEF DocInv, InvChained, Chained
  <2>2. Linked(dirs[i])'
    BY <1>1, <2>1 DEF Linked, Pins, Commitments
  <2>3. Extends(cmd[i], dirs[i])'
    BY <1>1 DEF Extends
  <2> QED BY <2>2, <2>3
<1> QED BY <1>2, <1>3, <1>4 DEF IdentityOK

\* The document, which commits the key that the command made active.
LEMMA WriteDocumentKeeps ==
    ASSUME DocInv, Grows, NEW i \in Identity, WriteDocument(i)
    PROVE  IdentityOK(i)'
<1> DEFINE n == cmd[i].gen
           d == dirs[i]
           e == dirs'[i]
<1>1. /\ UNCHANGED <<ct, owner, bundle, ruuid>> /\ cmd[i].step = "copied"
      /\ cmd'[i] = [cmd[i] EXCEPT !.step = "documented"]
  <2>1. "documented" \in Step
    BY DEF Step
  <2> QED BY <2>1, CommandMoves DEF WriteDocument, DocInv, IInv
<1>2. \A g \in Generation : e[g] = IF g = n THEN Documented(i) ELSE d[g]
  <2>1. /\ n \in Generation /\ Documented(i) \in Dir
        /\ dirs' = [dirs EXCEPT ![i][n] = Documented(i)]
    BY DirsWritten DEF DocInv, IInv
  <2> QED BY <2>1, DirRewritten DEF DocInv, IInv
<1>3. /\ n \in Generation /\ 0 \in Generation
      /\ Documented(i).key = d[n].key /\ Documented(i).next = d[n].next
      /\ Documented(i).certs = d[n].certs /\ Documented(i).doc = cmd[i].key
  BY BoundAssumption DEF Documented, Generation, DocInv, IInv, TypeOK, Command, Dir
<1>4. /\ cmd'[i].step = "documented" /\ cmd'[i].gen = n /\ cmd'[i].key = cmd[i].key
      /\ cmd'[i].next = cmd[i].next /\ cmd'[i].certs = cmd[i].certs
  BY <1>1 DEF DocInv, IInv, TypeOK, Command
<1> HIDE DEF e
<1>5. \A g \in Generation : /\ e[g].key = d[g].key /\ e[g].next = d[g].next
                            /\ e[g].certs = d[g].certs
  BY <1>2, <1>3
<1>6. HoldsOwn(i)'
  BY <1>1, <1>4, <1>5 DEF DocInv, InvHolds, HoldsOwn, Own, e
<1>7. Sealed(i)'
  <2>1. d[0].key # NoKey
    BY <1>1 DEF DocInv, InvSealed, Sealed
  <2> QED BY <1>1, <1>3, <1>4, <1>5, <2>1 DEF DocInv, InvSealed, Sealed, e
<1>8. Chained(i)'
  <2> SUFFICES ASSUME RotatedOnce(i)'
               PROVE  Linked(dirs[i])' /\ Extends(cmd[i], dirs[i])'
    BY DEF Chained
  <2>1. Linked(d) /\ Extends(cmd[i], d)
    BY OwnGrows DEF DocInv, InvChained, Chained
  <2>2. d[n].key = cmd[i].key /\ cmd[i].key # NoKey
    BY <1>1, <2>1 DEF Extends, DocInv, IInv, InvCommand, CommandOK
  <2>3. \A g \in Generation : g > 0 => g - 1 \in Generation
    BY BoundAssumption DEF Generation
  <2>4. \A g \in Generation : /\ e[g].doc \in {NoKey, d[g].key}
                              /\ d[g].key = NoKey => e[g].doc = NoKey
    BY <1>2, <1>3, <2>1, <2>2 DEF Linked
  <2>5. Linked(e)
    BY <1>5, <2>1, <2>3, <2>4 DEF Linked
  <2>6. Linked(dirs[i])'
    BY <1>1, <2>5 DEF Linked, Pins, Commitments, e
  <2>7. Extends(cmd[i], dirs[i])'
    BY <1>3, <1>4, <1>5, <2>2 DEF Extends, e
  <2> QED BY <2>6, <2>7
<1> QED BY <1>6, <1>7, <1>8 DEF IdentityOK

\* The end of a command: its record, or its failure.
LEMMA EndKeeps ==
    ASSUME DocInv, Grows, NEW i \in Identity, UNCHANGED <<ct, owner, ruuid, bundle>>,
           cmd'[i] = Idle,
           \/ dirs' = dirs
           \/ cmd[i].step = "documented" /\ WriteRecord(i)
    PROVE  IdentityOK(i)'
<1> DEFINE n == cmd[i].gen
           d == dirs[i]
           e == dirs'[i]
<1>1. n \in Generation /\ 0 \in Generation
  BY BoundAssumption DEF Generation, DocInv, IInv, TypeOK, Command
<1>2. \A g \in Generation : /\ e[g].key = d[g].key /\ e[g].next = d[g].next
                            /\ e[g].certs = d[g].certs /\ e[g].doc = d[g].doc
  <2>1. CASE WriteRecord(i)
    <3>1. \A g \in Generation : e[g] = IF g = n THEN Recorded(i) ELSE d[g]
      <4>1. /\ n \in Generation /\ Recorded(i) \in Dir
            /\ dirs' = [dirs EXCEPT ![i][n] = Recorded(i)]
        BY <2>1, DirsWritten DEF DocInv, IInv
      <4> QED BY <4>1, DirRewritten DEF DocInv, IInv
    <3>2. /\ Recorded(i).key = d[n].key /\ Recorded(i).next = d[n].next
          /\ Recorded(i).certs = d[n].certs /\ Recorded(i).doc = d[n].doc
      BY DEF Recorded, DocInv, IInv, TypeOK, Command, Dir
    <3> QED BY <3>1, <3>2
  <2> QED BY <2>1
<1>3. Idle.step = "idle" /\ Idle.certs = {}
  BY DEF Idle
<1>4. d[0].key = NoKey => e = d
  <2>1. cmd[i].step = "documented" => d[0].key # NoKey
    BY DEF DocInv, InvSealed, Sealed
  <2> QED BY <2>1
<1> HIDE DEF e
<1>5. HoldsOwn(i)'
  BY <1>2, <1>3 DEF DocInv, InvHolds, HoldsOwn, Own, e
<1>6. Sealed(i)'
  <2>1. d[0].key = NoKey => \A g \in Generation : e[g] = NoDir
    BY <1>4 DEF DocInv, InvSealed, Sealed
  <2> QED BY <1>1, <1>2, <1>3, <2>1 DEF DocInv, InvSealed, Sealed, e
<1>7. Chained(i)'
  <2> SUFFICES ASSUME RotatedOnce(i)'
               PROVE  Linked(dirs[i])' /\ Extends(cmd[i], dirs[i])'
    BY DEF Chained
  <2>1. Linked(d)
    BY OwnGrows DEF DocInv, InvChained, Chained
  <2>2. \A g \in Generation : g > 0 => g - 1 \in Generation
    BY BoundAssumption DEF Generation
  <2>3. Linked(e)
    BY <1>2, <2>1, <2>2 DEF Linked
  <2>4. Linked(dirs[i])'
    BY <2>3 DEF Linked, Pins, Commitments, e
  <2>5. Extends(cmd[i], dirs[i])'
    BY <1>3 DEF Extends
  <2> QED BY <2>4, <2>5
<1> QED BY <1>5, <1>6, <1>7 DEF IdentityOK


\* A step of identity i is a step of others to the rest.
LEMMA OnlyOne ==
    ASSUME DocInv, Grows, NEW i \in Identity, IdentityOK(i)',
           \A j \in Identity \ {i} : /\ cmd'[j] = cmd[j] /\ dirs'[j] = dirs[j]
                                     /\ ruuid'[j] = ruuid[j] /\ bundle'[j] = bundle[j]
    PROVE  \A j \in Identity : IdentityOK(j)'
<1>1. \A j \in Identity \ {i} : IdentityOK(j)'
  BY OthersStep DEF DocInv, InvHolds, HoldsOwn
<1> QED BY <1>1

\* Every step preserves the invariant.
LEMMA DocStep ==
    ASSUME DocInv, Next
    PROVE  DocInv'
<1>1. IInv' /\ Grows
  BY InvStep, StepGrows DEF DocInv
<1>2. /\ cmd \in [Identity -> Command] /\ dirs \in [Identity -> [Generation -> Dir]]
      /\ ruuid \in [Identity -> Ruuid] /\ bundle \in [Identity -> SUBSET Cert]
  BY DEF DocInv, IInv, TypeOK
<1> SUFFICES \A j \in Identity : IdentityOK(j)'
  BY <1>1 DEF DocInv, IdentityOK, InvHolds, InvSealed, InvChained
<1>3. ASSUME NEW i \in Identity, NEW a \in Addr, NEW k \in Key, SealIssue(i, a, k)
      PROVE  \A j \in Identity : IdentityOK(j)'
  BY <1>1, <1>2, <1>3, SealIssueKeeps, OnlyOne DEF SealIssue, Issue
<1>4. ASSUME NEW i \in Identity, NEW day \in 0..LastDay, SealCopy(i, day)
      PROVE  \A j \in Identity : IdentityOK(j)'
  BY <1>1, <1>2, <1>4, SealCopyKeeps, OnlyOne DEF SealCopy, CopyFiles
<1>5. ASSUME NEW i \in Identity, NEW g \in Generation, RotateBegin(i, g)
      PROVE  \A j \in Identity : IdentityOK(j)'
  BY <1>1, <1>2, <1>5, RotateBeginKeeps, OnlyOne DEF RotateBegin
<1>6. ASSUME NEW i \in Identity, RotateCopy(i)
      PROVE  \A j \in Identity : IdentityOK(j)'
  <2>1. /\ CopyFiles(i) /\ cmd[i].step = "committed" /\ ~(cmd[i].gen = 0) /\ UNCHANGED ruuid
    BY <1>6 DEF RotateCopy
  <2>2. IdentityOK(i)'
    BY <1>1, <2>1, CopyKeeps
  <2> QED BY <1>1, <1>2, <2>1, <2>2, OnlyOne DEF CopyFiles
<1>7. ASSUME NEW i \in Identity, NEW s \in Key, PublishCommitment(i, s)
      PROVE  \A j \in Identity : IdentityOK(j)'
  BY <1>1, <1>2, <1>7, PublishKeeps, OnlyOne DEF PublishCommitment, Issue
<1>8. ASSUME NEW i \in Identity, WriteDocument(i)
      PROVE  \A j \in Identity : IdentityOK(j)'
  BY <1>1, <1>2, <1>8, WriteDocumentKeeps, OnlyOne DEF WriteDocument
<1>9. ASSUME NEW i \in Identity, WriteRecord(i)
      PROVE  \A j \in Identity : IdentityOK(j)'
  <2>1. cmd'[i] = Idle /\ cmd[i].step = "documented"
        /\ UNCHANGED <<ct, owner, ruuid, bundle>>
    BY <1>2, <1>9 DEF WriteRecord
  <2>2. IdentityOK(i)'
    BY <1>1, <1>9, <2>1, EndKeeps
  <2> QED BY <1>1, <1>2, <1>9, <2>2, OnlyOne DEF WriteRecord
<1>10. ASSUME NEW i \in Identity, Fail(i)
       PROVE  \A j \in Identity : IdentityOK(j)'
  <2>1. cmd'[i] = Idle /\ UNCHANGED <<ct, owner, ruuid, bundle, dirs>>
    BY <1>2, <1>10 DEF Fail
  <2>2. IdentityOK(i)'
    BY <1>1, <2>1, EndKeeps
  <2> QED BY <1>1, <1>2, <1>10, <2>2, OnlyOne DEF Fail
<1>11. ASSUME NEW i \in Identity, PublishBundle(i)
       PROVE  \A j \in Identity : IdentityOK(j)'
  <2>1. UNION {dirs[i][g].certs : g \in Generation} \subseteq Own(i)
    BY DEF DocInv, InvHolds, HoldsOwn
  <2>2. \A j \in Identity : bundle'[j] \subseteq Own(j)
    BY <1>2, <1>11, <2>1 DEF PublishBundle, DocInv, InvHolds, HoldsOwn
  <2> QED BY <1>1, <1>11, <2>2, OthersStep DEF PublishBundle
<1>12. ASSUME UNCHANGED <<cmd, dirs, ruuid, bundle>>
       PROVE  \A j \in Identity : IdentityOK(j)'
  BY <1>1, <1>12, OthersStep DEF DocInv, InvHolds, HoldsOwn
<1> QED
  BY <1>3, <1>4, <1>5, <1>6, <1>7, <1>8, <1>9, <1>10, <1>11, <1>12
  DEF Next, Seal, Rotate, Shared, Leak, OutsiderCommit, Midnight

\* The invariant holds initially.
LEMMA DocInit == Init => DocInv
<1> SUFFICES ASSUME Init PROVE DocInv
  OBVIOUS
<1>1. IInv
  BY InvInit
<1>2. \A i \in Identity : /\ cmd[i].step = "idle" /\ cmd[i].certs = {} /\ bundle[i] = {}
                          /\ \A g \in Generation : dirs[i][g] = NoDir
  BY DEF Init, Idle
<1>3. 0 \in Generation /\ NoDir.key = NoKey /\ NoDir.next = NoKey /\ NoDir.doc = NoKey
      /\ NoDir.certs = {}
  BY BoundAssumption DEF Generation, NoDir
<1>4. InvHolds
  BY <1>2, <1>3 DEF InvHolds, HoldsOwn
<1>5. InvSealed
  BY <1>2, <1>3 DEF InvSealed, Sealed
<1>6. InvChained
  BY <1>2, <1>3 DEF InvChained, Chained, Linked, Extends
<1> QED BY <1>1, <1>4, <1>5, <1>6 DEF DocInv

\* So it holds of every behaviour.
LEMMA DocInvariance == Spec => []DocInv
<1>1. DocInv /\ [Next]_vars => DocInv'
  <2> SUFFICES ASSUME DocInv, [Next]_vars PROVE DocInv'
    OBVIOUS
  <2>1. CASE Next
    BY <2>1, DocStep
  <2>2. CASE UNCHANGED vars
    <3>1. IInv'
      <4>1. TypeOK'
        BY <2>2 DEF vars, DocInv, IInv, TypeOK, LogTypeOK
      <4> QED BY <2>2, <4>1, StillStep DEF vars, DocInv
    <3>2. Grows
      BY <2>2 DEF vars, Grows, OwnersStay
    <3>3. \A j \in Identity : IdentityOK(j)'
      BY <2>2, <3>2, OthersStep DEF vars, DocInv, InvHolds, HoldsOwn
    <3> QED BY <3>1, <3>3 DEF DocInv, IdentityOK, InvHolds, InvSealed, InvChained
  <2> QED BY <2>1, <2>2
<1> QED BY <1>1, DocInit, PTL DEF Spec

\* The documents that seal and rotate write are accepted, unless one rotation was
\* run twice: whatever leaked, whoever committed under it and whichever commands
\* failed.  The walk's bound is the one limit: rotate does not look at it.
THEOREM DocumentsVerify ==
    ASSUME LastGeneration <= MaxGenerations
    PROVE  Spec => []UndisturbedDocumentsVerify
<1>1. DocInv => UndisturbedDocumentsVerify
  BY DocumentsAreAccepted
<1> QED BY <1>1, DocInvariance, PTL

\* The bundle of custody --seals accepts no document that CT rejects, unless one
\* rotation was run twice.
THEOREM BundlesAgree == Spec => []UndisturbedBundleAgrees
<1> QED BY BundleIsSound, DocInvariance, PTL

=============================================================================
