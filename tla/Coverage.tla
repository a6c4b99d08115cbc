------------------------------- MODULE Coverage -------------------------------
(***************************************************************************)
(* The days an issuer can prove: the merged windows of certificates, by    *)
(* address and by key, read from the records of its own seals or from CT   *)
(* (src/ruuid/seal.py, src/ruuid/verify.py), and the day range a document  *)
(* claims.                                                                 *)
(***************************************************************************)
EXTENDS Encoding, SequencesExt

CONSTANTS
    None,
    CrtShText  \* the text in which crt.sh lists IPv6 addresses

\* An address is compared as text.  An IPv4 address has one; of an IPv6 address
\* certificates are read in the long upper case that openssl prints, and people
\* and RUUIDs have others.
Text == {"openssl", "other"}

ASSUME TextAssumption == CrtShText \in Text

\* None is neither a span nor a range.
ASSUME NoneAssumption ==
    /\ None \notin [start: Int, end: Int, labels: SUBSET Nat]
    /\ None \notin [from: Int, to: Int]

\* A window in days, and the seal or certificate it comes from.
Interval(cert) == [start |-> DaysSinceEpoch(cert.first),
                   end |-> DaysSinceEpoch(cert.last), label |-> cert.serial]

Earlier(i, j) ==
    \/ i.start < j.start
    \/ i.start = j.start /\ i.end < j.end
    \/ i.start = j.start /\ i.end = j.end /\ i.label < j.label

Larger(m, n) == IF m < n THEN n ELSE m

\* A plausible slip: the span ends where its last window ends.
JoinLast(span, i) == [span EXCEPT !.end = i.end, !.labels = @ \cup {i.label}]

Join(span, i) ==
    [span EXCEPT !.end = Larger(@, i.end), !.labels = @ \cup {i.label}]

Opened(i) == [start |-> i.start, end |-> i.end, labels |-> {i.label}]

\* A plausible slip: a gap of a day is bridged.
TouchesOrNear(span, i) == i.start <= span.end + 2

\* Overlapping and adjacent days coalesce.
Touches(span, i) == i.start <= span.end + 1

\* The windows from the earliest on.
Sorted(intervals) ==
    CHOOSE seq \in [1..Cardinality(intervals) -> intervals] :
        \A m, n \in DOMAIN seq : m < n => Earlier(seq[m], seq[n])

\* The next window joins the last span that was merged, or opens one.
Coalesce(spans, i) ==
    IF spans # <<>> /\ Touches(Last(spans), i)
    THEN [spans EXCEPT ![Len(spans)] = Join(@, i)]
    ELSE Append(spans, Opened(i))

\* What is merged after each number of windows.
Merged(intervals) ==
    LET sorted == Sorted(intervals)
        merged[n \in 0..Cardinality(intervals)] ==
            IF n = 0 THEN <<>> ELSE Coalesce(merged[n - 1], sorted[n])
    IN  merged

MergeDayIntervals(intervals) == Merged(intervals)[Cardinality(intervals)]

Covers(span, day) == span.start <= day /\ day <= span.end

\* The first span that covers a day.
FindCoverage(spans, day) ==
    LET covering == {n \in DOMAIN spans : Covers(spans[n], day)}
    IN  IF covering = {} THEN None ELSE spans[Min(covering)]

\* The spans of each key that has certificates among these.
GroupsOf(certs) ==
    {[key |-> k,
      spans |-> MergeDayIntervals({Interval(c) : c \in {x \in certs : x.key = k}})] :
        k \in {c.key : c \in certs}}

-----------------------------------------------------------------------------
(* From the records of seals.                                              *)

\* A plausible slip: staging seals are counted with the others.
AllRecords(seals, ip, text, productionOnly) ==
    {s \in seals : s.ip = ip /\ s.text = text}

\* The records that name an address in this text; those of staging prove
\* nothing.
SealRecords(seals, ip, text, productionOnly) ==
    {s \in seals : s.ip = ip /\ s.text = text /\ ~(productionOnly /\ s.staging)}

IpCoverage(seals, ip, text, productionOnly) ==
    MergeDayIntervals({Interval(s) : s \in SealRecords(seals, ip, text, productionOnly)})

CoverageGroups(seals, ip, text, productionOnly) ==
    GroupsOf(SealRecords(seals, ip, text, productionOnly))

-----------------------------------------------------------------------------
(* From CT.                                                                *)

\* crt.sh's own search, which reads the text it is given.
CertsForIp(certs, ip) == {c \in certs : c.ip = ip}

CertsForSpki(certs, k) == {c \in certs : c.key = k}

\* The certificates that are read to name an address in this text.
CertsNaming(certs, ip, text) == {c \in certs : c.ip = ip /\ text = "openssl"}

CoverageGroupsFromCerts(certs, ip, text) == GroupsOf(CertsNaming(certs, ip, text))

\* The certificates of the address, and those of the keys in them.
CoverageGroupsFromCt(ct, ip, text) ==
    LET found == CertsForIp(ct, ip)
    IN  CoverageGroupsFromCerts(
            found \cup UNION {CertsForSpki(ct, c.key) : c \in found}, ip, text)

\* The text in which crt.sh lists an address.
ListedText(ip) == IF ip.family = 4 THEN "openssl" ELSE CrtShText

\* Without the keys: the windows alone, where the list has the text.
CoverageFromWindows(ct, ip, text) ==
    LET listed == {c \in CertsForIp(ct, ip) : text = ListedText(ip)}
        spans  == MergeDayIntervals({Interval(c) : c \in listed})
    IN  IF spans = <<>> THEN {} ELSE {[key |-> None, spans |-> spans]}

\* custody --summary --day: covered by some group.
IsCovered(groups, day) == \E g \in groups : FindCoverage(g.spans, day) # None

CertIsGenesis(cert, f) ==
    /\ cert.ip # None /\ InNetwork(cert.ip, f)
    /\ DaysSinceEpoch(cert.first) <= DayCount(f)
    /\ DayCount(f) <= DaysSinceEpoch(cert.last)

-----------------------------------------------------------------------------
(* The range a document claims to mint in, in days; None if it has none.   *)

\* A plausible slip: the last day of the range is not in it.
DisclaimsLastDay(range, day) ==
    range # None /\ ~(range.from <= day /\ day < range.to)

DocumentDisclaims(range, day) ==
    range # None /\ ~(range.from <= day /\ day <= range.to)

=============================================================================
