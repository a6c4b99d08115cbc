------------------------------- MODULE Minting -------------------------------
(***************************************************************************)
(* Minting RUUIDs for days one can prove: seal, which has an address       *)
(* certified and picks a day inside the certificate's window, and generate *)
(* (src/ruuid/seal.py, src/ruuid/cli.py, src/ruuid/generate.py), while     *)
(* days pass and others have the same addresses certified.  What it mints  *)
(* is read back through Encoding, and what it can prove through Coverage.  *)
(***************************************************************************)
EXTENDS Coverage

CONSTANTS
    Address,   \* the addresses that are certified, in Anchor
    Typed,     \* them in the texts in which they are typed
    Key,
    Types,     \* values of --type
    Requested, \* values of --day, as day counts, or None
    Given,     \* values of --identifier, or None
    Random,    \* what the random generator yields
    Lifetime,  \* ticks that certificates last; SealLifetime those of seals
    SealLifetime,
    Backdate,  \* ticks that a certificate starts before it is issued
    Start, End, \* the first and the last instant of the calendar
    MaxCerts   \* certificates that are issued for addresses

\* What the parsers let pass, and calendars and windows that are not empty.
ASSUME MintingAssumption ==
    /\ Address \subseteq Anchor /\ None \notin Address
    /\ Typed \subseteq [ip: Address, text: Text]
    /\ \A a \in Typed : a.ip.family = 4 => a.text = "openssl"
    /\ Types \subseteq Values(TypeBits)
    /\ Requested \subseteq Int \cup {None}
    /\ Random \subseteq Values(IdentifierBits)
    /\ {Lifetime, SealLifetime, Backdate} \subseteq Nat
    /\ Start \in Int /\ End \in Int /\ Start <= End

VARIABLES
    ct,     \* the certificates of addresses in CT
    seals,  \* the records seal.json
    minted, \* the RUUID that the last step minted, with what was asked for
    now

vars == <<ct, seals, minted, now>>

Instant == (Start - Backdate)..(End + Larger(SealLifetime, Lifetime))

Cert == [serial: Nat, ip: Address, key: Key, first: Instant, last: Instant]

Record == [serial: Nat, ip: Address, text: Text, key: Key, first: Instant,
           last: Instant, ruuid: Nat, staging: BOOLEAN]

Minted == [bits: Nat, ip: Address, type: Types,
           identifier: Values(IdentifierBits), day: Values(DayBits) \cup {None}]

TypeOK ==
    /\ ct \subseteq Cert
    /\ seals \subseteq Record
    /\ minted \in Minted \cup {None}
    /\ minted # None => Decode(minted.bits) \in Fields
    /\ now \in Start..End

Init ==
    /\ ct = {}
    /\ seals = {}
    /\ minted = None
    /\ now = Start

-----------------------------------------------------------------------------
(* generate.                                                               *)

Mint(ip, type, identifier, day) ==
    [bits |-> Encode(FromAnchor(ip, identifier, type)), ip |-> ip, type |-> type,
     identifier |-> identifier, day |-> day]

\* ruuid generate, when it does not refuse: --opaque excludes --day, a day is
\* not in the future, and what is given or computed fits its field.
Generate(ip, type, given, opaque, day, random) ==
    LET instant == IF day = None THEN now ELSE ParseDay(day)
    IN  /\ ~(opaque /\ day # None)
        /\ day # None => day <= DaysSinceEpoch(now)
        /\ \/ /\ given # None /\ given \in Values(IdentifierBits)
              /\ minted' = Mint(ip, type, given, None)
           \/ /\ given = None /\ opaque
              /\ minted' = Mint(ip, type, random, None)
           \/ /\ given = None /\ ~opaque /\ FitsDay(instant)
              /\ minted' = Mint(ip, type,
                     StructuredIdentifier(instant, random % 2 ^ SequenceBits),
                     DaysSinceEpoch(instant))
        /\ UNCHANGED <<ct, seals, now>>

-----------------------------------------------------------------------------
(* seal.                                                                   *)

\* A plausible slip: the last day of the window, be it in the future.
PickLastDay(first, last, requested) ==
    IF requested # None THEN requested ELSE DaysSinceEpoch(last)

\* A plausible slip: a requested day is held against today alone.
PickPastDay(first, last, requested) ==
    LET today == DaysSinceEpoch(now)
        day   == IF requested # None THEN requested
                 ELSE IF DaysSinceEpoch(last) < today THEN DaysSinceEpoch(last)
                 ELSE today
    IN  IF day <= today THEN day ELSE None

\* The day inside the window and not in the future; None if there is none.
PickAnchorDay(first, last, requested) ==
    LET start == DaysSinceEpoch(first)
        end   == DaysSinceEpoch(last)
        today == DaysSinceEpoch(now)
        day   == IF requested # None THEN requested
                 ELSE IF end < today THEN end ELSE today
    IN  IF start <= day /\ day <= end /\ day <= today THEN day ELSE None

Fresh(k) == k \notin {x.key : x \in ct \cup seals}

Room == Cardinality(ct) + Cardinality({s \in seals : s.staging}) < MaxCerts

\* A certificate issued now.
Issued(ip, k, life) ==
    [serial |-> Cardinality(ct) + Cardinality(seals), ip |-> ip, key |-> k,
     first |-> now - Backdate, last |-> now + life]

\* seal: the certificate is issued, under a key made for it, before the day is
\* picked.  When that raises, CT has the certificate and there is no record.
Seal(ip, text, k, type, production, requested, random) ==
    LET cert  == Issued(ip, k, SealLifetime)
        day   == PickAnchorDay(cert.first, cert.last, requested)
        ruuid == Mint(ip, type, StructuredIdentifier(ParseDay(day), random), day)
    IN  /\ Fresh(k) /\ Room
        /\ ct' = IF production THEN ct \cup {cert} ELSE ct
        /\ IF day # None /\ FitsDay(ParseDay(day))
           THEN /\ seals' = seals \cup
                      {[serial |-> cert.serial, ip |-> ip, text |-> text, key |-> k,
                        first |-> cert.first, last |-> cert.last,
                        ruuid |-> ruuid.bits, staging |-> ~production]}
                /\ minted' = ruuid
           ELSE minted' = None /\ UNCHANGED seals
        /\ UNCHANGED now

\* A seal that fails after its first certificate: the domain's is refused, or a
\* commitment's, or what the CA returned does not fit.
SealFails(ip, k) ==
    /\ Fresh(k) /\ Room
    /\ ct' = ct \cup {Issued(ip, k, SealLifetime)}
    /\ minted' = None
    /\ UNCHANGED <<seals, now>>

-----------------------------------------------------------------------------
(* The world.                                                              *)

\* An address is certified for a key by other means, such as a renewal.
Certify(ip, k) ==
    /\ Room
    /\ ct' = ct \cup {Issued(ip, k, Lifetime)}
    /\ minted' = None
    /\ UNCHANGED <<seals, now>>

Tick ==
    /\ now < End
    /\ now' = now + 1
    /\ minted' = None
    /\ UNCHANGED <<ct, seals>>

Next ==
    \/ \E ip \in Address, type \in Types, given \in Given, opaque \in BOOLEAN,
          day \in Requested, random \in Random :
             Generate(ip, type, given, opaque, day, random)
    \/ \E a \in Typed, k \in Key, type \in Types, production \in BOOLEAN,
          day \in Requested, random \in Random :
             Seal(a.ip, a.text, k, type, production, day, random % 2 ^ SequenceBits)
    \/ \E ip \in Address, k \in Key : SealFails(ip, k) \/ Certify(ip, k)
    \/ Tick

Spec == Init /\ [][Next]_vars

-----------------------------------------------------------------------------
(* Properties.                                                             *)

\* An IPv6 address within the 6to4 prefix is read as an IPv4 anchor.
Ambiguous(ip) == ip.family = 6 /\ IsSixToFour(NetworkOf(ip))

\* Of the last RUUID every reader gets what its minter was asked for: the
\* fields, the network its address is in, and the reverse name at which the
\* issuer of that address publishes its PTR record (core.py, resolve.py
\* reverse_dns_name).
MintedReadsBack ==
    minted # None =>
        LET f == Decode(minted.bits)
        IN  /\ f.identifier = minted.identifier /\ f.type = minted.type
            /\ f.version = VERSION /\ f.variant = VARIANT
            /\ Encode(f) = minted.bits
            /\ minted.day # None => DayCount(f) = minted.day
            /\ ~Ambiguous(minted.ip) =>
                  /\ InNetwork(minted.ip, f)
                  /\ ReverseDnsName(f) = ReverseName(minted.ip)

\* No identifier that was built from a day names a day still to come: the
\* checks of cmd_generate and of _pick_anchor_day.
NoDayToCome ==
    /\ (minted # None /\ minted.day # None) =>
          DayCount(Decode(minted.bits)) <= DaysSinceEpoch(now)
    /\ \A s \in seals : DayCount(Decode(s.ruuid)) <= DaysSinceEpoch(now)

\* CT holds a genesis certificate, under the recorded key, for every RUUID with
\* a record of a production seal; a query for the address that the RUUID spells
\* out finds it when that is the address that was sealed.
SealedIsProvable ==
    \A s \in {x \in seals : ~x.staging /\ ~Ambiguous(x.ip)} :
        LET f == Decode(s.ruuid)
            genesis(certs) == {c \in certs : c.key = s.key /\ CertIsGenesis(c, f)}
        IN  /\ genesis(ct) # {}
            /\ AnchorIp(f) = s.ip => genesis(CertsForIp(ct, AnchorIp(f))) # {}

Days == DaysSinceEpoch(Start - Backdate)..DaysSinceEpoch(End + Larger(SealLifetime, Lifetime))

CoveringKeys(groups, day) == {g.key : g \in {x \in groups : FindCoverage(x.spans, day) # None}}

\* What the records of production seals are said to cover is what CT proves,
\* key by key and day by day, failed, staging and concurrent seals included,
\* where the address is typed as certificates are read to name it; and the days
\* of an address are those of its keys together (ip_coverage and
\* coverage_groups on one side, coverage_groups_from_ct on the other).
RecordsAreProof ==
    \A a \in Typed :
        LET own    == CoverageGroups(seals, a.ip, a.text, TRUE)
            public == CoverageGroupsFromCt(ct, a.ip, a.text)
        IN  \A day \in Days :
                /\ a.text = "openssl" =>
                      CoveringKeys(own, day) \subseteq CoveringKeys(public, day)
                /\ (FindCoverage(IpCoverage(seals, a.ip, a.text, TRUE), day) # None)
                      = IsCovered(own, day)

\* A day is covered for a key exactly when a certificate of that key makes it
\* the genesis key of an RUUID for the address and that day: merging neither
\* loses a day nor bridges a gap, and _cert_is_genesis counts days alike.  The
\* view without keys, of a crt.sh that serves no certificates, covers the same.
\* But _cert_is_genesis compares addresses and coverage compares texts: of an
\* address in a text that certificates, or crt.sh, do not have, the view covers
\* nothing, whatever CT proves.
CoverageIsGenesis ==
    \A a \in {x \in Typed : ~Ambiguous(x.ip)}, day \in Values(DayBits) :
        LET f        == FromAnchor(a.ip, StructuredIdentifier(ParseDay(day), 0), 0)
            genesis  == {c \in CertsForIp(ct, a.ip) : CertIsGenesis(c, f)}
            covering == CoveringKeys(CoverageGroupsFromCt(ct, a.ip, a.text), day)
        IN  /\ covering = IF a.text = "openssl" THEN {c.key : c \in genesis} ELSE {}
            /\ IsCovered(CoverageFromWindows(ct, a.ip, a.text), day)
                  = (a.text = ListedText(a.ip) /\ genesis # {})

\* A controller that claims the range from its first to its last covered day
\* disclaims no day that CT proves for it, and when its days are one span it
\* disclaims every other: `resolve --verify` then calls it neither an impostor
\* nor a successor by mistake (document_disclaims).
HonestRangeIsRight ==
    \A a \in Typed :
        \A g \in CoverageGroupsFromCt(ct, a.ip, a.text), day \in Days :
            LET range == [from |-> Head(g.spans).start, to |-> Last(g.spans).end]
                covered == FindCoverage(g.spans, day) # None
            IN  /\ DocumentDisclaims(range, day) => ~covered
                /\ Len(g.spans) = 1 => (DocumentDisclaims(range, day) = ~covered)

\* A day that was covered stays covered, whatever is issued later.
CoverageOnlyGrows ==
    [][ct' # ct =>
          \A a \in Typed, day \in Days :
              CoveringKeys(CoverageGroupsFromCt(ct, a.ip, a.text), day)
                  \subseteq CoveringKeys(CoverageGroupsFromCt(ct', a.ip, a.text), day)]_vars

=============================================================================
