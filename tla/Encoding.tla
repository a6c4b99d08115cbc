------------------------------- MODULE Encoding -------------------------------
(***************************************************************************)
(* The 128 bits of an RUUID: src/ruuid/core.py and src/ruuid/generate.py,  *)
(* and what other modules read of them.  The widths of the fields are      *)
(* parameters, so that TLC can run through every value.  Masks and shifts  *)
(* are remainders and quotients by powers of two; an instant is a number   *)
(* of ticks since the epoch, negative before it.                           *)
(***************************************************************************)
EXTENDS Integers

CONSTANTS
    SixToFour,                      \* SIXTOFOUR_PREFIX
    PrefixBits, AnchorBits, PadBits, \* the network of an IPv4 anchor
    HighBits, LowBits,              \* the network, around the variant
    HostBits,                       \* the part of an IPv6 address left out
    TypeBits, DayBits, SequenceBits, VersionBits, VariantBits,
    VERSION, VARIANT,               \* the values of the fixed fields
    Ticks                           \* in a day

ASSUME WidthAssumption ==
    /\ {PrefixBits, AnchorBits, PadBits, HighBits, LowBits, HostBits, TypeBits,
        DayBits, SequenceBits, VersionBits, VariantBits} \subseteq Nat
    /\ HighBits + LowBits = PrefixBits + AnchorBits + PadBits
    /\ Ticks \in Nat \ {0}

NetworkBits == HighBits + LowBits

IdentifierBits == DayBits + SequenceBits

Values(width) == 0..(2 ^ width - 1)

ASSUME FixedAssumption ==
    /\ SixToFour \in Values(PrefixBits)
    /\ VERSION \in Values(VersionBits)
    /\ VARIANT \in Values(VariantBits)

\* (n >> shift) & mask
Bits(n, shift, width) == (n \div 2 ^ shift) % 2 ^ width

Anchor == [family: {4}, value: Values(AnchorBits)]
          \cup [family: {6}, value: Values(NetworkBits + HostBits)]

\* The fields, in what __post_init__ lets pass.
Fields == [identifier: Values(IdentifierBits), network: Values(NetworkBits),
           type: Values(TypeBits), version: Values(VersionBits),
           variant: Values(VariantBits)]

-----------------------------------------------------------------------------
(* Fields and bits.                                                        *)

\* Where each field starts.
LowAt == 0
TypeAt == LowBits
VariantAt == TypeAt + TypeBits
HighAt == VariantAt + VariantBits
VersionAt == HighAt + HighBits
IdentifierAt == VersionAt + VersionBits

Encode(f) ==
    f.identifier * 2 ^ IdentifierAt + f.version * 2 ^ VersionAt
    + Bits(f.network, LowBits, HighBits) * 2 ^ HighAt
    + f.variant * 2 ^ VariantAt + f.type * 2 ^ TypeAt
    + Bits(f.network, 0, LowBits)

\* A plausible slip: the network is put together without its variant gap.
DecodeContiguous(n) ==
    [identifier |-> Bits(n, IdentifierAt, IdentifierBits),
     version |-> Bits(n, VersionAt, VersionBits),
     variant |-> Bits(n, VariantAt, VariantBits),
     type |-> Bits(n, TypeAt, TypeBits),
     network |-> Bits(n, TypeAt, HighBits) * 2 ^ LowBits + Bits(n, LowAt, LowBits)]

Decode(n) ==
    [identifier |-> Bits(n, IdentifierAt, IdentifierBits),
     version |-> Bits(n, VersionAt, VersionBits),
     variant |-> Bits(n, VariantAt, VariantBits),
     type |-> Bits(n, TypeAt, TypeBits),
     network |-> Bits(n, HighAt, HighBits) * 2 ^ LowBits + Bits(n, LowAt, LowBits)]

-----------------------------------------------------------------------------
(* Networks and addresses.                                                 *)

IsSixToFour(network) == network \div 2 ^ (AnchorBits + PadBits) = SixToFour

NetworkOf(anchor) ==
    IF anchor.family = 4
    THEN SixToFour * 2 ^ (AnchorBits + PadBits) + anchor.value * 2 ^ PadBits
    ELSE anchor.value \div 2 ^ HostBits

FromAnchor(anchor, identifier, type) ==
    [identifier |-> identifier, network |-> NetworkOf(anchor), type |-> type,
     version |-> VERSION, variant |-> VARIANT]

\* The address of ip_network: an IPv4 host, or the first address of a /64.
AnchorIp(f) ==
    IF IsSixToFour(f.network)
    THEN [family |-> 4, value |-> Bits(f.network, PadBits, AnchorBits)]
    ELSE [family |-> 6, value |-> f.network * 2 ^ HostBits]

InNetwork(anchor, f) ==
    LET first == AnchorIp(f)
    IN  /\ anchor.family = first.family
        /\ IF anchor.family = 4 THEN anchor.value = first.value
           ELSE anchor.value \div 2 ^ HostBits = f.network

\* The name of the PTR record of an address, by what it spells out; the
\* issuer's zone and the resolver's query both have it from here.
ReverseName(anchor) ==
    [arpa |-> anchor.family,
     of |-> IF anchor.family = 4 THEN anchor.value ELSE anchor.value \div 2 ^ HostBits]

ReverseDnsName(f) == ReverseName(AnchorIp(f))

-----------------------------------------------------------------------------
(* Days and identifiers.                                                   *)

DaysSinceEpoch(instant) == instant \div Ticks

\* --day, as a date or as a day count.
ParseDay(day) == day * Ticks

\* A plausible slip: the last day is not checked.
FitsFromEpoch(instant) == DaysSinceEpoch(instant) >= 0

FitsDay(instant) == DaysSinceEpoch(instant) \in Values(DayBits)

\* With a day and a sequence that fit.
StructuredIdentifier(instant, sequence) ==
    DaysSinceEpoch(instant) * 2 ^ SequenceBits + sequence

DayCount(f) == f.identifier \div 2 ^ SequenceBits

\* The sequence, as ruuid parse and a template with <day> show it.
Sequence(f) == f.identifier % 2 ^ SequenceBits

=============================================================================
