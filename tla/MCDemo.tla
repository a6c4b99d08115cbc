-------------------------------- MODULE MCDemo --------------------------------
(***************************************************************************)
(* Instances of Demo for TLC: zone files like the demo's own, each with a  *)
(* case the others lack.                                                   *)
(***************************************************************************)
EXTENDS Demo

MCDomain == {"a.example", "b.example", "c.example"}
MCType == {0, 1, 2}

R(n, t) == [network |-> n, type |-> t, id |-> "id"]

MCAsked == {R(1, 0), R(1, 1), R(1, 2), R(2, 1), R(3, 2)}

At_(scheme, name, holes) ==
    [scheme |-> scheme, host |-> None, path |-> [name |-> name, holes |-> holes]]

Entry_(t, template) ==
    [type |-> t, bare |-> TRUE, endpoint |-> template, alias |-> None]

ById == {"identifier"}

Plain == <<Entry_(0, At_("relative", "things", ById)),
           Entry_(1, At_("https", "default", {"type", "identifier"}))>>

\* Entries with aliases, placeholders of every kind, and other ways of naming
\* a type.
Rich == <<[Entry_(1, At_("relative", "events", ById)) EXCEPT
              !.alias = [name |-> "default", holes |-> {"type", "identifier"}]],
          [Entry_(2, At_("relative", "full", ById)) EXCEPT !.bare = FALSE],
          Entry_(None, At_("relative", "none", ById)),
          Entry_(0, [At_("https", "net", {"network", "type", "identifier", "domain"})
                        EXCEPT !.host = "b.example"])>>

Dated == <<Entry_(1, At_("relative", "sensors", {"day", "identifier"})),
           Entry_(2, At_("relative", "fixed", {})),
           Entry_(0, At_("did", "things", {"uuid"}))>>

Of(d, anchors, service, uri) ==
    [domain |-> d, anchors |-> anchors, service |-> service, uri |-> uri]

Signed(proof) == [service |-> Plain, proof |-> proof]

\* a has two anchors; b points at a by did:uuid; c is published inline, and
\* its proof is invalid.
Pointing == <<Of("a.example", <<1>>, Plain, None),
              Of("b.example", <<2>>, None, Did(R(1, 0))),
              Of("c.example", <<3>>, None, Data(Signed("invalid")))>>

\* b is published at a host of a, and comes first.
Shared == <<Of("b.example", <<2>>, None, WellKnown("a.example")),
            Of("a.example", <<1, 3>>, Rich, None)>>

\* b and c name each other; a has what cannot be routed.
Circular == <<Of("a.example", <<1>>, Dated, None),
              Of("b.example", <<2>>, None, Did(R(3, 1))),
              Of("c.example", <<3>>, None, Did(R(2, 1)))>>

\* Nothing but PTR records, and a document from outside.
Bare == <<Of("a.example", <<1>>, None, None),
          Of("b.example", <<2>>, <<>>, None),
          Of("c.example", <<3>>, None, Elsewhere)>>

\* The system's DNS gives network 1 to another domain.
Rival == <<Of("c.example", <<1>>, Plain, Web("http", "c.example", WellKnown("c.example").page))>>

W(zone, system, rrtype, crt) ==
    [zone |-> zone, system |-> system, rrtype |-> rrtype, cert |-> crt,
     outside |-> {None, Junk, Array, Signed("valid"), Signed("invalid")}]

MCWorld == {W(Pointing, Rival, "both", "good"), W(Shared, <<>>, "TXT", "good"),
            W(Circular, Rival, "URI", "none"), W(Bare, <<>>, "both", "bad"),
            W(Circular, <<>>, "both", "good")}

\* These zone files keep to what PublishedReferentsAreServed is proved from.
ASSUME WorldIsOrderly == \A w \in MCWorld, d \in MCDomain : Orderly(w.zone, d)

=============================================================================
