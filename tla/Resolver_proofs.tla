---------------------------- MODULE Resolver_proofs ----------------------------
(***************************************************************************)
(* Theorems about Resolver, for any registries, domains, documents and     *)
(* depth, and for any answers of the network.                              *)
(***************************************************************************)
EXTENDS Resolver, TLAPS, WellFoundedInduction

\* What each call keeps: it fails in the ways that are named, what the steps to
\* come will read is there, and the link is untampered.
FrameInv(f) ==
    /\ f.at = "raise" => /\ f.error \in Error
                         /\ \/ f.registry = None
                            \/ f.error \in {"unresolved", "value"}
                            \/ Escapes(f)
    /\ f.at \in {"PTR", "URI", "TXT"} => f.uri = None
    /\ f.at \in {"URI", "TXT", "document", "gate", "referent"} => f.domain \in Domain
    /\ f.at \in {"document", "gate", "referent"} => f.uri \in Uri
    /\ f.at \in {"PTR", "URI", "TXT", "document", "gate"} => f.link = None
    /\ f.at = "referent" => f.link \in Uri
    /\ Untampered(f)

Inv ==
    /\ ResolverTypeOK
    /\ RegistryIsInherited
    /\ \A n \in DOMAIN stack : FrameInv(stack[n])
    /\ result # None => /\ FrameInv(result)
                        /\ result.at \in {"return", "raise"}

-----------------------------------------------------------------------------
(* What the operators of Publication return.                               *)

\* The well-known place of a domain is a URI.
LEMMA WellKnownType ==
    ASSUME NEW d \in Domain
    PROVE  WellKnown(d) \in Uri
BY DEF WellKnown, Web, Uri, Page, Path, WellKnownPath, Hole

\* A did:uuid URI names an RUUID.
LEMMA DidType ==
    ASSUME NEW uri \in Uri, uri.scheme = "did"
    PROVE  uri.of \in Ruuid
BY DEF Uri, Elsewhere

\* What is parsed is a document.
LEMMA ParseType ==
    ASSUME NEW b \in Body
    PROVE  Parse(b) \in Document \cup {None}
BY DEF Parse, Body, Document, Stub, NoService

\* A set of positions that is not empty has a least one.
LEMMA LeastPosition ==
    ASSUME NEW S \in SUBSET Nat, S # {}
    PROVE  Min(S) \in S /\ \A n \in S : Min(S) <= n
<1>. DEFINE Less == {p \in Nat \X Nat : p[1] < p[2]}
<1>1. IsWellFoundedOn(Less, Nat)
  BY NatLessThanWellFounded DEF OpToRel
<1>. HIDE DEF Less
<1>2. PICK n \in S : \A m \in S : ~(<<m, n>> \in Less)
  BY <1>1, WFMin
<1>3. ASSUME NEW m \in S PROVE n <= m
  <2>1. m < n => <<m, n>> \in Less
    <3>1. \A i, j \in Nat : i < j => <<i, j>> \in Less
      BY DEF Less
    <3>. QED BY <3>1
  <2>. QED BY <1>2, <2>1
<1>. QED BY <1>3 DEF Min

\* The positions of the entries of a type; they hold such entries.
LEMMA EntriesType ==
    ASSUME NEW document \in Document \cup {None}, NEW type \in Type
    PROVE  /\ EntriesOf(document, type) \in SUBSET Nat
           /\ EntriesOf(document, type) # {} => document # None
           /\ \A n \in EntriesOf(document, type) :
                 /\ document.service[n] \in Service
                 /\ document.service[n].endpoint \in Template
<1>. SUFFICES ASSUME EntriesOf(document, type) # {}
              PROVE  /\ EntriesOf(document, type) \in SUBSET Nat
                     /\ document # None
                     /\ \A n \in EntriesOf(document, type) :
                           /\ document.service[n] \in Service
                           /\ document.service[n].endpoint \in Template
  OBVIOUS
<1>1. document # None /\ document.service # None
  BY DEF EntriesOf
<1>2. document.service \in Seq(Service)
  BY <1>1 DEF Document
<1>3. \A n \in DOMAIN document.service : document.service[n] \in Service
  BY <1>2
<1>4. EntriesOf(document, type) =
        {n \in DOMAIN document.service :
            document.service[n].endpoint # None /\ document.service[n].type = type}
  BY <1>1 DEF EntriesOf
<1>5. \A x \in Service : x.endpoint # None => x.endpoint \in Template
  BY DEF Service
<1>. HIDE DEF Service
<1>. QED BY <1>1, <1>2, <1>3, <1>4, <1>5

\* The template that is selected is a template.
LEMMA TemplateType ==
    ASSUME NEW document \in Document \cup {None}, NEW type \in Type
    PROVE  TemplateOf(SelectServiceEntry(document, type)) \in Template
<1>. DEFINE entry == SelectServiceEntry(document, type)
<1>1. DefaultTemplate \in Template
  BY DEF DefaultTemplate, Template, DefaultPath, Path, Hole
<1>2. entry # None => entry.endpoint \in Template
  <2>1. ASSUME NEW t \in {type, 0}, EntriesOf(document, t) # {}
        PROVE  document.service[Min(EntriesOf(document, t))].endpoint \in Template
    <3>1. t \in Type
      BY TypeAssumption
    <3>2. Min(EntriesOf(document, t)) \in EntriesOf(document, t)
      BY <2>1, <3>1, EntriesType, LeastPosition
    <3>. QED BY <3>1, <3>2, EntriesType
  <2>. QED BY <2>1 DEF SelectServiceEntry
<1>. QED BY <1>1, <1>2 DEF TemplateOf

\* The referent URI is a URI.
LEMMA ReferentUriType ==
    ASSUME NEW r \in Ruuid, NEW d \in Domain, NEW uri \in Uri,
           NEW document \in Document \cup {None}
    PROVE  ReferentUri(r, d, document, uri) \in Uri
<1>. DEFINE t == TemplateOf(SelectServiceEntry(document, r.type))
            page == [path |-> t.path, of |-> r, domain |-> d]
<1>1. t \in Template
  BY TemplateType DEF Ruuid
<1>2. page \in Page
  BY <1>1 DEF Page, Template
<1>3. /\ t.scheme \in {"http", "https", "relative", "did", "other"}
      /\ t.host \in Domain \cup {None}
  BY <1>1 DEF Template
<1>4. IsWeb(uri) => uri.host \in Domain
  BY DEF IsWeb, Uri, Elsewhere
<1>. HIDE DEF t, page
<1>5. \A s \in {"http", "https"}, h \in Domain : Web(s, h, page) \in Uri
  BY <1>2 DEF Web, Uri
<1>6. Relative(page) \in Uri /\ Did(r) \in Uri /\ Elsewhere \in Uri
  BY <1>2 DEF Relative, Did, Uri
<1>. QED BY <1>3, <1>4, <1>5, <1>6
     DEF ReferentUri, SubstituteTemplate, t, page, IsWeb

-----------------------------------------------------------------------------
(* What a step makes of the call on top.                                   *)

\* A step leaves the call one of the same registry.
Keeps(f, g) ==
    /\ g \in Frame
    /\ FrameInv(g)
    /\ g.registry = f.registry
    /\ g.saved = f.saved

\* Failing over, and failing, keep the call in order.
LEMMA FailLookupKeeps ==
    ASSUME NEW f \in Frame, FrameInv(f), f.at \in {"PTR", "URI", "TXT"},
           NEW e \in {"unresolved", "dns", "os", "http"},
           e = "http" => f.registry \in DohRegistry
    PROVE  Keeps(f, FailLookup(f, e))
<1>1. f.link = None /\ f.uri = None
  BY DEF FrameInv
<1>2. CASE FallsBack(f, e)
  <2>. DEFINE g == [f EXCEPT !.second = TRUE, !.at = "PTR", !.lossy = FALSE,
                             !.domain = None]
  <2>1. g \in Frame
    BY DEF Frame
  <2>2. /\ g.link = None /\ g.at = "PTR" /\ g.uri = None
        /\ g.registry = f.registry /\ g.saved = f.saved
    BY <1>1 DEF Frame
  <2>. HIDE DEF g
  <2>3. FrameInv(g)
    BY <2>2 DEF FrameInv, Untampered
  <2>4. FailLookup(f, e) = g
    BY <1>2 DEF FailLookup, g
  <2>. QED BY <2>1, <2>2, <2>3, <2>4 DEF Keeps
<1>3. CASE ~FallsBack(f, e)
  <2>. DEFINE x == IF f.second /\ e \in {"dns", "os"} THEN "unresolved" ELSE e
              g == [f EXCEPT !.at = "raise", !.error = x]
  <2>0. /\ x \in Error
        /\ f.registry = None \/ x = "unresolved" \/ x = "http"
        /\ x = "http" => f.registry \in DohRegistry
    <3>1. f.second \in BOOLEAN
      BY DEF Frame
    <3>. QED BY <1>3, <3>1 DEF FallsBack, Error
  <2>. HIDE DEF x
  <2>1. g \in Frame
    BY <2>0 DEF Frame
  <2>4. /\ g.link = None /\ g.error = x /\ g.at = "raise" /\ g.uri = None
         /\ g.registry = f.registry /\ g.saved = f.saved
    BY <1>1 DEF Frame
  <2>. HIDE DEF g
  <2>2. FrameInv(g)
    BY <2>0, <2>4 DEF FrameInv, Untampered, Escapes
  <2>3. FailLookup(f, e) = g
    BY <1>3 DEF FailLookup, g, x
  <2>. QED BY <2>1, <2>4, <2>2, <2>3 DEF Keeps
<1>. QED BY <1>2, <1>3

\* So does having found the URI of the document.
LEMMA FoundKeeps ==
    ASSUME NEW f \in Frame, FrameInv(f), f.at \in {"URI", "TXT"},
           NEW uri \in Uri
    PROVE  Keeps(f, Found(f, uri))
<1>. DEFINE step == IF f.follow = "registry" THEN "return" ELSE "document"
            g == [f EXCEPT !.uri = uri, !.at = step]
<1>0. Found(f, uri) = g /\ step \in {"return", "document"}
  BY DEF Found
<1>. HIDE DEF step
<1>1. g \in Frame
  BY <1>0 DEF Frame
<1>4. /\ g.link = f.link /\ g.at = step /\ g.domain = f.domain /\ g.uri = uri
      /\ g.registry = f.registry /\ g.saved = f.saved
  BY DEF Frame
<1>2. f.link = None /\ f.domain \in Domain
  BY DEF FrameInv
<1>. HIDE DEF g
<1>3. FrameInv(g)
  BY <1>0, <1>2, <1>4 DEF FrameInv, Untampered
<1>. QED BY <1>0, <1>1, <1>3, <1>4 DEF Keeps

\* So does receiving a body, whatever the call was doing.
LEMMA ReceivedKeeps ==
    ASSUME NEW f \in Frame, FrameInv(f), NEW b \in Body
    PROVE  Keeps(f, Received(f, b))
<1>1. CASE f.at = "document"
  <2>. DEFINE step == IF f.follow = "document" THEN "return" ELSE "gate"
              g == [f EXCEPT !.body = b, !.at = step]
  <2>1. Received(f, b) = g /\ step \in {"return", "gate"}
    BY <1>1 DEF Received
  <2>. HIDE DEF step
  <2>2. g \in Frame
    BY <2>1 DEF Frame
  <2>3. /\ g.link = f.link /\ g.at = step /\ g.domain = f.domain /\ g.uri = f.uri
        /\ g.registry = f.registry /\ g.saved = f.saved
    BY DEF Frame
  <2>4. f.link = None /\ f.domain \in Domain /\ f.uri \in Uri
    BY <1>1 DEF FrameInv
  <2>. HIDE DEF g
  <2>5. FrameInv(g)
    BY <2>1, <2>3, <2>4 DEF FrameInv, Untampered
  <2>. QED BY <2>1, <2>2, <2>3, <2>5 DEF Keeps
<1>2. CASE f.at # "document"
  <2>. DEFINE g == [f EXCEPT !.referent = b, !.at = "return"]
  <2>1. Received(f, b) = g
    BY <1>2 DEF Received
  <2>2. g \in Frame
    BY DEF Frame
  <2>3. /\ g.link = f.link /\ g.at = "return" /\ g.domain = f.domain
        /\ g.uri = f.uri /\ g.body = f.body /\ g.ruuid = f.ruuid
        /\ g.registry = f.registry /\ g.saved = f.saved
    BY DEF Frame
  <2>. HIDE DEF g
  <2>4. FrameInv(g)
    BY <2>3 DEF FrameInv, Untampered
  <2>. QED BY <2>1, <2>2, <2>3, <2>4 DEF Keeps
<1>. QED BY <1>1, <1>2

\* A new call is in order.
LEMMA CallKeeps ==
    ASSUME NEW r \in Ruuid, NEW g \in Registry \cup {None}, NEW w \in Follow,
           context \in Registry \cup {None}
    PROVE  /\ Call(r, g, w) \in Frame
           /\ FrameInv(Call(r, g, w))
           /\ Call(r, g, w).registry = g
           /\ Call(r, g, w).saved = context
<1>. DEFINE f == Call(r, g, w)
<1>1. /\ f \in Frame /\ f.registry = g /\ f.saved = context
      /\ f.link = None /\ f.uri = None /\ f.at = "PTR"
  BY DEF Call, Frame, Body
<1>. HIDE DEF f
<1>2. FrameInv(f)
  BY <1>1 DEF FrameInv, Untampered
<1>. QED BY <1>1, <1>2 DEF f

-----------------------------------------------------------------------------
(* Every step keeps the invariant.                                         *)

\* The call on top is one of those the invariant speaks of.
LEMMA TopInOrder ==
    ASSUME Inv, stack # <<>>
    PROVE  /\ Len(stack) \in Nat \ {0}
           /\ Len(stack) \in DOMAIN stack
           /\ Top = stack[Len(stack)]
           /\ Top \in Frame
           /\ FrameInv(Top)
<1>1. stack \in Seq(Frame)
  BY DEF Inv, ResolverTypeOK
<1>2. Len(stack) \in Nat \ {0} /\ Len(stack) \in DOMAIN stack
  BY <1>1
<1>3. Top = stack[Len(stack)]
  BY DEF Top, Last
<1>. QED BY <1>1, <1>2, <1>3 DEF Inv

\* A step that keeps the call on top in order keeps the invariant.
LEMMA BecomesKeeps ==
    ASSUME Inv, stack # <<>>, NEW f, Keeps(Top, f), Becomes(f)
    PROVE  Inv'
<1>. DEFINE k == Len(stack)
<1>1. /\ stack \in Seq(Frame) /\ k \in DOMAIN stack /\ k \in Nat \ {0}
      /\ Top = stack[k]
  BY TopInOrder DEF Inv, ResolverTypeOK
<1>2. f \in Frame /\ FrameInv(f) /\ f.registry = stack[k].registry
      /\ f.saved = stack[k].saved
  BY <1>1 DEF Keeps
<1>3. /\ stack' = [stack EXCEPT ![k] = f] /\ context' = context
      /\ result' = result
  BY DEF Becomes
<1>4. /\ stack' \in Seq(Frame) /\ Len(stack') = k
      /\ DOMAIN stack' = DOMAIN stack
      /\ \A n \in DOMAIN stack : stack'[n] = IF n = k THEN f ELSE stack[n]
  BY <1>1, <1>2, <1>3
<1>5. ResolverTypeOK'
  BY <1>3, <1>4 DEF Inv, ResolverTypeOK
<1>6. /\ \A n \in DOMAIN stack' : stack'[n].registry = stack[n].registry
      /\ \A n \in DOMAIN stack' : stack'[n].saved = stack[n].saved
  BY <1>2, <1>4
<1>7. RegistryIsInherited'
  <2>1. 1 \in DOMAIN stack'
    BY <1>1, <1>4
  <2>2. stack' # <<>>
    BY <2>1
  <2>3. DOMAIN stack' = DOMAIN stack
    BY <1>4
  <2>4. RegistryIsInherited
    BY DEF Inv
  <2>. QED BY <1>3, <1>6, <2>1, <2>2, <2>3, <2>4 DEF RegistryIsInherited
<1>8. \A n \in DOMAIN stack' : FrameInv(stack'[n])
  BY <1>2, <1>4 DEF Inv
<1>9. (result # None => FrameInv(result) /\ result.at \in {"return", "raise"})'
  BY <1>3 DEF Inv
<1>. QED BY <1>5, <1>7, <1>8, <1>9 DEF Inv, FrameInv, Untampered, Escapes

\* The three queries.
LEMMA QueriesKeep ==
    ASSUME Inv,
           \/ \E a \in Domain \cup {None, Lost} : AskPtr(a)
           \/ \E a \in Uri \cup {None, Lost} : AskUri(a) \/ AskTxt(a)
    PROVE  Inv'
<1>0. stack # <<>>
  BY DEF AskPtr, AskUri, AskTxt, At
<1>1. Top \in Frame /\ FrameInv(Top)
  BY <1>0, TopInOrder
<1>2. \A e \in TransportErrors(Top) :
         /\ e \in {"unresolved", "dns", "os", "http"}
         /\ e = "http" => Top.registry \in DohRegistry
  BY RegistryAssumption DEF TransportErrors, Server
<1>3. SUFFICES \E f : Keeps(Top, f) /\ Becomes(f)
  BY <1>0, BecomesKeeps
<1>4. CASE \E a \in Domain \cup {None, Lost} : AskPtr(a)
  <2>1. PICK a \in Domain \cup {None, Lost} : AskPtr(a)
    BY <1>4
  <2>2. Top.at = "PTR"
    BY <2>1 DEF AskPtr, At
  <2>3. CASE \E e \in TransportErrors(Top) \cup {"unresolved"} :
                Becomes(FailLookup(Top, e))
    BY <1>1, <1>2, <2>2, <2>3, FailLookupKeeps
  <2>4. CASE a \in Domain /\ Becomes([Top EXCEPT !.domain = a, !.at = "URI"])
    <3>. DEFINE g == [Top EXCEPT !.domain = a, !.at = "URI"]
    <3>1. Becomes(g) /\ a \in Domain
      BY <2>4
    <3>2. g \in Frame
      BY <1>1, <3>1 DEF Frame
    <3>3. /\ g.link = Top.link /\ g.at = "URI" /\ g.domain = a /\ g.uri = Top.uri
          /\ g.registry = Top.registry /\ g.saved = Top.saved
      BY <1>1 DEF Frame
    <3>4. Top.link = None /\ Top.uri = None
      BY <1>1, <2>2 DEF FrameInv
    <3>. HIDE DEF g
    <3>5. FrameInv(g)
      BY <3>1, <3>3, <3>4 DEF FrameInv, Untampered
    <3>. QED BY <3>1, <3>2, <3>3, <3>5 DEF Keeps
  <2>. QED BY <2>1, <2>3, <2>4 DEF AskPtr
<1>5. ASSUME NEW lost \in BOOLEAN, Top.at = "URI"
      PROVE  Keeps(Top, [Top EXCEPT !.at = "TXT", !.lossy = lost])
  <2>. DEFINE g == [Top EXCEPT !.at = "TXT", !.lossy = lost]
  <2>1. g \in Frame
    BY <1>1 DEF Frame
  <2>2. /\ g.link = Top.link /\ g.at = "TXT" /\ g.domain = Top.domain
        /\ g.uri = Top.uri /\ g.registry = Top.registry /\ g.saved = Top.saved
    BY <1>1 DEF Frame
  <2>3. Top.link = None /\ Top.uri = None /\ Top.domain \in Domain
    BY <1>1, <1>5 DEF FrameInv
  <2>. HIDE DEF g
  <2>4. FrameInv(g)
    BY <2>2, <2>3 DEF FrameInv, Untampered
  <2>5. Keeps(Top, g)
    BY <2>1, <2>2, <2>4 DEF Keeps
  <2>. QED BY <2>5 DEF g
<1>6. CASE \E a \in Uri \cup {None, Lost} : AskUri(a)
  <2>1. PICK a \in Uri \cup {None, Lost} : AskUri(a)
    BY <1>6
  <2>2. Top.at = "URI"
    BY <2>1 DEF AskUri, At
  <2>3. \/ \E e \in TransportErrors(Top) : Becomes(FailLookup(Top, e))
        \/ Becomes([Top EXCEPT !.at = "TXT", !.lossy = TRUE])
        \/ Becomes([Top EXCEPT !.at = "TXT", !.lossy = Top.lossy])
        \/ a \in Uri /\ Becomes(Found(Top, a))
    <3>1. [Top EXCEPT !.at = "TXT"] = [Top EXCEPT !.at = "TXT", !.lossy = Top.lossy]
      BY <1>1 DEF Frame
    <3>. QED BY <2>1, <3>1 DEF AskUri
  <2>4. \A e \in TransportErrors(Top) : Keeps(Top, FailLookup(Top, e))
    BY <1>1, <1>2, <2>2, FailLookupKeeps
  <2>5. a \in Uri => Keeps(Top, Found(Top, a))
    BY <1>1, <2>2, FoundKeeps
  <2>6. \A lost \in BOOLEAN : Keeps(Top, [Top EXCEPT !.at = "TXT", !.lossy = lost])
    BY <1>5, <2>2
  <2>7. Top.lossy \in BOOLEAN
    BY <1>1 DEF Frame
  <2>. QED BY <2>3, <2>4, <2>5, <2>6, <2>7
<1>7. CASE \E a \in Uri \cup {None, Lost} : AskTxt(a)
  <2>1. PICK a \in Uri \cup {None, Lost} : AskTxt(a)
    BY <1>7
  <2>2. Top.at = "TXT"
    BY <2>1 DEF AskTxt, At
  <2>. DEFINE g == [Top EXCEPT !.lossy = TRUE]
              default == WellKnown(Top.domain)
  <2>3. \/ \E e \in TransportErrors(Top) : Becomes(FailLookup(Top, e))
        \/ Becomes(Found(g, default))
        \/ Becomes(Found(Top, default))
        \/ a \in Uri /\ Becomes(Found(Top, a))
    BY <2>1 DEF AskTxt
  <2>4. \A e \in TransportErrors(Top) : Keeps(Top, FailLookup(Top, e))
    BY <1>1, <1>2, <2>2, FailLookupKeeps
  <2>5. Top.link = None /\ Top.uri = None /\ Top.domain \in Domain
    BY <1>1, <2>2 DEF FrameInv
  <2>6. default \in Uri
    BY <2>5, WellKnownType
  <2>. HIDE DEF default
  <2>7. \A uri \in Uri : Keeps(Top, Found(Top, uri))
    BY <1>1, <2>2, FoundKeeps
  <2>8. g \in Frame
    BY <1>1 DEF Frame
  <2>9. /\ g.link = Top.link /\ g.at = "TXT" /\ g.domain = Top.domain
        /\ g.uri = Top.uri /\ g.registry = Top.registry /\ g.saved = Top.saved
    BY <1>1, <2>2 DEF Frame
  <2>. HIDE DEF g
  <2>10. FrameInv(g)
    BY <2>5, <2>9 DEF FrameInv, Untampered
  <2>11. Keeps(g, Found(g, default))
    BY <2>6, <2>8, <2>9, <2>10, FoundKeeps
  <2>12. Keeps(Top, Found(g, default))
    BY <2>9, <2>11 DEF Keeps
  <2>. QED BY <2>3, <2>4, <2>6, <2>7, <2>12
<1>. QED BY <1>4, <1>6, <1>7

\* What is being fetched is a URI.
LEMMA TargetType ==
    ASSUME Inv, Fetching
    PROVE  Target \in Uri
<1>1. stack # <<>> /\ Top.at \in {"document", "referent"}
  BY DEF Fetching, At
<1>2. FrameInv(Top)
  BY <1>1, TopInOrder
<1>. QED BY <1>1, <1>2 DEF FrameInv, Target

\* Fetching, and failing to nest a call.
LEMMA FetchKeeps ==
    ASSUME Inv, (\E b \in Body : Fetch(b)) \/ Overflow
    PROVE  Inv'
<1>1. stack # <<>>
  BY DEF Fetch, Overflow, Fetching, At
<1>2. PICK b \in Body : Becomes(Received(Top, b))
  BY DEF Fetch, Overflow, Body
<1>3. Top \in Frame /\ FrameInv(Top)
  BY <1>1, TopInOrder
<1>4. Keeps(Top, Received(Top, b))
  BY <1>3, ReceivedKeeps
<1>. QED BY <1>1, <1>2, <1>4, BecomesKeeps

\* A fetch that raises.
LEMMA FetchRaisesKeeps ==
    ASSUME Inv, NEW e \in Error, FetchRaises(e)
    PROVE  Inv'
<1>. DEFINE g == [Top EXCEPT !.at = "raise", !.error = e]
<1>1. stack # <<>> /\ Top.at \in {"document", "referent"} /\ Becomes(g)
  BY DEF FetchRaises, Fetching, At
<1>2. Top \in Frame /\ FrameInv(Top)
  BY <1>1, TopInOrder
<1>3. /\ IsWeb(Target)
      /\ e = "http" \/ (e = "os" /\ Target.scheme = "https")
  BY DEF FetchRaises
<1>4. g \in Frame
  BY <1>2 DEF Frame
<1>5. /\ g.at = "raise" /\ g.error = e /\ g.link = Top.link /\ g.uri = Top.uri
      /\ g.body = Top.body /\ g.ruuid = Top.ruuid /\ g.domain = Top.domain
      /\ g.registry = Top.registry /\ g.saved = Top.saved
  BY <1>2 DEF Frame
<1>. HIDE DEF g
<1>6. Target = Fetched(g)
  <2>1. CASE Top.at = "document"
    <3>1. Top.link = None
      BY <1>2, <2>1 DEF FrameInv
    <3>. QED BY <1>5, <2>1, <3>1 DEF Target, Fetched
  <2>2. CASE Top.at = "referent"
    <3>1. Top.link \in Uri
      BY <1>2, <2>2 DEF FrameInv
    <3>. QED BY <1>5, <2>2, <3>1, NoneAssumption DEF Target, Fetched
  <2>. QED BY <1>1, <2>1, <2>2
<1>7. Escapes(g)
  <2>1. g.uri # None
    BY <1>1, <1>2, <1>5, NoneAssumption DEF FrameInv
  <2>. QED BY <1>3, <1>5, <1>6, <2>1 DEF Escapes
<1>8. Untampered(g)
  BY <1>2, <1>5 DEF FrameInv, Untampered
<1>9. FrameInv(g)
  BY <1>5, <1>7, <1>8 DEF FrameInv
<1>. QED BY <1>1, <1>4, <1>5, <1>9, BecomesKeeps DEF Keeps

\* The check of the proof and the referent URI.
LEMMA GateKeeps ==
    ASSUME Inv, Gate
    PROVE  Inv'
<1>. DEFINE document == Parse(Top.body)
            entry    == SelectServiceEntry(document, Top.ruuid.type)
            link     == ReferentUri(Top.ruuid, Top.domain, document, Top.uri)
            refused  == entry # None /\ IsTampered(document)
            step     == IF Top.follow = "referent" THEN "referent" ELSE "return"
            f        == [Top EXCEPT !.at = "raise", !.error = "unresolved"]
            g        == [Top EXCEPT !.link = link, !.at = step]
<1>1. stack # <<>> /\ Top.at = "gate"
  BY DEF Gate, At
<1>2. Top \in Frame /\ FrameInv(Top)
  BY <1>1, TopInOrder
<1>3. /\ Top.domain \in Domain /\ Top.uri \in Uri /\ Top.link = None
      /\ Top.ruuid \in Ruuid /\ Top.body \in Body
  BY <1>1, <1>2 DEF FrameInv, Frame
<1>4. Becomes(IF refused THEN f ELSE g)
  BY DEF Gate
<1>5. link \in Uri
  BY <1>3, ParseType, ReferentUriType
<1>6. (~refused /\ IsTampered(document))
         => link = SubstituteTemplate(DefaultTemplate, Top.ruuid, Top.domain, Top.uri)
  BY DEF ReferentUri, TemplateOf
<1>7. step \in {"referent", "return"}
  OBVIOUS
<1>. HIDE DEF refused, link, entry, step
<1>8. Keeps(Top, f)
  <2>1. f \in Frame
    BY <1>2 DEF Frame, Error
  <2>2. /\ f.at = "raise" /\ f.error = "unresolved" /\ f.link = Top.link
        /\ f.registry = Top.registry /\ f.saved = Top.saved
    BY <1>2 DEF Frame
  <2>. HIDE DEF f
  <2>3. FrameInv(f)
    BY <1>3, <2>2 DEF FrameInv, Untampered, Error
  <2>. QED BY <2>1, <2>2, <2>3 DEF Keeps
<1>9. ~refused => Keeps(Top, g)
  <2>1. g \in Frame
    BY <1>2, <1>5, <1>7 DEF Frame
  <2>2. /\ g.at = step /\ g.link = link /\ g.domain = Top.domain
        /\ g.uri = Top.uri /\ g.body = Top.body /\ g.ruuid = Top.ruuid
        /\ g.registry = Top.registry /\ g.saved = Top.saved
    BY <1>2 DEF Frame
  <2>. HIDE DEF g
  <2>3. ~refused => Untampered(g)
    BY <1>6, <2>2 DEF Untampered
  <2>4. ~refused => FrameInv(g)
    BY <1>3, <1>5, <1>7, <2>2, <2>3 DEF FrameInv
  <2>. QED BY <2>1, <2>2, <2>4 DEF Keeps
<1>. HIDE DEF f, g
<1>. QED BY <1>1, <1>4, <1>8, <1>9, BecomesKeeps

\* A call inside a call has the registry of the context.
LEMMA NestKeeps ==
    ASSUME Inv, Nest
    PROVE  Inv'
<1>. DEFINE k == Len(stack)
            f == Call(Target.of, context, "ruuid_document")
<1>1. /\ Fetching /\ stack # <<>> /\ Target.scheme = "did" /\ k < MaxDepth
      /\ stack' = Append(stack, f) /\ context' = context /\ result' = result
  BY DEF Nest, Fetching, At
<1>2. stack \in Seq(Frame) /\ k \in Nat \ {0} /\ context \in Registry \cup {None}
  BY <1>1, TopInOrder DEF Inv, ResolverTypeOK
<1>3. Target.of \in Ruuid
  BY <1>1, TargetType, DidType
<1>4. f \in Frame /\ FrameInv(f) /\ f.registry = context /\ f.saved = context
  BY <1>2, <1>3, CallKeeps DEF Follow
<1>. HIDE DEF f
<1>5. /\ stack' \in Seq(Frame) /\ Len(stack') = k + 1
      /\ DOMAIN stack' = 1..(k + 1) /\ DOMAIN stack = 1..k
      /\ \A n \in 1..k : stack'[n] = stack[n]
      /\ stack'[k + 1] = f
  BY <1>1, <1>2, <1>4
<1>6. ResolverTypeOK'
  BY <1>1, <1>2, <1>5, DepthAssumption DEF Inv, ResolverTypeOK
<1>7. RegistryIsInherited'
  <2>1. /\ \A n \in 1..k : /\ stack[n].registry = stack[1].registry
                           /\ stack[n].saved = IF n = 1 THEN None
                                               ELSE stack[1].registry
                           /\ context = stack[1].registry
    BY <1>5 DEF Inv, RegistryIsInherited
  <2>2. context = stack[1].registry /\ stack'[1] = stack[1]
    BY <1>2, <1>5, <2>1
  <2>3. ASSUME NEW n \in 1..(k + 1)
        PROVE  /\ stack'[n].registry = stack'[1].registry
               /\ stack'[n].saved = IF n = 1 THEN None ELSE stack'[1].registry
               /\ context' = stack'[1].registry
    <3>1. CASE n = k + 1
      BY <1>1, <1>2, <1>4, <1>5, <2>2, <3>1
    <3>2. CASE n \in 1..k
      BY <1>1, <1>5, <2>1, <2>2, <3>2
    <3>. QED BY <1>2, <3>1, <3>2
  <2>4. stack' # <<>>
    BY <1>2, <1>5
  <2>. QED BY <1>5, <2>3, <2>4 DEF RegistryIsInherited
<1>8. \A n \in DOMAIN stack' : FrameInv(stack'[n])
  <2>1. \A n \in 1..k : FrameInv(stack[n])
    BY <1>5 DEF Inv
  <2>2. ASSUME NEW n \in 1..(k + 1) PROVE FrameInv(stack'[n])
    <3>1. CASE n = k + 1
      BY <1>4, <1>5, <3>1
    <3>2. CASE n \in 1..k
      BY <1>5, <2>1, <3>2
    <3>. QED BY <1>2, <3>1, <3>2
  <2>. QED BY <1>5, <2>2
<1>9. (result # None => FrameInv(result) /\ result.at \in {"return", "raise"})'
  BY <1>1 DEF Inv
<1>. QED BY <1>6, <1>7, <1>8, <1>9 DEF Inv, FrameInv, Untampered, Escapes

\* The outermost call, or the refusal of its registry.
LEMMA BeginKeeps ==
    ASSUME Inv, NEW r \in Ruuid, NEW g \in Registry \cup BadRegistry \cup {None},
           NEW w \in Follow, Begin(r, g, w)
    PROVE  Inv'
<1>1. stack = <<>> /\ result = None /\ context = None
  BY DEF Begin, Inv, RegistryIsInherited
<1>2. CASE g \in BadRegistry
  <2>. DEFINE f == Call(r, None, w)
              h == [f EXCEPT !.at = "raise", !.error = "value"]
  <2>1. result' = h /\ stack' = stack /\ context' = context
    BY <1>2 DEF Begin
  <2>2. f \in Frame /\ f.link = None
    BY <1>1, CallKeeps DEF Call
  <2>. HIDE DEF f
  <2>3. h \in Frame
    <3>1. "value" \in Error
      BY DEF Error
    <3>2. \A x \in Frame, y \in Error :
             [x EXCEPT !.at = "raise", !.error = y] \in Frame
      BY DEF Frame
    <3>. QED BY <2>2, <3>1, <3>2
  <2>4. h.at = "raise" /\ h.error = "value" /\ h.link = None
    BY <2>2 DEF Frame
  <2>. HIDE DEF h
  <2>5. FrameInv(h)
    BY <2>4 DEF FrameInv, Untampered, Error
  <2>6. ResolverTypeOK'
    BY <2>1, <2>3 DEF Inv, ResolverTypeOK
  <2>7. RegistryIsInherited'
    BY <2>1 DEF Inv, RegistryIsInherited
  <2>8. \A n \in DOMAIN stack' : FrameInv(stack'[n])
    BY <2>1 DEF Inv
  <2>. QED BY <2>1, <2>4, <2>5, <2>6, <2>7, <2>8 DEF Inv, FrameInv, Untampered, Escapes
<1>3. CASE g \notin BadRegistry
  <2>. DEFINE e == IF g = None THEN context ELSE g
              f == Call(r, e, w)
  <2>1. stack' = <<f>> /\ context' = e /\ result' = result
    BY <1>3 DEF Begin
  <2>2. e \in Registry \cup {None}
    BY <1>1, <1>3
  <2>3. f \in Frame /\ FrameInv(f) /\ f.registry = e /\ f.saved = None
    BY <1>1, <2>2, CallKeeps
  <2>. HIDE DEF e, f
  <2>4. /\ stack' \in Seq(Frame) /\ Len(stack') = 1 /\ DOMAIN stack' = {1}
        /\ stack'[1] = f
    BY <2>1, <2>3
  <2>5. ResolverTypeOK'
    BY <2>1, <2>2, <2>4, DepthAssumption DEF Inv, ResolverTypeOK
  <2>6. RegistryIsInherited'
    BY <2>1, <2>3, <2>4 DEF RegistryIsInherited
  <2>7. \A n \in DOMAIN stack' : FrameInv(stack'[n])
    BY <2>3, <2>4
  <2>8. result' = None
    BY <1>1, <2>1
  <2>. QED BY <2>5, <2>6, <2>7, <2>8 DEF Inv, FrameInv, Untampered, Escapes
<1>. QED BY <1>2, <1>3

\* The end of a call: of the outermost one, and of one inside another.
LEMMA EndKeeps ==
    ASSUME Inv, End
    PROVE  Inv'
<1>. DEFINE k == Len(stack)
<1>1. stack # <<>> /\ Top.at \in {"return", "raise"} /\ context' = Top.saved
  BY DEF End, At
<1>2. /\ stack \in Seq(Frame) /\ k \in Nat \ {0} /\ DOMAIN stack = 1..k
      /\ Top = stack[k] /\ Top \in Frame /\ FrameInv(Top) /\ k <= MaxDepth
      /\ \A n \in 1..k : FrameInv(stack[n])
      /\ result \in Frame \cup {None}
  BY <1>1, TopInOrder DEF Inv, ResolverTypeOK
<1>3. \A n \in 1..k : /\ stack[n].registry = stack[1].registry
                      /\ stack[n].saved = IF n = 1 THEN None
                                          ELSE stack[1].registry
  BY <1>2 DEF Inv, RegistryIsInherited
<1>4. context' \in Registry \cup {None}
  BY <1>1, <1>2 DEF Frame
<1>5. CASE k = 1
  <2>1. stack' = <<>> /\ result' = Top
    BY <1>5 DEF End
  <2>2. ResolverTypeOK'
    BY <1>2, <1>4, <2>1, DepthAssumption DEF ResolverTypeOK
  <2>3. context' = None
    BY <1>1, <1>2, <1>3, <1>5
  <2>4. RegistryIsInherited'
    BY <2>1, <2>3 DEF RegistryIsInherited
  <2>5. \A n \in DOMAIN stack' : FrameInv(stack'[n])
    BY <2>1
  <2>6. (result # None => FrameInv(result) /\ result.at \in {"return", "raise"})'
    BY <1>1, <1>2, <2>1 DEF FrameInv, Untampered
  <2>. QED BY <2>2, <2>4, <2>5, <2>6 DEF Inv, FrameInv, Untampered, Escapes
<1>6. CASE k # 1
  <2>0. PICK j \in Nat \ {0} : k = j + 1
    <3>1. k - 1 \in Nat \ {0} /\ k = (k - 1) + 1
      BY <1>2, <1>6
    <3>. QED BY <3>1
  <2>. DEFINE f == Received(stack[j], Delivered(Top))
              rest == SubSeq(stack, 1, j - 1)
  <2>1. stack' = Append(rest, f) /\ result' = result
    <3>1. Len(stack) - 1 = j /\ Len(stack) - 2 = j - 1
      BY <2>0
    <3>. QED BY <1>6, <3>1 DEF End
  <2>2. j \in 1..k /\ j >= 1 /\ stack[j] \in Frame /\ FrameInv(stack[j])
    BY <1>2, <2>0
  <2>3. Delivered(Top) \in Body
    BY DEF Delivered, SynthesisedDocument, NoService, Body, Document
  <2>4. Keeps(stack[j], f)
    BY <2>2, <2>3, ReceivedKeeps
  <2>5. f \in Frame /\ FrameInv(f) /\ f.registry = stack[j].registry
        /\ f.saved = stack[j].saved
    BY <2>4 DEF Keeps
  <2>. HIDE DEF f
  <2>6. /\ rest \in Seq(Frame) /\ Len(rest) = j - 1
        /\ \A n \in 1..(j - 1) : rest[n] = stack[n]
    BY <1>2, <2>0
  <2>. HIDE DEF rest
  <2>7. /\ stack' \in Seq(Frame) /\ Len(stack') = j /\ DOMAIN stack' = 1..j
        /\ stack'[j] = f /\ \A n \in 1..(j - 1) : stack'[n] = stack[n]
    BY <2>1, <2>2, <2>5, <2>6
  <2>8. ResolverTypeOK'
    BY <1>2, <1>4, <2>0, <2>1, <2>7, DepthAssumption DEF ResolverTypeOK
  <2>9. ASSUME NEW n \in 1..j
        PROVE  /\ stack'[n].registry = stack[1].registry
               /\ stack'[n].saved = IF n = 1 THEN None ELSE stack[1].registry
               /\ FrameInv(stack'[n])
    <3>1. CASE n = j
      BY <1>3, <2>2, <2>5, <2>7, <3>1
    <3>2. CASE n # j
      <4>1. n \in 1..(j - 1) /\ n \in 1..k
        BY <2>0, <3>2
      <4>. QED BY <1>2, <1>3, <2>7, <4>1
    <3>. QED BY <3>1, <3>2
  <2>10. context' = stack[1].registry
    BY <1>1, <1>2, <1>3, <1>6
  <2>11. 1 \in 1..j
    BY <2>2
  <2>12. RegistryIsInherited'
    <3>1. stack' # <<>>
      BY <2>7, <2>11
    <3>2. \A n \in DOMAIN stack' :
             /\ stack'[n].registry = stack'[1].registry
             /\ stack'[n].saved = IF n = 1 THEN None ELSE stack'[1].registry
             /\ context' = stack'[1].registry
      BY <2>7, <2>9, <2>10, <2>11
    <3>. QED BY <3>1, <3>2 DEF RegistryIsInherited
  <2>13. \A n \in DOMAIN stack' : FrameInv(stack'[n])
    BY <2>7, <2>9
  <2>14. (result # None => FrameInv(result) /\ result.at \in {"return", "raise"})'
    BY <2>1 DEF Inv
  <2>. QED BY <2>8, <2>12, <2>13, <2>14 DEF Inv, FrameInv, Untampered, Escapes
<1>. QED BY <1>5, <1>6

-----------------------------------------------------------------------------
(* The theorems.                                                           *)

\* The invariant holds initially.
LEMMA InvInitially ==
    ASSUME ResolverInit
    PROVE  Inv
BY DepthAssumption
   DEF ResolverInit, Inv, ResolverTypeOK, RegistryIsInherited

\* Each step keeps it.
LEMMA InvKept ==
    ASSUME Inv, [ResolverNext]_rvars
    PROVE  Inv'
<1>1. CASE \E r \in Ruuid, g \in Registry \cup BadRegistry \cup {None}, w \in Follow :
              Begin(r, g, w)
  BY <1>1, BeginKeeps
<1>2. CASE \/ \E a \in Domain \cup {None, Lost} : AskPtr(a)
           \/ \E a \in Uri \cup {None, Lost} : AskUri(a) \/ AskTxt(a)
  BY <1>2, QueriesKeep
<1>3. CASE (\E b \in Body : Fetch(b)) \/ Overflow
  BY <1>3, FetchKeeps
<1>8. CASE \E e \in Error : FetchRaises(e)
  BY <1>8, FetchRaisesKeeps
<1>4. CASE Nest
  BY <1>4, NestKeeps
<1>5. CASE Gate
  BY <1>5, GateKeeps
<1>6. CASE End
  BY <1>6, EndKeeps
<1>7. CASE Report \/ UNCHANGED rvars
  <2>1. stack' = stack /\ context' = context /\ result' \in {result, None}
    BY <1>7 DEF Report, rvars
  <2>2. ResolverTypeOK'
    BY <2>1 DEF Inv, ResolverTypeOK
  <2>3. RegistryIsInherited'
    BY <2>1 DEF Inv, RegistryIsInherited
  <2>4. \A n \in DOMAIN stack' : FrameInv(stack'[n])
    BY <2>1 DEF Inv
  <2>5. (result # None => FrameInv(result) /\ result.at \in {"return", "raise"})'
    BY <2>1 DEF Inv
  <2>. QED BY <2>2, <2>3, <2>4, <2>5 DEF Inv, FrameInv, Untampered, Escapes
<1>. QED BY <1>1, <1>2, <1>3, <1>4, <1>5, <1>6, <1>7, <1>8 DEF ResolverNext

\* Every behaviour keeps the invariant.
LEMMA AlwaysInv == ResolverSpec => []Inv
<1>1. ResolverInit => Inv
  BY InvInitially
<1>2. Inv /\ [ResolverNext]_rvars => Inv'
  BY InvKept
<1>. QED BY <1>1, <1>2, PTL DEF ResolverSpec

\* The variables of the resolver keep their types, and its calls fit on the
\* stack, whatever the network answers.
THEOREM ResolverTypeCorrect == ResolverSpec => []ResolverTypeOK
<1>1. Inv => ResolverTypeOK
  BY DEF Inv
<1>. QED BY <1>1, AlwaysInv, PTL

\* Nested calls run on the registry of the outermost one, and the context is
\* empty again when that one has ended.
THEOREM RegistryInherited == ResolverSpec => []RegistryIsInherited
<1>1. Inv => RegistryIsInherited
  BY DEF Inv
<1>. QED BY <1>1, AlwaysInv, PTL

\* A document with an invalid proof never chooses the template.
THEOREM TamperedNeverDrivesAny == ResolverSpec => []TamperedNeverDrives
<1>1. Inv => TamperedNeverDrives
  BY DEF Inv, FrameInv, TamperedNeverDrives
<1>. QED BY <1>1, AlwaysInv, PTL

\* With an explicit registry a failure of the network becomes a traceback or an
\* internal error only as an exception that a web fetch of the outermost call or
\* the DoH primary let through, or by a document that is a JSON array.
THEOREM FailuresReported == ResolverSpec => []FailuresAreReported
<1>1. Inv => FailuresAreReported
  <2>. SUFFICES ASSUME Inv, result # None, result.registry # None, ~Escapes(result)
                PROVE  /\ DriverStatus(result) # 500
                       /\ result.body # Array =>
                             /\ \A verbose \in BOOLEAN :
                                   ResolveExit(result, verbose) # "traceback"
                             /\ ParseExit(result) # "traceback"
                             /\ \A v \in ChainVerdict :
                                   VerifyExit(result, v) # "traceback"
    BY DEF FailuresAreReported
  <2>1. /\ result.at \in {"return", "raise"}
        /\ result.at = "raise" => result.error \in {"unresolved", "value"}
    BY DEF Inv, FrameInv
  <2>2. ~Unexpected(result)
    BY <2>1 DEF Unexpected
  <2>. QED BY <2>1, <2>2
       DEF ResolveExit, ParseExit, DriverStatus, VerifyExit, DetailFails
<1>. QED BY <1>1, AlwaysInv, PTL

=============================================================================
