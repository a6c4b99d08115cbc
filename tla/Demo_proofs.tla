------------------------------ MODULE Demo_proofs ------------------------------
(***************************************************************************)
(* Theorems about Demo, for any zone files, registries and depth: it       *)
(* implements Resolver, so that Resolver's theorems hold of it; the        *)
(* daemon's DoH never lacks its DNS; every answer comes from one server;   *)
(* and, when nothing is lost, the referent that the resolver derives from  *)
(* what the daemon publishes is served, for any orderly zone files.        *)
(***************************************************************************)
EXTENDS Demo, Resolver_proofs

-----------------------------------------------------------------------------
(* Demo implements Resolver.                                               *)

\* A step of Demo is a step of Resolver or leaves its variables alone.
LEMMA StepImplements ==
    ASSUME [Next]_vars
    PROVE  [ResolverNext]_rvars
<1>1. CASE \E r \in Asked, g \in Registry \cup BadRegistry \cup {None},
              w \in Depths : Resolve(r, g, w)
  <2>1. PICK r \in Asked, g \in Registry \cup BadRegistry \cup {None},
             w \in Depths : Resolve(r, g, w)
    BY <1>1
  <2>2. r \in Ruuid /\ w \in Follow /\ Begin(r, g, w)
    BY <2>1, DemoAssumption DEF Resolve
  <2>. QED BY <2>2 DEF ResolverNext
<1>2. CASE QueryPtr
  BY <1>2 DEF QueryPtr, AskPtr, ResolverNext
<1>3. CASE QueryUri
  BY <1>3 DEF QueryUri, AskUri, ResolverNext
<1>4. CASE QueryTxt
  BY <1>4 DEF QueryTxt, AskTxt, ResolverNext
<1>5. CASE GetBody
  BY <1>5 DEF GetBody, Fetch, ResolverNext
<1>6. CASE GetNothing
  BY <1>6 DEF GetNothing, Fetch, ResolverNext
<1>7. CASE Proceed
  BY <1>7 DEF Proceed, ResolverNext
<1>9. CASE GetBroken
  BY <1>9 DEF GetBroken, Error, ResolverNext
<1>8. CASE DaemonStep \/ UNCHANGED vars
  BY <1>8 DEF DaemonStep, rvars, vars
<1>. QED BY <1>1, <1>2, <1>3, <1>4, <1>5, <1>6, <1>7, <1>8, <1>9 DEF Next, Continue

\* What is proved of Resolver, whatever its network answers, holds beside the
\* demo daemon.
THEOREM DemoImplementsResolver == Spec => ResolverSpec
<1>1. Init => ResolverInit
  BY DEF Init
<1>2. [Next]_vars => [ResolverNext]_rvars
  BY StepImplements
<1>. QED BY <1>1, <1>2, PTL DEF Spec, ResolverSpec

-----------------------------------------------------------------------------
(* The daemon.                                                             *)

\* HTTPS is bound only while DNS serves, and DNS is stopped only after HTTPS.
AnchorInv ==
    /\ AnchorTypeOK
    /\ daemon = "down" => listener = Idle
    /\ (daemon # "down" /\ listener["https"] = "bound" /\ daemon # "exiting")
          => daemon = "starting" /\ listener["udp"] = "serving"
    /\ listener["https"] = "bound" => cert # "none"
    /\ DohHasDns

\* The steps of the daemon keep its invariant.
LEMMA AnchorInvKept ==
    ASSUME AnchorInv, AnchorNext
    PROVE  AnchorInv'
<1>. USE DEF AnchorInv, AnchorTypeOK, DohHasDns, Answers, Listener, Idle
<1>1. CASE Launch
  BY <1>1 DEF Launch
<1>2. CASE BindHttps
  BY <1>2 DEF BindHttps, Ready, Before, StartOrder, Wanted
<1>3. CASE WrapHttps
  BY <1>3 DEF WrapHttps
<1>4. CASE Started
  BY <1>4 DEF Started, Wanted
<1>5. CASE Interrupt
  BY <1>5 DEF Interrupt
<1>6. CASE Stopped
  BY <1>6 DEF Stopped
<1>7. CASE Exit
  BY <1>7 DEF Exit
<1>8. ASSUME NEW l \in Listener, Listen(l) PROVE AnchorInv'
  BY <1>8 DEF Listen, Ready
<1>9. ASSUME NEW l \in Listener, StartFails(l) PROVE AnchorInv'
  BY <1>9 DEF StartFails
<1>10. ASSUME NEW l \in Listener, StopListener(l) PROVE AnchorInv'
  BY <1>10 DEF StopListener, Before, StopOrder
<1>. QED BY <1>1, <1>2, <1>3, <1>4, <1>5, <1>6, <1>7, <1>8, <1>9, <1>10
     DEF AnchorNext

\* The daemon's invariant, and the types of what Demo adds.
LEMMA AlwaysAnchorInv == Spec => [](AnchorInv /\ world \in World /\ calm \in BOOLEAN)
<1>. DEFINE I == AnchorInv /\ world \in World /\ calm \in BOOLEAN
<1>1. Init => I
  BY DemoAssumption
     DEF Init, AnchorInit, AnchorInv, AnchorTypeOK, DohHasDns, Answers, Idle,
         Listener
<1>2. I /\ [Next]_vars => I'
  <2>. SUFFICES ASSUME I, [Next]_vars PROVE I'
    OBVIOUS
  <2>1. CASE UNCHANGED <<avars, world>> /\ calm' \in BOOLEAN
    BY <2>1 DEF avars, AnchorInv, AnchorTypeOK, DohHasDns, Answers
  <2>2. CASE DaemonStep
    BY <2>2, AnchorInvKept DEF DaemonStep, Up
  <2>3. CASE UNCHANGED vars
    BY <2>1, <2>3 DEF vars, avars
  <2>4. CASE Continue \/ \E r \in Asked, g \in Registry \cup BadRegistry \cup {None},
                            w \in Depths : Resolve(r, g, w)
    BY <2>1, <2>4
       DEF Continue, QueryPtr, QueryUri, QueryTxt, GetBody, GetNothing, GetBroken, Proceed,
           Resolve, Resolves, Replies, Up
  <2>. QED BY <2>2, <2>3, <2>4 DEF Next
<1>. QED BY <1>1, <1>2, PTL DEF Spec

\* The daemon's DoH, whenever it answers, has the DNS listener behind it.
THEOREM DohAlwaysHasDns == Spec => []DohHasDns
<1>1. AnchorInv => DohHasDns
  BY DEF AnchorInv
<1>. QED BY <1>1, AlwaysAnchorInv, PTL

\* The variables keep their types.
THEOREM DemoTypeCorrect == Spec => []TypeOK
<1>1. (AnchorInv /\ world \in World /\ calm \in BOOLEAN) /\ ResolverTypeOK => TypeOK
  BY DEF AnchorInv, TypeOK
<1>. QED BY <1>1, AlwaysAnchorInv, DemoImplementsResolver, ResolverTypeCorrect, PTL

\* Beside the daemon, as anywhere, nested calls run on the registry of the
\* outermost one.
THEOREM DemoRegistryInherited == Spec => []RegistryIsInherited
BY DemoImplementsResolver, RegistryInherited, PTL

\* A document with an invalid proof never chooses the template.
THEOREM DemoTamperedNeverDrives == Spec => []TamperedNeverDrives
BY DemoImplementsResolver, TamperedNeverDrivesAny, PTL

\* With an explicit registry, which the daemon's DNS and DoH are, a failure of
\* a lookup and of a nested call never becomes a traceback or a 500; what does
\* is an exception of the DoH primary or of a web fetch, or a JSON array.
THEOREM DemoFailuresReported == Spec => []FailuresAreReported
BY DemoImplementsResolver, FailuresReported, PTL

-----------------------------------------------------------------------------
(* Answers.                                                                *)

\* The zone that a call is at, with the files on disk as they are in w.
ZoneIn(w, f) ==
    IF IsDaemon(Server(f)) THEN w.zone ELSE EmitRecords(w.system, None)

\* What a call has so far is from the server it is at; and a query for TXT
\* records means that there was no URI record, or that its answer was lost.
Sourced(w, f) ==
    LET zone == ZoneIn(w, f)
        published == DocumentRecord(zone, f.domain)
    IN  /\ f.at \in {"PTR", "URI", "TXT"} => f.uri = None
        /\ f.at \in {"URI", "TXT"} => f.domain = PtrRecord(zone, f.ruuid.network)
        /\ f.at = "TXT" => f.lossy \/ UriRecord(zone, w.rrtype, f.domain) = None
        /\ f.uri # None =>
              /\ f.domain = PtrRecord(zone, f.ruuid.network)
              /\ \/ f.uri = IF published = None THEN WellKnown(f.domain) ELSE published
                 \/ f.lossy /\ f.uri = WellKnown(f.domain)

AllSourced ==
    /\ \A n \in DOMAIN stack : Sourced(world, stack[n])
    /\ result # None => Sourced(world, result)

\* What the step does after the lookup is done leaves it sourced.
LEMMA SourcedAfterLookup ==
    ASSUME NEW w, NEW f, NEW g, Sourced(w, f),
           g.ruuid = f.ruuid, g.registry = f.registry, g.second = f.second,
           g.lossy = f.lossy, g.domain = f.domain, g.uri = f.uri,
           g.at \notin {"PTR", "URI", "TXT"}
    PROVE  Sourced(w, g)
<1>1. ZoneIn(w, g) = ZoneIn(w, f)
  BY DEF ZoneIn, Server
<1>. QED BY <1>1 DEF Sourced

\* A call whose lookup starts, or starts over, is sourced.
LEMMA SourcedAtStart ==
    ASSUME NEW w, NEW g, g.at = "PTR", g.uri = None
    PROVE  Sourced(w, g)
BY DEF Sourced

\* So is one whose lookup failed.
LEMMA FailLookupSourced ==
    ASSUME NEW w, NEW f \in Frame, Sourced(w, f),
           f.at \in {"PTR", "URI", "TXT"}, NEW e
    PROVE  Sourced(w, FailLookup(f, e))
<1>0. f.uri = None
  BY DEF Sourced
<1>1. CASE FallsBack(f, e)
  <2>. DEFINE g == [f EXCEPT !.second = TRUE, !.at = "PTR", !.lossy = FALSE,
                             !.domain = None]
  <2>1. g.at = "PTR" /\ g.uri = None
    BY <1>0 DEF Frame
  <2>2. FailLookup(f, e) = g
    BY <1>1 DEF FailLookup
  <2>. HIDE DEF g
  <2>. QED BY <2>1, <2>2, SourcedAtStart
<1>2. CASE ~FallsBack(f, e)
  <2>. DEFINE x == IF f.second /\ e \in {"dns", "os"} THEN "unresolved" ELSE e
              g == [f EXCEPT !.at = "raise", !.error = x]
  <2>2. FailLookup(f, e) = g
    BY <1>2 DEF FailLookup
  <2>. HIDE DEF x
  <2>1. /\ g.at = "raise" /\ g.ruuid = f.ruuid /\ g.registry = f.registry
        /\ g.second = f.second /\ g.lossy = f.lossy /\ g.domain = f.domain
        /\ g.uri = f.uri
    BY DEF Frame
  <2>. HIDE DEF g
  <2>. QED BY <2>1, <2>2, SourcedAfterLookup
<1>. QED BY <1>1, <1>2

\* So is one that found a URI which its server publishes, or the default.
LEMMA FoundSourced ==
    ASSUME NEW w, NEW f \in Frame, NEW uri,
           f.domain = PtrRecord(ZoneIn(w, f), f.ruuid.network),
           LET published == DocumentRecord(ZoneIn(w, f), f.domain)
           IN  \/ uri = IF published = None THEN WellKnown(f.domain) ELSE published
               \/ f.lossy /\ uri = WellKnown(f.domain)
    PROVE  Sourced(w, Found(f, uri))
<1>. DEFINE step == IF f.follow = "registry" THEN "return" ELSE "document"
            g == [f EXCEPT !.uri = uri, !.at = step]
<1>1. Found(f, uri) = g /\ step \in {"return", "document"}
  BY DEF Found
<1>. HIDE DEF step
<1>2. /\ g.at = step /\ g.ruuid = f.ruuid /\ g.registry = f.registry
      /\ g.second = f.second /\ g.lossy = f.lossy /\ g.domain = f.domain
      /\ g.uri = uri
  BY DEF Frame
<1>. HIDE DEF g
<1>3. ZoneIn(w, g) = ZoneIn(w, f)
  BY <1>2 DEF ZoneIn, Server
<1>4. Sourced(w, g)
  BY <1>1, <1>2, <1>3 DEF Sourced
<1>. QED BY <1>1, <1>4

\* So is one that received a body.
LEMMA ReceivedSourced ==
    ASSUME NEW w, NEW f \in Frame, Sourced(w, f), NEW b
    PROVE  Sourced(w, Received(f, b))
<1>. DEFINE step == IF f.follow = "document" THEN "return" ELSE "gate"
            g == [f EXCEPT !.body = b, !.at = step]
            h == [f EXCEPT !.referent = b, !.at = "return"]
<1>1. Received(f, b) \in {g, h} /\ step \in {"return", "gate"}
  BY DEF Received
<1>. HIDE DEF step
<1>2. /\ g.at = step /\ g.ruuid = f.ruuid /\ g.registry = f.registry
      /\ g.second = f.second /\ g.lossy = f.lossy /\ g.domain = f.domain
      /\ g.uri = f.uri
  BY DEF Frame
<1>3. /\ h.at = "return" /\ h.ruuid = f.ruuid /\ h.registry = f.registry
      /\ h.second = f.second /\ h.lossy = f.lossy /\ h.domain = f.domain
      /\ h.uri = f.uri
  BY DEF Frame
<1>. HIDE DEF g, h
<1>4. Sourced(w, g)
  BY <1>1, <1>2, SourcedAfterLookup
<1>5. Sourced(w, h)
  BY <1>3, SourcedAfterLookup
<1>. QED BY <1>1, <1>4, <1>5

\* A step of the call on top that leaves it sourced keeps all sourced.
LEMMA BecomesSourced ==
    ASSUME Inv, AllSourced, stack # <<>>, world' = world,
           NEW f, Sourced(world, f), Becomes(f)
    PROVE  AllSourced'
<1>1. stack \in Seq(Frame) /\ Len(stack) \in DOMAIN stack
  BY TopInOrder DEF Inv, ResolverTypeOK
<1>2. /\ DOMAIN stack' = DOMAIN stack
      /\ \A n \in DOMAIN stack : stack'[n] = IF n = Len(stack) THEN f ELSE stack[n]
  BY <1>1 DEF Becomes
<1>. QED BY <1>2 DEF AllSourced, Becomes

\* The queries, which bring what the server has or nothing.
LEMMA QueriesSourced ==
    ASSUME Inv, AllSourced, world' = world, QueryPtr \/ QueryUri \/ QueryTxt
    PROVE  AllSourced'
<1>1. stack # <<>>
  BY DEF QueryPtr, QueryUri, QueryTxt, At
<1>2. Top \in Frame /\ Sourced(world, Top)
  BY <1>1, TopInOrder DEF AllSourced
<1>. DEFINE zone == ZoneIn(world, Top)
            published == DocumentRecord(zone, Top.domain)
<1>3. ZoneOf(Server(Top)) = zone
  BY DEF ZoneOf, ZoneIn
<1>4. SUFFICES \E f : Sourced(world, f) /\ Becomes(f)
  BY <1>1, BecomesSourced
<1>5. Top.at \in {"PTR", "URI", "TXT"} =>
         \A e : Sourced(world, FailLookup(Top, e))
  BY <1>2, FailLookupSourced
<1>6. CASE QueryPtr
  <2>1. PICK a \in {PtrOf(Top), Lost} : AskPtr(a)
    BY <1>6 DEF QueryPtr
  <2>2. Top.at = "PTR" /\ Top.uri = None
    BY <1>2, <2>1 DEF AskPtr, At, Sourced
  <2>3. CASE a \in {Lost, None}
    BY <1>5, <2>1, <2>2, <2>3, NoneAssumption, LostAssumption DEF AskPtr
  <2>4. CASE a \notin {Lost, None}
    <3>. DEFINE g == [Top EXCEPT !.domain = a, !.at = "URI"]
    <3>1. Becomes(g) /\ a = PtrRecord(zone, Top.ruuid.network)
      BY <1>3, <2>1, <2>4 DEF AskPtr, PtrOf
    <3>2. /\ g.at = "URI" /\ g.domain = a /\ g.uri = Top.uri
          /\ g.ruuid = Top.ruuid /\ g.registry = Top.registry
          /\ g.second = Top.second
      BY <1>2 DEF Frame
    <3>. HIDE DEF g
    <3>3. ZoneIn(world, g) = zone
      BY <3>2 DEF ZoneIn, Server
    <3>4. Sourced(world, g)
      BY <2>2, <3>1, <3>2, <3>3 DEF Sourced
    <3>. QED BY <3>1, <3>4
  <2>. QED BY <2>3, <2>4
<1>7. CASE QueryUri
  <2>1. PICK a \in {UriOf(Top), Lost} : AskUri(a)
    BY <1>7 DEF QueryUri
  <2>2. /\ Top.at = "URI" /\ Top.uri = None
        /\ Top.domain = PtrRecord(zone, Top.ruuid.network)
    BY <1>2, <2>1 DEF AskUri, At, Sourced
  <2>3. a = Lost \/ a = UriRecord(zone, world.rrtype, Top.domain)
    BY <1>3, <2>1 DEF UriOf
  <2>4. ASSUME NEW g, g \in {[Top EXCEPT !.at = "TXT", !.lossy = TRUE],
                             [Top EXCEPT !.at = "TXT"]},
               g.lossy \/ UriRecord(zone, world.rrtype, Top.domain) = None
        PROVE  Sourced(world, g)
    <3>1. /\ g.at = "TXT" /\ g.domain = Top.domain /\ g.uri = Top.uri
          /\ g.ruuid = Top.ruuid /\ g.registry = Top.registry
          /\ g.second = Top.second
      BY <1>2, <2>4 DEF Frame
    <3>2. ZoneIn(world, g) = zone
      BY <3>1 DEF ZoneIn, Server
    <3>. QED BY <2>2, <2>4, <3>1, <3>2 DEF Sourced
  <2>5. CASE a = Lost
    <3>. DEFINE g == [Top EXCEPT !.at = "TXT", !.lossy = TRUE]
    <3>1. g.lossy
      BY <1>2 DEF Frame
    <3>2. Sourced(world, g)
      BY <2>4, <3>1
    <3>3. \/ Becomes(g)
          \/ \E e : Becomes(FailLookup(Top, e))
      BY <2>1, <2>5, LostAssumption DEF AskUri
    <3>. QED BY <1>5, <2>2, <3>2, <3>3
  <2>6. CASE a # Lost /\ a = None
    <3>1. Sourced(world, [Top EXCEPT !.at = "TXT"])
      BY <2>3, <2>4, <2>6
    <3>. QED BY <2>1, <2>6, <3>1, NoneAssumption DEF AskUri
  <2>7. CASE a # Lost /\ a # None
    <3>1. a = published
      BY <2>3, <2>7 DEF UriRecord
    <3>2. Sourced(world, Found(Top, a))
      BY <1>2, <2>2, <2>7, <3>1, FoundSourced
    <3>. QED BY <2>1, <2>7, <3>2 DEF AskUri
  <2>. QED BY <2>5, <2>6, <2>7
<1>8. CASE QueryTxt
  <2>1. PICK a \in {TxtOf(Top), Lost} : AskTxt(a)
    BY <1>8 DEF QueryTxt
  <2>2. /\ Top.at = "TXT" /\ Top.uri = None
        /\ Top.domain = PtrRecord(zone, Top.ruuid.network)
        /\ Top.lossy \/ UriRecord(zone, world.rrtype, Top.domain) = None
    BY <1>2, <2>1 DEF AskTxt, At, Sourced
  <2>3. a = Lost \/ a = TxtRecord(zone, world.rrtype, Top.domain)
    BY <1>3, <2>1 DEF TxtOf
  <2>4. CASE a = Lost
    <3>. DEFINE g == [Top EXCEPT !.lossy = TRUE]
    <3>1. /\ g \in Frame /\ g.lossy /\ g.domain = Top.domain
          /\ g.ruuid = Top.ruuid /\ g.registry = Top.registry
          /\ g.second = Top.second
      BY <1>2 DEF Frame
    <3>2. \/ \E e : Becomes(FailLookup(Top, e))
          \/ Becomes(Found(g, WellKnown(Top.domain)))
      BY <2>1, <2>4, LostAssumption DEF AskTxt
    <3>. HIDE DEF g
    <3>3. ZoneIn(world, g) = zone
      BY <3>1 DEF ZoneIn, Server
    <3>4. Sourced(world, Found(g, WellKnown(Top.domain)))
      BY <2>2, <3>1, <3>3, FoundSourced
    <3>. QED BY <1>5, <2>2, <3>2, <3>4
  <2>5. CASE a # Lost /\ a = None
    <3>1. Top.lossy \/ published = None
      BY <2>2, <2>3, <2>5 DEF UriRecord, TxtRecord
    <3>2. Sourced(world, Found(Top, WellKnown(Top.domain)))
      BY <1>2, <2>2, <3>1, FoundSourced
    <3>. QED BY <2>1, <2>5, <3>2, NoneAssumption DEF AskTxt
  <2>6. CASE a # Lost /\ a # None
    <3>1. a = published
      BY <2>3, <2>6 DEF TxtRecord
    <3>2. Sourced(world, Found(Top, a))
      BY <1>2, <2>2, <2>6, <3>1, FoundSourced
    <3>. QED BY <2>1, <2>6, <3>2 DEF AskTxt
  <2>. QED BY <2>4, <2>5, <2>6
<1>. QED BY <1>6, <1>7, <1>8

\* A body, or a call that could not nest.
LEMMA FetchSourced ==
    ASSUME Inv, AllSourced, world' = world, NEW b, Fetching,
           Becomes(Received(Top, b))
    PROVE  AllSourced'
<1>1. stack # <<>>
  BY DEF Fetching, At
<1>2. Top \in Frame /\ Sourced(world, Top)
  BY <1>1, TopInOrder DEF AllSourced
<1>. QED BY <1>1, <1>2, ReceivedSourced, BecomesSourced

\* A fetch that raises.
LEMMA FetchRaisesSourced ==
    ASSUME Inv, AllSourced, world' = world, NEW e, FetchRaises(e)
    PROVE  AllSourced'
<1>. DEFINE g == [Top EXCEPT !.at = "raise", !.error = e]
<1>1. stack # <<>> /\ Becomes(g)
  BY DEF FetchRaises, Fetching, At
<1>2. Top \in Frame /\ Sourced(world, Top)
  BY <1>1, TopInOrder DEF AllSourced
<1>3. /\ g.at = "raise" /\ g.ruuid = Top.ruuid /\ g.registry = Top.registry
      /\ g.second = Top.second /\ g.lossy = Top.lossy /\ g.domain = Top.domain
      /\ g.uri = Top.uri
  BY <1>2 DEF Frame
<1>. HIDE DEF g
<1>. QED BY <1>1, <1>2, <1>3, SourcedAfterLookup, BecomesSourced

\* The check of the proof, which comes after the lookup.
LEMMA GateSourced ==
    ASSUME Inv, AllSourced, world' = world, Gate
    PROVE  AllSourced'
<1>. DEFINE document == Parse(Top.body)
            link == ReferentUri(Top.ruuid, Top.domain, document, Top.uri)
            step == IF Top.follow = "referent" THEN "referent" ELSE "return"
            f == [Top EXCEPT !.at = "raise", !.error = "unresolved"]
            g == [Top EXCEPT !.link = link, !.at = step]
<1>1. stack # <<>> /\ (Becomes(f) \/ Becomes(g)) /\ step \in {"referent", "return"}
  BY DEF Gate, At
<1>. HIDE DEF link, step
<1>2. Top \in Frame /\ Sourced(world, Top)
  BY <1>1, TopInOrder DEF AllSourced
<1>3. \A h \in {f, g} : /\ h.ruuid = Top.ruuid /\ h.registry = Top.registry
                        /\ h.second = Top.second /\ h.lossy = Top.lossy
                        /\ h.domain = Top.domain /\ h.uri = Top.uri
  BY <1>2 DEF Frame
<1>4. f.at = "raise" /\ g.at = step
  BY <1>2 DEF Frame
<1>. HIDE DEF f, g
<1>5. Sourced(world, f) /\ Sourced(world, g)
  BY <1>1, <1>2, <1>3, <1>4, SourcedAfterLookup
<1>. QED BY <1>1, <1>5, BecomesSourced

\* A nested call starts at its PTR query.
LEMMA NestSourced ==
    ASSUME Inv, AllSourced, world' = world, Nest
    PROVE  AllSourced'
<1>. DEFINE f == Call(Target.of, context, "ruuid_document")
<1>1. stack \in Seq(Frame) /\ stack' = Append(stack, f) /\ result' = result
  BY DEF Nest, Inv, ResolverTypeOK
<1>2. f.at = "PTR" /\ f.uri = None
  BY DEF Call
<1>. HIDE DEF f
<1>3. Sourced(world, f)
  BY <1>2, SourcedAtStart
<1>4. \A n \in DOMAIN stack' : stack'[n] \in {f} \cup {stack[m] : m \in DOMAIN stack}
  BY <1>1
<1>. QED BY <1>1, <1>3, <1>4 DEF AllSourced

\* So does the outermost call, unless its registry is refused.
LEMMA BeginSourced ==
    ASSUME Inv, AllSourced, world' = world, NEW r, NEW g, NEW w, Begin(r, g, w)
    PROVE  AllSourced'
<1>1. CASE g \in BadRegistry
  <2>1. /\ stack = <<>> /\ stack' = stack
        /\ result' = [Call(r, None, w) EXCEPT !.at = "raise", !.error = "value"]
    BY <1>1 DEF Begin
  <2>2. result'.at = "raise" /\ result'.uri = None
    BY <2>1 DEF Call
  <2>3. Sourced(world, result')
    BY <2>2 DEF Sourced
  <2>. QED BY <2>1, <2>3 DEF AllSourced
<1>2. CASE g \notin BadRegistry
  <2>1. PICK f : /\ stack' = <<f>> /\ result' = result /\ result = None
                 /\ f.at = "PTR" /\ f.uri = None
    BY <1>2 DEF Begin, Call
  <2>2. Sourced(world, f)
    BY <2>1, SourcedAtStart
  <2>3. \A n \in DOMAIN stack' : stack'[n] = f
    BY <2>1
  <2>. QED BY <2>1, <2>2, <2>3 DEF AllSourced
<1>. QED BY <1>1, <1>2

\* A call that ends is the result, or gives its caller a body.
LEMMA EndSourced ==
    ASSUME Inv, AllSourced, world' = world, End
    PROVE  AllSourced'
<1>1. stack # <<>>
  BY DEF End, At
<1>2. /\ stack \in Seq(Frame) /\ Len(stack) \in Nat \ {0}
      /\ Len(stack) \in DOMAIN stack /\ Top = stack[Len(stack)]
  BY <1>1, TopInOrder DEF Inv, ResolverTypeOK
<1>3. CASE Len(stack) = 1
  BY <1>2, <1>3 DEF End, AllSourced
<1>4. CASE Len(stack) # 1
  <2>1. PICK j \in Nat \ {0} : Len(stack) = j + 1
    <3>. DEFINE k == Len(stack)
    <3>1. k \in Nat \ {0} /\ k # 1
      BY <1>2, <1>4
    <3>. HIDE DEF k
    <3>2. k - 1 \in Nat \ {0} /\ k = (k - 1) + 1
      BY <3>1
    <3>. QED BY <3>2 DEF k
  <2>. DEFINE f == Received(stack[j], Delivered(Top))
  <2>2. /\ stack' = Append(SubSeq(stack, 1, Len(stack) - 2), f)
        /\ result' = result
    BY <1>4, <2>1 DEF End
  <2>3. stack[j] \in Frame /\ j \in DOMAIN stack /\ Sourced(world, stack[j])
    BY <1>2, <2>1 DEF AllSourced
  <2>4. Sourced(world, f)
    BY <2>3, ReceivedSourced
  <2>. HIDE DEF f
  <2>5. \A n \in DOMAIN stack' :
           stack'[n] = f \/ (n \in DOMAIN stack /\ stack'[n] = stack[n])
    <3>. DEFINE s == SubSeq(stack, 1, Len(stack) - 2)
    <3>1. s \in Seq(Frame) /\ Len(s) = j - 1 /\ \A n \in 1..(j - 1) : s[n] = stack[n]
      BY <1>2, <2>1
    <3>2. stack' = Append(s, f)
      BY <2>2
    <3>. HIDE DEF s
    <3>3. DOMAIN stack' = 1..j /\ \A n \in 1..j : stack'[n] = IF n = j THEN f ELSE s[n]
      BY <2>1, <3>1, <3>2
    <3>. QED BY <1>2, <2>1, <3>1, <3>3
  <2>. QED BY <2>2, <2>4, <2>5 DEF AllSourced
<1>. QED BY <1>3, <1>4

\* Every step keeps every call sourced.
LEMMA AllSourcedKept ==
    ASSUME Inv, AllSourced, [Next]_vars
    PROVE  AllSourced'
<1>1. CASE \E r \in Asked, g \in Registry \cup BadRegistry \cup {None},
              w \in Depths : Resolve(r, g, w)
  BY <1>1, BeginSourced DEF Resolve, Resolves
<1>2. CASE QueryPtr \/ QueryUri \/ QueryTxt
  BY <1>2, QueriesSourced DEF QueryPtr, QueryUri, QueryTxt, Resolves
<1>3. CASE GetBody \/ GetNothing
  BY <1>3, FetchSourced DEF GetBody, GetNothing, Fetch, Resolves
<1>7. CASE GetBroken
  BY <1>7, FetchRaisesSourced DEF GetBroken, Resolves
<1>4. CASE Proceed
  <2>1. world' = world
    BY <1>4 DEF Proceed, Resolves
  <2>2. CASE Nest
    BY <2>1, <2>2, NestSourced
  <2>3. CASE Overflow
    BY <2>1, <2>3, FetchSourced DEF Overflow
  <2>4. CASE Gate
    BY <2>1, <2>4, GateSourced
  <2>5. CASE End
    BY <2>1, <2>5, EndSourced
  <2>6. CASE Report
    BY <2>1, <2>6 DEF Report, AllSourced
  <2>. QED BY <1>4, <2>2, <2>3, <2>4, <2>5, <2>6 DEF Proceed
<1>5. CASE DaemonStep \/ UNCHANGED vars
  <2>1. world' = world /\ stack' = stack /\ result' = result
    BY <1>5 DEF DaemonStep, rvars, vars
  <2>. QED BY <2>1 DEF AllSourced
<1>. QED BY <1>1, <1>2, <1>3, <1>4, <1>5, <1>7 DEF Next, Continue

\* A domain and a document URI come from one server and belong together,
\* whatever was lost and whoever was asked first.
THEOREM AnswersArePublished == Spec => []AnswerIsPublished
<1>1. Init => AllSourced
  BY DEF Init, ResolverInit, AllSourced
<1>2. Inv /\ AllSourced /\ [Next]_vars => AllSourced'
  BY AllSourcedKept
<1>3. AllSourced => AnswerIsPublished
  BY DEF AllSourced, AnswerIsPublished, Sourced, FromOneServer, ZoneIn, ZoneOf
<1>4. Spec => []Inv
  BY DemoImplementsResolver, AlwaysInv, PTL
<1>5. Spec => []AllSourced
  BY <1>1, <1>2, <1>4, PTL DEF Spec
<1>. QED BY <1>3, <1>5, PTL

-----------------------------------------------------------------------------
(* What the daemon serves.                                                 *)

\* A set of positions that is not empty has a first one.
LEMMA SomeFirst ==
    ASSUME NEW N \in Nat, NEW S \in SUBSET (1..N), S # {}
    PROVE  \E n \in S : \A m \in 1..(n - 1) : m \notin S
<1>1. S \in SUBSET Nat
  OBVIOUS
<1>2. Min(S) \in S
  BY <1>1, LeastPosition
<1>3. ASSUME NEW m \in S PROVE m \notin 1..(Min(S) - 1)
  <2>1. Min(S) <= m /\ Min(S) \in Nat /\ m \in Nat
    BY <1>1, LeastPosition
  <2>. QED BY <2>1
<1>. QED BY <1>2, <1>3

\* The entry that has the document of a domain, if any has.
LEMMA DocumentEntryIs ==
    ASSUME NEW zone \in Seq(Entry), NEW d
    PROVE  IF \E e \in Range(zone) : e.domain = d /\ Anchored(e) /\ e.service # None
           THEN /\ DocumentEntry(zone, d) \in Range(zone)
                /\ DocumentEntry(zone, d).domain = d
                /\ Anchored(DocumentEntry(zone, d))
                /\ DocumentEntry(zone, d).service # None
           ELSE DocumentEntry(zone, d) = None
<1>. DEFINE Test(e) == e.domain = d /\ Anchored(e) /\ e.service # None
            S == {n \in DOMAIN zone : Test(zone[n])}
            first == CHOOSE n \in DOMAIN zone :
                        Test(zone[n]) /\ \A m \in 1..(n - 1) : ~Test(zone[m])
<1>1. DOMAIN zone = 1..Len(zone) /\ Len(zone) \in Nat
  OBVIOUS
<1>2. Range(zone) = {zone[n] : n \in DOMAIN zone}
  BY DEF Range
<1>3. DocumentEntry(zone, d) =
        IF \E n \in DOMAIN zone : Test(zone[n]) THEN zone[first] ELSE None
  BY DEF DocumentEntry, First
<1>4. ASSUME S # {} PROVE first \in DOMAIN zone /\ Test(zone[first])
  <2>1. PICK n \in S : \A m \in 1..(n - 1) : m \notin S
    BY <1>1, <1>4, SomeFirst
  <2>2. \A m \in 1..(n - 1) : m \in DOMAIN zone
    BY <1>1, <2>1
  <2>3. n \in DOMAIN zone /\ Test(zone[n]) /\ \A m \in 1..(n - 1) : ~Test(zone[m])
    BY <2>1, <2>2
  <2>. HIDE DEF Test
  <2>. QED BY <2>3
<1>. HIDE DEF first
<1>. QED BY <1>2, <1>3, <1>4

\* The route of a domain that a page matches, if there is one.
LEMMA MatchIs ==
    ASSUME NEW zone \in Seq(Entry), NEW d, NEW page
    PROVE  IF \E route \in RoutesOf(zone, d) : Matches(route, page)
           THEN /\ MatchReferent(zone, d, page) \in RoutesOf(zone, d)
                /\ Matches(MatchReferent(zone, d, page), page)
           ELSE MatchReferent(zone, d, page) = None
<1>. DEFINE Has(e, svc) == Routed(svc) /\ Matches(RouteOf(e, svc), page)
            Test(e) == /\ e.domain = d /\ Anchored(e) /\ e.service # None
                       /\ \E n \in DOMAIN e.service : Has(e, e.service[n])
            S == {n \in DOMAIN zone : Test(zone[n])}
            first == CHOOSE n \in DOMAIN zone :
                        Test(zone[n]) /\ \A m \in 1..(n - 1) : ~Test(zone[m])
            entry == IF \E n \in DOMAIN zone : Test(zone[n]) THEN zone[first] ELSE None
            svcs == entry.service
            T == {n \in DOMAIN svcs : Has(entry, svcs[n])}
            one == CHOOSE n \in DOMAIN svcs :
                      Has(entry, svcs[n]) /\ \A m \in 1..(n - 1) : ~Has(entry, svcs[m])
            svc == IF \E n \in DOMAIN svcs : Has(entry, svcs[n]) THEN svcs[one] ELSE None
<1>1. DOMAIN zone = 1..Len(zone) /\ Len(zone) \in Nat
      /\ \A n \in DOMAIN zone : zone[n] \in Entry
  OBVIOUS
<1>2. Range(zone) = {zone[n] : n \in DOMAIN zone}
  BY DEF Range
<1>3. MatchReferent(zone, d, page) =
        IF entry = None THEN None ELSE RouteOf(entry, svc)
  BY DEF MatchReferent, First
<1>4. ASSUME S # {} PROVE first \in DOMAIN zone /\ Test(zone[first])
  <2>1. PICK n \in S : \A m \in 1..(n - 1) : m \notin S
    BY <1>1, <1>4, SomeFirst
  <2>2. \A m \in 1..(n - 1) : m \in DOMAIN zone
    BY <1>1, <2>1
  <2>3. n \in DOMAIN zone /\ Test(zone[n]) /\ \A m \in 1..(n - 1) : ~Test(zone[m])
    BY <2>1, <2>2
  <2>. HIDE DEF Test
  <2>. QED BY <2>3
<1>5. ASSUME S # {} PROVE /\ entry \in Range(zone) /\ Test(entry) /\ entry # None
                          /\ one \in DOMAIN svcs /\ Has(entry, svcs[one])
                          /\ svc = svcs[one]
  <2>1. entry = zone[first] /\ entry \in Range(zone) /\ Test(entry) /\ entry # None
    <3>1. \E n \in DOMAIN zone : Test(zone[n])
      BY <1>5
    <3>2. zone[first] \in Entry
      BY <1>1, <1>4, <1>5
    <3>. HIDE DEF Test, first
    <3>3. entry = zone[first]
      BY <3>1
    <3>. HIDE DEF entry
    <3>. QED BY <1>2, <1>4, <1>5, <3>2, <3>3, NoneAssumption
  <2>. HIDE DEF entry
  <2>2. svcs \in Seq(Service) /\ T # {}
    BY <1>1, <1>2, <2>1 DEF Entry
  <2>3. DOMAIN svcs = 1..Len(svcs) /\ Len(svcs) \in Nat
    BY <2>2
  <2>4. PICK n \in T : \A m \in 1..(n - 1) : m \notin T
    BY <2>2, <2>3, SomeFirst
  <2>5. \A m \in 1..(n - 1) : m \in DOMAIN svcs
    BY <2>3, <2>4
  <2>6. n \in DOMAIN svcs /\ Has(entry, svcs[n]) /\ \A m \in 1..(n - 1) : ~Has(entry, svcs[m])
    BY <2>4, <2>5
  <2>. HIDE DEF Has
  <2>. QED BY <2>1, <2>6
<1>6. S # {} <=> \E route \in RoutesOf(zone, d) : Matches(route, page)
  <2>1. ASSUME NEW e \in Range(zone), Test(e)
        PROVE  \E route \in RoutesOf(zone, d) : Matches(route, page)
    BY <2>1 DEF RoutesOf, Range
  <2>2. ASSUME NEW route \in RoutesOf(zone, d), Matches(route, page)
        PROVE  \E e \in Range(zone) : Test(e)
    BY <2>2 DEF RoutesOf, Range
  <2>. HIDE DEF Test
  <2>. QED BY <1>2, <2>1, <2>2
<1>7. CASE S = {}
  BY <1>3, <1>6, <1>7
<1>8. CASE S # {}
  <2>. HIDE DEF first, one, S
  <2>1. RouteOf(entry, svc) \in RoutesOf(zone, d) /\ Matches(RouteOf(entry, svc), page)
    <3>. HIDE DEF entry
    <3>. QED BY <1>5, <1>8 DEF RoutesOf, Range
  <2>. HIDE DEF entry, svc
  <2>. QED BY <1>3, <1>5, <1>6, <1>8, <2>1
<1>. QED BY <1>7, <1>8

\* The issuer that answers for a host of a domain is of the domain.
LEMMA HostIs ==
    ASSUME NEW zone \in Seq(Entry), NEW d, NEW h, Owns(zone, d, h),
           NEW x \in Range(zone), Anchored(x), h \in HostsFor(x)
    PROVE  HostToIssuer(zone, h) # None /\ HostToIssuer(zone, h).domain = d
<1>. DEFINE Reached(e) == Anchored(e) /\ h \in HostsFor(e)
            Bears(e) == Reached(e) /\ e.service \notin {None, <<>>}
            S == {n \in DOMAIN zone : Reached(zone[n])}
            T == {n \in DOMAIN zone : Bears(zone[n])}
            any == CHOOSE n \in DOMAIN zone :
                      Reached(zone[n]) /\ \A m \in 1..(n - 1) : ~Reached(zone[m])
            best == CHOOSE n \in DOMAIN zone :
                      Bears(zone[n]) /\ \A m \in 1..(n - 1) : ~Bears(zone[m])
            bearing == IF \E n \in DOMAIN zone : Bears(zone[n]) THEN zone[best] ELSE None
            reached == IF \E n \in DOMAIN zone : Reached(zone[n]) THEN zone[any] ELSE None
<1>1. DOMAIN zone = 1..Len(zone) /\ Len(zone) \in Nat
      /\ \A n \in DOMAIN zone : zone[n] \in Entry
  OBVIOUS
<1>2. Range(zone) = {zone[n] : n \in DOMAIN zone}
  BY DEF Range
<1>3. HostToIssuer(zone, h) = IF bearing # None THEN bearing ELSE reached
  BY DEF HostToIssuer, First
<1>4. \A e \in IF {y \in Range(zone) : Bears(y)} # {} THEN {y \in Range(zone) : Bears(y)}
               ELSE {y \in Range(zone) : Reached(y)} : e.domain = d
  BY DEF Owns
<1>5. ASSUME S # {} PROVE any \in DOMAIN zone /\ Reached(zone[any])
  <2>1. PICK n \in S : \A m \in 1..(n - 1) : m \notin S
    BY <1>1, <1>5, SomeFirst
  <2>2. \A m \in 1..(n - 1) : m \in DOMAIN zone
    BY <1>1, <2>1
  <2>3. n \in DOMAIN zone /\ Reached(zone[n]) /\ \A m \in 1..(n - 1) : ~Reached(zone[m])
    BY <2>1, <2>2
  <2>. HIDE DEF Reached
  <2>. QED BY <2>3
<1>6. ASSUME T # {} PROVE best \in DOMAIN zone /\ Bears(zone[best])
  <2>1. PICK n \in T : \A m \in 1..(n - 1) : m \notin T
    BY <1>1, <1>6, SomeFirst
  <2>2. \A m \in 1..(n - 1) : m \in DOMAIN zone
    BY <1>1, <2>1
  <2>3. n \in DOMAIN zone /\ Bears(zone[n]) /\ \A m \in 1..(n - 1) : ~Bears(zone[m])
    BY <2>1, <2>2
  <2>. HIDE DEF Bears
  <2>. QED BY <2>3
<1>7. S # {}
  BY <1>2
<1>8. \A e \in Entry : e # None
  BY NoneAssumption
<1>. HIDE DEF Reached, Bears, any, best
<1>9. CASE T # {}
  <2>1. bearing = zone[best] /\ bearing # None /\ bearing.domain = d
    BY <1>1, <1>2, <1>4, <1>6, <1>8, <1>9
  <2>. HIDE DEF bearing
  <2>. QED BY <1>3, <2>1
<1>10. CASE T = {}
  <2>1. bearing = None /\ {y \in Range(zone) : Bears(y)} = {}
    BY <1>2, <1>10
  <2>2. reached = zone[any] /\ reached # None /\ reached.domain = d
    BY <1>1, <1>2, <1>4, <1>5, <1>7, <1>8, <2>1
  <2>. HIDE DEF bearing, reached
  <2>. QED BY <1>3, <2>1, <2>2
<1>. QED BY <1>9, <1>10

\* A PTR record names the domain of an entry that has the anchor.
LEMMA PtrIs ==
    ASSUME NEW zone \in Seq(Entry), NEW n, PtrRecord(zone, n) # None
    PROVE  \E e \in Range(zone) : Anchored(e) /\ e.domain = PtrRecord(zone, n)
<1>. DEFINE Test(e) == Contains(e.anchors, n)
            S == {k \in DOMAIN zone : Test(zone[k])}
            first == CHOOSE k \in DOMAIN zone :
                        Test(zone[k]) /\ \A m \in 1..(k - 1) : ~Test(zone[m])
            entry == IF \E k \in DOMAIN zone : Test(zone[k]) THEN zone[first] ELSE None
<1>1. DOMAIN zone = 1..Len(zone) /\ Len(zone) \in Nat
      /\ \A k \in DOMAIN zone : zone[k] \in Entry
  OBVIOUS
<1>2. Range(zone) = {zone[k] : k \in DOMAIN zone}
  BY DEF Range
<1>3. PtrRecord(zone, n) = IF entry = None THEN None ELSE entry.domain
  BY DEF PtrRecord, First
<1>4. S # {}
  BY <1>3
<1>5. first \in DOMAIN zone /\ Test(zone[first])
  <2>1. PICK k \in S : \A m \in 1..(k - 1) : m \notin S
    BY <1>1, <1>4, SomeFirst
  <2>2. \A m \in 1..(k - 1) : m \in DOMAIN zone
    BY <1>1, <2>1
  <2>3. k \in DOMAIN zone /\ Test(zone[k]) /\ \A m \in 1..(k - 1) : ~Test(zone[m])
    BY <2>1, <2>2
  <2>. HIDE DEF Test
  <2>. QED BY <2>3
<1>6. \A e \in Entry : Test(e) => Anchored(e)
  <2>1. \A e \in Entry : e.anchors \in Seq(Network)
    BY DEF Entry
  <2>2. ASSUME NEW e \in Entry, Test(e) PROVE e.anchors # <<>>
    BY <2>1, <2>2 DEF Contains
  <2>. QED BY <2>2 DEF Anchored
<1>. HIDE DEF Test, first
<1>7. entry = zone[first] /\ PtrRecord(zone, n) = zone[first].domain
  <2>1. entry = zone[first]
    BY <1>4
  <2>. HIDE DEF entry
  <2>. QED BY <1>3, <2>1
<1>. HIDE DEF entry
<1>. QED BY <1>1, <1>2, <1>5, <1>6, <1>7

\* What a GET brings, when the page it is of or the one that it is redirected
\* to redirects no further.
LEMMA GetIs ==
    ASSUME NEW zone, NEW uri, NEW q,
           q = Onward(zone, uri.host, uri.page),
           q = Onward(zone, uri.host, q)
    PROVE  Get(zone, uri) = Serve(zone, uri.host, q).body
<1>. DEFINE Step(S) == {Onward(zone, uri.host, page) : page \in S}
            Eq(g) == g = [n \in 0..MaxRedirects |->
                             IF n = 0 THEN {uri.page} ELSE Step(g[n - 1])]
            f == [n \in 0..MaxRedirects |-> IF n = 0 THEN {uri.page} ELSE {q}]
            hop == CHOOSE g : Eq(g)
<1>1. Step({uri.page}) = {q} /\ Step({q}) = {q}
  OBVIOUS
<1>2. Followed(zone, uri) = hop[MaxRedirects]
  BY DEF Followed
<1>. HIDE DEF Step
<1>3. Eq(f)
  <2>1. ASSUME NEW n \in 0..MaxRedirects
        PROVE  f[n] = IF n = 0 THEN {uri.page} ELSE Step(f[n - 1])
    <3>1. CASE n = 0
      BY <3>1
    <3>2. CASE n = 1
      <4>1. f[n - 1] = {uri.page} /\ f[n] = {q}
        BY <3>2 DEF MaxRedirects
      <4>. QED BY <1>1, <3>2, <4>1
    <3>3. CASE n > 1
      <4>1. n - 1 \in 0..MaxRedirects /\ n - 1 # 0
        BY <3>3 DEF MaxRedirects
      <4>2. f[n - 1] = {q} /\ f[n] = {q}
        BY <3>3, <4>1
      <4>. QED BY <1>1, <3>3, <4>2
    <3>. QED BY <3>1, <3>2, <3>3 DEF MaxRedirects
  <2>. QED BY <2>1
<1>. HIDE DEF f
<1>4. Eq(hop)
  <2>. HIDE DEF Eq
  <2>. QED BY <1>3
<1>5. \A n \in 0..10 : hop[n] = IF n = 0 THEN {uri.page} ELSE Step(hop[n - 1])
  BY <1>4 DEF MaxRedirects
<1>. HIDE DEF hop
<1>6. hop[1] = {q}
  <2>1. hop[0] = {uri.page} /\ hop[1] = Step(hop[1 - 1]) /\ 1 - 1 = 0
    BY <1>5
  <2>. QED BY <1>1, <2>1
<1>7. ASSUME NEW n \in 1..9, hop[n] = {q}
      PROVE  hop[n + 1] = {q}
  <2>1. n + 1 \in 0..10 /\ n + 1 # 0 /\ (n + 1) - 1 = n
    OBVIOUS
  <2>2. hop[n + 1] = Step(hop[(n + 1) - 1])
    BY <1>5, <2>1
  <2>. QED BY <1>1, <1>7, <2>1, <2>2
<1>8. hop[10] = {q}
  <2>1. hop[1 + 1] = {q} /\ hop[2 + 1] = {q} /\ hop[3 + 1] = {q}
    BY <1>6, <1>7
  <2>2. hop[4 + 1] = {q} /\ hop[5 + 1] = {q} /\ hop[6 + 1] = {q}
    BY <1>7, <2>1
  <2>3. hop[7 + 1] = {q} /\ hop[8 + 1] = {q} /\ hop[9 + 1] = {q}
    BY <1>7, <2>2
  <2>. QED BY <2>3
<1>9. Followed(zone, uri) = {q}
  BY <1>2, <1>8 DEF MaxRedirects
<1>. QED BY <1>9 DEF Get

\* The routes of a domain have their types.
LEMMA RoutesType ==
    ASSUME NEW zone \in Seq(Entry), NEW d \in Domain, NEW route \in RoutesOf(zone, d)
    PROVE  /\ route.path \in Path /\ route.alias \in Path \cup {None}
           /\ route \in Route /\ route # None /\ route.domain = d
<1>1. PICK e \in Range(zone) :
         /\ e.domain = d /\ Anchored(e) /\ e.service # None
         /\ \E s \in Range(e.service) : Routed(s) /\ route = RouteOf(e, s)
  BY DEF RoutesOf
<1>2. PICK svc \in Range(e.service) : Routed(svc) /\ route = RouteOf(e, svc)
  BY <1>1
<1>3. e \in Entry
  BY DEF Range
<1>4. e.service \in Seq(Service) /\ e.anchors \in Seq(Network) /\ e.anchors # <<>>
  BY <1>1, <1>3 DEF Entry, Anchored
<1>5. svc \in Service /\ Head(e.anchors) \in Network
  BY <1>2, <1>4 DEF Range
<1>6. svc.endpoint \in Template /\ svc.type \in Type /\ svc.alias \in Path \cup {None}
  BY <1>2, <1>5 DEF Service, Routed
<1>7. svc.endpoint.path \in Path
  BY <1>6 DEF Template
<1>8. route \in Route
  BY <1>2, <1>1, <1>5, <1>6, <1>7 DEF RouteOf, Route
<1>. QED BY <1>2, <1>1, <1>8, NoneAssumption DEF Route, RouteOf

\* The domain that the default path is served for.
LEMMA StubIs ==
    ASSUME NEW d \in Domain, NEW r \in Ruuid
    PROVE  StubOf(d, r) # None /\ StubOf(d, r).domain = d
<1>1. StubOf(d, r) \in Stub
  BY DEF StubOf, Stub, Ruuid
<1>. QED BY <1>1, NoneAssumption DEF StubOf

\* A host that the daemon serves for a domain.
ServedAs(zone, h, d) ==
    HostToIssuer(zone, h) # None /\ HostToIssuer(zone, h).domain = d

\* What the daemon makes of a page which captures an identifier.
LEMMA ServeIs ==
    ASSUME NEW zone \in Seq(Entry), NEW h, NEW d \in Domain, ServedAs(zone, h, d),
           NEW page \in Page, page.of \in Ruuid, "identifier" \in page.path.holes
    PROVE  LET route == MatchReferent(zone, d, page)
               answer == Serve(zone, h, page)
           IN  /\ route = None /\ page.path = DefaultPath
                     => answer = [body |-> StubOf(d, page.of), location |-> None]
               /\ route # None /\ route.alias = None
                     => /\ answer.body # None /\ answer.body.domain = d
                        /\ answer.location = None
               /\ route # None /\ route.alias # None
                     => answer.location = ExpandAlias(route, page)
<1>. DEFINE route == MatchReferent(zone, d, page)
            stub == [domain |-> route.domain, type |-> route.type]
<1>1. page.path # WellKnownPath
  BY DEF WellKnownPath
<1>2. Serve(zone, h, page) =
        IF route # None
        THEN IF route.alias # None
             THEN [body |-> None, location |-> ExpandAlias(route, page)]
             ELSE [body |-> stub, location |-> None]
        ELSE IF page.path = DefaultPath
             THEN [body |-> StubOf(d, page.of), location |-> None]
        ELSE [body |-> None, location |-> None]
  BY <1>1 DEF Serve, ServedAs
<1>3. route # None => route \in RoutesOf(zone, d)
  BY MatchIs
<1>4. route # None => route.domain = d /\ stub # None
  <2>. SUFFICES ASSUME route # None PROVE route.domain = d /\ stub # None
    OBVIOUS
  <2>. HIDE DEF route
  <2>1. route \in Route /\ route.domain = d
    BY <1>3, RoutesType
  <2>2. stub \in Stub
    BY <2>1 DEF Route, Stub
  <2>. QED BY <2>1, <2>2, NoneAssumption
<1>. HIDE DEF route
<1>. QED BY <1>2, <1>4 DEF route

\* The document of a domain shows the services of its entry.
LEMMA DocumentIs ==
    ASSUME NEW zone \in Seq(Entry), NEW d, DocumentEntry(zone, d) # None
    PROVE  LET entry == DocumentEntry(zone, d)
               document == BuildDocument(zone, d)
           IN  /\ entry \in Range(zone) /\ entry \in Entry /\ entry.domain = d
               /\ Anchored(entry) /\ entry.service \in Seq(Service)
               /\ document \in Document /\ document \notin {Junk, Array, None}
               /\ document.proof = "none" /\ document.service # None
               /\ DOMAIN document.service = DOMAIN entry.service
               /\ \A n \in DOMAIN entry.service :
                     document.service[n] = ServiceForDocument(entry.service[n])
<1>. DEFINE entry == DocumentEntry(zone, d)
            service == [n \in DOMAIN entry.service |->
                           ServiceForDocument(entry.service[n])]
<1>1. /\ entry \in Range(zone) /\ entry.domain = d
      /\ Anchored(entry) /\ entry.service # None
  BY DocumentEntryIs
<1>2. BuildDocument(zone, d) = [service |-> service, proof |-> "none"]
  BY DEF BuildDocument
<1>. HIDE DEF entry
<1>3. entry \in Entry
  BY <1>1 DEF Range
<1>4. entry.service \in Seq(Service)
  BY <1>1, <1>3 DEF Entry
<1>5. \A svc \in Service : ServiceForDocument(svc) \in Service
  BY DEF ServiceForDocument, Service
<1>6. service \in Seq(Service)
  <2>1. DOMAIN entry.service = 1..Len(entry.service) /\ Len(entry.service) \in Nat
        /\ \A n \in DOMAIN entry.service : entry.service[n] \in Service
    BY <1>4
  <2>. QED BY <1>5, <2>1
<1>. HIDE DEF service
<1>7. BuildDocument(zone, d) \in Document
  BY <1>2, <1>6 DEF Document
<1>8. /\ BuildDocument(zone, d) \notin {Junk, Array, None}
      /\ service # None
  BY <1>6, <1>7, NoneAssumption
<1>9. DOMAIN service = DOMAIN entry.service
      /\ \A n \in DOMAIN entry.service : service[n] = ServiceForDocument(entry.service[n])
  BY DEF service
<1>10. /\ BuildDocument(zone, d).service = service
       /\ BuildDocument(zone, d).proof = "none"
  BY <1>2
<1>. QED BY <1>1, <1>3, <1>4, <1>7, <1>8, <1>9, <1>10 DEF entry

\* The well-known page of a domain is its document.
LEMMA DocumentServed ==
    ASSUME NEW zone \in Seq(Entry), NEW d \in Domain, ServedAs(zone, d, d)
    PROVE  Get(zone, WellKnown(d)) = BuildDocument(zone, d)
<1>. DEFINE page == WellKnown(d).page
            answer == Serve(zone, d, page)
<1>1. WellKnown(d).host = d /\ page.path = WellKnownPath /\ WellKnownPath # DefaultPath
  BY DEF WellKnown, Web, WellKnownPath, DefaultPath
<1>2. BuildDocument(zone, d) = None => MatchReferent(zone, d, page) = None
  <2>. SUFFICES ASSUME BuildDocument(zone, d) = None, MatchReferent(zone, d, page) # None
                PROVE  FALSE
    OBVIOUS
  <2>1. RoutesOf(zone, d) # {}
    BY MatchIs
  <2>2. \E e \in Range(zone) : e.domain = d /\ Anchored(e) /\ e.service # None
    BY <2>1 DEF RoutesOf
  <2>3. DocumentEntry(zone, d) \in Range(zone)
    BY <2>2, DocumentEntryIs
  <2>4. DocumentEntry(zone, d) # None
    BY <2>3, NoneAssumption DEF Range
  <2>. QED BY <2>4, DocumentIs
<1>3. answer = [body |-> BuildDocument(zone, d), location |-> None]
  <2>. HIDE DEF page
  <2>. QED BY <1>1, <1>2 DEF Serve, ServedAs
<1>4. page = Onward(zone, d, page)
  <2>. HIDE DEF page
  <2>1. answer.location = None
    BY <1>3
  <2>. QED BY <2>1 DEF Onward
<1>5. Get(zone, WellKnown(d)) = Serve(zone, WellKnown(d).host, page).body
  <2>1. page = Onward(zone, WellKnown(d).host, page)
    BY <1>1, <1>4
  <2>. QED BY <2>1, GetIs
<1>. HIDE DEF page
<1>. QED BY <1>1, <1>3, <1>5

\* A page of a domain that a route matches, or the default one, is served for
\* the domain, by way of an alias that lands or without.
LEMMA PageServed ==
    ASSUME NEW zone \in Seq(Entry), NEW d \in Domain, NEW uri,
           ServedAs(zone, uri.host, d),
           uri.page \in Page, uri.page.of \in Ruuid, uri.page.domain = d,
           "identifier" \in uri.page.path.holes,
           \/ uri.page.path = DefaultPath
           \/ \E route \in RoutesOf(zone, d) : Matches(route, uri.page),
           \A route \in RoutesOf(zone, d) :
              route.alias # None => Lands(route, RoutesOf(zone, d))
    PROVE  Get(zone, uri) # None /\ Get(zone, uri).domain = d
<1>. DEFINE h == uri.host
            page == uri.page
            routes == RoutesOf(zone, d)
            route == MatchReferent(zone, d, page)
            answer == Serve(zone, h, page)
            next == ExpandAlias(route, page)
            then == MatchReferent(zone, d, next)
            last == Serve(zone, h, next)
<1>1. IF \E x \in routes : Matches(x, page)
      THEN route \in routes /\ Matches(route, page)
      ELSE route = None
  BY MatchIs
<1>2. /\ route = None /\ page.path = DefaultPath
            => answer = [body |-> StubOf(d, page.of), location |-> None]
      /\ route # None /\ route.alias = None
            => /\ answer.body # None /\ answer.body.domain = d
               /\ answer.location = None
      /\ route # None /\ route.alias # None => answer.location = next
  BY ServeIs
<1>3. \A x \in routes : /\ x.path \in Path /\ x.alias \in Path \cup {None}
                        /\ x \in Route /\ x # None /\ x.domain = d
  BY RoutesType
<1>4. StubOf(d, page.of) # None /\ StubOf(d, page.of).domain = d
  BY StubIs
<1>. HIDE DEF h, page, routes, route, answer, next, then, last
<1>5. CASE route = None \/ route.alias = None
  <2>1. answer.body # None /\ answer.body.domain = d /\ answer.location = None
    <3>1. page.path = DefaultPath \/ \E x \in routes : Matches(x, page)
      BY DEF page, routes
    <3>2. route # None <=> \E x \in routes : Matches(x, page)
      BY <1>1, <1>3
    <3>. QED BY <1>2, <1>4, <1>5, <3>1, <3>2
  <2>2. page = Onward(zone, h, page)
    BY <2>1 DEF Onward, answer
  <2>3. Get(zone, uri) = answer.body
    BY <2>2, GetIs DEF page, h, answer
  <2>. QED BY <2>1, <2>3
<1>6. CASE route # None /\ route.alias # None
  <2>1. route \in routes /\ Lands(route, routes) /\ route.domain = d /\ route.alias \in Path
        /\ route.network \in Network /\ route.type \in Type
    BY <1>1, <1>3, <1>6 DEF routes, Route
  <2>2. /\ next.path = route.alias /\ next.domain = d /\ next.of \in Ruuid
        /\ next.of.type = route.type /\ next.of.network = route.network
        /\ next \in Page
    <3>1. page.of \in Ruuid
      BY DEF page
    <3>. DEFINE r == [page.of EXCEPT !.network = route.network, !.type = route.type]
    <3>2. r \in Ruuid /\ r.type = route.type /\ r.network = route.network
      BY <2>1, <3>1 DEF Ruuid
    <3>3. next = [path |-> route.alias, domain |-> route.domain, of |-> r]
      BY DEF next, ExpandAlias
    <3>. HIDE DEF r
    <3>4. next \in Page
      BY <2>1, <3>2, <3>3 DEF Page
    <3>. QED BY <2>1, <3>2, <3>3, <3>4
  <2>3. next # None
    BY <2>2, NoneAssumption
  <2>4. \/ next.path = DefaultPath
        \/ \E x \in routes : Matches(x, next)
    <3>1. CASE route.alias = DefaultPath
      BY <2>2, <3>1
    <3>2. CASE \E x \in routes :
                 /\ x.path = route.alias
                 /\ "identifier" \in x.path.holes
                 /\ x.path.holes \cap {"day", "uuid"} = {}
                 /\ "type" \in x.path.holes => x.type = route.type
                 /\ "network" \in x.path.holes => x.network = route.network
      BY <1>3, <2>2, <3>2 DEF Matches
    <3>. QED BY <2>1, <3>1, <3>2 DEF Lands
  <2>5. "identifier" \in next.path.holes
    BY <2>1, <2>2 DEF Lands, DefaultPath
  <2>6. IF \E x \in routes : Matches(x, next)
        THEN then \in routes /\ Matches(then, next)
        ELSE then = None
    BY MatchIs DEF routes, then
  <2>7. then # None => then.alias = None
    BY <2>1, <2>2, <2>6 DEF Lands, Matches
  <2>8. /\ then = None /\ next.path = DefaultPath
             => last = [body |-> StubOf(d, next.of), location |-> None]
        /\ then # None /\ then.alias = None
             => /\ last.body # None /\ last.body.domain = d
                /\ last.location = None
    BY <2>2, <2>5, ServeIs DEF then, last, h
  <2>9. StubOf(d, next.of) # None /\ StubOf(d, next.of).domain = d
    BY <2>2, StubIs
  <2>10. last.body # None /\ last.body.domain = d /\ last.location = None
    <3>1. then # None <=> \E x \in routes : Matches(x, next)
      BY <1>3, <2>6
    <3>. QED BY <2>4, <2>7, <2>8, <2>9, <3>1
  <2>11. next = Onward(zone, h, page) /\ next = Onward(zone, h, next)
    BY <1>2, <1>6, <2>3, <2>10 DEF Onward, answer, last
  <2>12. Get(zone, uri) = last.body
    BY <2>11, GetIs DEF page, h, last
  <2>. QED BY <2>10, <2>12
<1>. QED BY <1>5, <1>6

\* The hosts that a daemon with a zone file listens as.
HostsOf(zone) == UNION {HostsFor(e) : e \in Range(zone)}

\* The service entry that is selected from a document, and its type.
LEMMA SelectedIs ==
    ASSUME NEW document \in Document \cup {None}, NEW type \in Type,
           SelectServiceEntry(document, type) # None
    PROVE  /\ document # None /\ document.service # None
           /\ \E n \in DOMAIN document.service :
                 /\ SelectServiceEntry(document, type) = document.service[n]
                 /\ document.service[n].endpoint # None
                 /\ document.service[n].type \in {type, 0}
<1>1. PICK t \in {type, 0} :
         /\ EntriesOf(document, t) # {}
         /\ SelectServiceEntry(document, type) = document.service[Min(EntriesOf(document, t))]
  BY DEF SelectServiceEntry
<1>2. t \in Type
  BY TypeAssumption
<1>3. Min(EntriesOf(document, t)) \in EntriesOf(document, t)
  BY <1>1, <1>2, EntriesType, LeastPosition
<1>. QED BY <1>1, <1>3 DEF EntriesOf

\* What the resolver derives from what the daemon publishes is served.
LEMMA ReferentServed ==
    ASSUME NEW zone \in Seq(Entry), NEW r \in Ruuid, NEW d,
           d = PtrRecord(zone, r.network), d # None,
           DocumentRecord(zone, d) \in {None, WellKnown(d)},
           Orderly(zone, d), Routable(zone, d, r)
    PROVE  LET document == Get(zone, WellKnown(d))
               link == ReferentUri(r, d, Parse(document), WellKnown(d))
           IN  /\ d \in HostsOf(zone)
               /\ ~IsTampered(Parse(document))
               /\ IsWeb(link) /\ link.host \in HostsOf(zone)
               /\ Get(zone, link) # None /\ Get(zone, link).domain = d
<1>. DEFINE document == BuildDocument(zone, d)
            entry == DocumentEntry(zone, d)
            svc == SelectServiceEntry(document, r.type)
            link == ReferentUri(r, d, document, WellKnown(d))
            Page_(path) == [path |-> path, of |-> r, domain |-> d]
<1>1. PICK x \in Range(zone) : Anchored(x) /\ x.domain = d
  BY PtrIs
<1>2. x \in Entry /\ d \in Domain /\ d \in HostsFor(x)
  <2>1. x \in Entry
    BY <1>1 DEF Range
  <2>2. x.domain \in HostsFor(x)
    BY DEF HostsFor
  <2>. QED BY <1>1, <2>1, <2>2 DEF Entry
<1>3. /\ \A h \in {d} \cup UNION {HostsFor(e) : e \in
              {y \in Range(zone) : y.domain = d /\ Anchored(y) /\ y.service # None}} :
            Owns(zone, d, h)
      /\ \A route \in RoutesOf(zone, d) :
            route.alias # None => Lands(route, RoutesOf(zone, d))
  BY DEF Orderly
<1>4. ServedAs(zone, d, d)
  BY <1>1, <1>2, <1>3, HostIs DEF ServedAs
<1>5. Get(zone, WellKnown(d)) = document
  BY <1>2, <1>4, DocumentServed
<1>6. /\ Parse(document) = document /\ ~IsTampered(document)
      /\ document \in Document \cup {None}
  <2>1. CASE entry = None
    BY <2>1 DEF BuildDocument, Parse, IsTampered
  <2>2. CASE entry # None
    <3>1. /\ document \in Document /\ document \notin {Junk, Array, None}
          /\ document.proof = "none"
      BY <2>2, DocumentIs
    <3>. HIDE DEF document
    <3>2. "service" \in DOMAIN document
      BY <3>1 DEF Document
    <3>. QED BY <3>1, <3>2 DEF Parse, IsTampered
  <2>. QED BY <2>1, <2>2
<1>7. d \in HostsOf(zone)
  BY <1>2 DEF HostsOf
<1>8. link = SubstituteTemplate(TemplateOf(svc), r, d, WellKnown(d))
  BY DEF ReferentUri
<1>9. WellKnown(d).scheme = "https" /\ WellKnown(d).host = d
  BY DEF WellKnown, Web
<1>10. ASSUME NEW path \in Path
       PROVE  Page_(path) \in Page
  BY <1>2 DEF Page
<1>11. CASE svc = None
  <2>1. /\ link = Web("https", d, Page_(DefaultPath))
        /\ DefaultPath \in Path /\ "identifier" \in DefaultPath.holes
    BY <1>8, <1>11
       DEF TemplateOf, SubstituteTemplate, DefaultTemplate, DefaultPath, Path, Hole
  <2>2. /\ link.scheme = "https" /\ link.host = d /\ link.page = Page_(DefaultPath)
    BY <2>1 DEF Web
  <2>. HIDE DEF link
  <2>3. Get(zone, link) # None /\ Get(zone, link).domain = d
    BY <1>2, <1>3, <1>4, <1>10, <2>1, <2>2, PageServed
  <2>. QED BY <1>5, <1>6, <1>7, <2>2, <2>3 DEF IsWeb, link
<1>12. CASE svc # None
  <2>1. /\ document # None /\ document.service # None
        /\ \E n \in DOMAIN document.service :
              /\ svc = document.service[n] /\ svc.endpoint # None
              /\ svc.type \in {r.type, 0}
    BY <1>6, <1>12, SelectedIs DEF Ruuid
  <2>2. entry # None
    BY <2>1 DEF BuildDocument
  <2>3. /\ entry \in Range(zone) /\ entry \in Entry /\ entry.domain = d
        /\ Anchored(entry) /\ entry.service \in Seq(Service)
        /\ DOMAIN document.service = DOMAIN entry.service
        /\ \A n \in DOMAIN entry.service :
              document.service[n] = ServiceForDocument(entry.service[n])
    BY <2>2, DocumentIs
  <2>. HIDE DEF document, entry, svc
  <2>4. PICK n \in DOMAIN entry.service :
           /\ svc = ServiceForDocument(entry.service[n]) /\ svc.endpoint # None
           /\ svc.type \in {r.type, 0}
    BY <2>1, <2>3
  <2>. DEFINE s == entry.service[n]
              t == s.endpoint
              h == IF t.scheme \in {"http", "https"} /\ t.host # None THEN t.host ELSE d
              page == Page_(t.path)
  <2>5. s \in Service /\ s \in Range(entry.service)
    BY <2>3 DEF Range
  <2>6. /\ svc.endpoint = t /\ svc.type = s.type /\ svc.bare = s.bare
        /\ t \in Template /\ s.type \in Type
    BY <2>4, <2>5, TypeAssumption DEF ServiceForDocument, Service, Ruuid
  <2>7. /\ s.bare /\ t.scheme \in {"http", "https", "relative"}
        /\ "identifier" \in t.path.holes
        /\ t.path.holes \cap {"day", "uuid"} = {}
        /\ ("type" \in t.path.holes /\ t.path # DefaultPath) => s.type = r.type
        /\ "network" \in t.path.holes => Head(entry.anchors) = r.network
    BY <1>12, <2>6 DEF Routable, document, svc, entry
  <2>8. t.path \in Path /\ t.host \in Domain \cup {None}
    BY <2>6 DEF Template
  <2>. HIDE DEF s, t
  <2>9. link.scheme \in {"http", "https"} /\ link.host = h /\ link.page = page
    <3>1. TemplateOf(svc) = t
      BY <1>12, <2>6 DEF TemplateOf
    <3>2. link = IF t.scheme \in {"http", "https"}
                 THEN Web(t.scheme, IF t.host = None THEN d ELSE t.host, page)
                 ELSE Web("https", d, page)
      BY <1>8, <1>9, <2>7, <3>1 DEF SubstituteTemplate, IsWeb
    <3>. HIDE DEF link, page
    <3>. QED BY <2>7, <3>2 DEF Web
  <2>10. h \in HostsFor(entry)
    <3>1. t.scheme \in {"http", "https"} /\ t.host # None => t.host \in HostsFor(entry)
      <4>. SUFFICES ASSUME t.scheme \in {"http", "https"}, t.host # None
                    PROVE  t.host \in HostsFor(entry)
        OBVIOUS
      <4>1. entry.service # None /\ s.endpoint # None /\ IsWeb(s.endpoint) /\ s.endpoint.host # None
        BY <2>3, <2>4, <2>6, NoneAssumption DEF IsWeb, t
      <4>. QED BY <2>5, <4>1 DEF HostsFor, t
    <3>2. d \in HostsFor(entry)
      BY <2>3 DEF HostsFor
    <3>. QED BY <3>1, <3>2
  <2>. HIDE DEF h, link
  <2>11. h \in HostsOf(zone)
    BY <2>3, <2>10 DEF HostsOf
  <2>12. ServedAs(zone, h, d)
    <3>1. entry.service # None
      BY <2>3, NoneAssumption
    <3>2. Owns(zone, d, h)
      BY <1>3, <2>3, <2>10, <3>1
    <3>. QED BY <2>3, <2>10, <3>2, HostIs DEF ServedAs
  <2>13. \/ t.path = DefaultPath
         \/ \E route \in RoutesOf(zone, d) : Matches(route, page)
    <3>. SUFFICES ASSUME t.path # DefaultPath
                  PROVE  \E route \in RoutesOf(zone, d) : Matches(route, page)
      OBVIOUS
    <3>. DEFINE route == RouteOf(entry, s)
    <3>1. Routed(s)
      BY <2>4, <2>6, <2>7, NoneAssumption DEF Routed, t
    <3>2. route \in RoutesOf(zone, d)
      <4>1. entry.service # None
        BY <2>3, NoneAssumption
      <4>. QED BY <2>3, <2>5, <3>1, <4>1 DEF RoutesOf
    <3>3. /\ route.path = t.path /\ route.domain = d /\ route.type = s.type
          /\ route.network = Head(entry.anchors)
      BY <2>3 DEF RouteOf, t
    <3>. HIDE DEF route
    <3>4. Matches(route, page)
      BY <2>7, <3>3 DEF Matches
    <3>. QED BY <3>2, <3>4
  <2>14. Get(zone, link) # None /\ Get(zone, link).domain = d
    BY <1>2, <1>3, <1>10, <2>7, <2>8, <2>9, <2>12, <2>13, PageServed
  <2>. QED BY <1>5, <1>6, <1>7, <2>9, <2>11, <2>14 DEF IsWeb, link
<1>. QED BY <1>11, <1>12

-----------------------------------------------------------------------------
(* A resolution that loses nothing.                                        *)

\* The domain that the daemon publishes for the network of a call, and the
\* referent URI that follows from the document it publishes for the domain.
DomainIn(w, f) == PtrRecord(w.zone, f.ruuid.network)

LinkIn(w, f) ==
    ReferentUri(f.ruuid, DomainIn(w, f), Parse(Get(w.zone, WellKnown(DomainIn(w, f)))),
                WellKnown(DomainIn(w, f)))

\* A call that asks the daemon for a referent of a domain that it publishes, and
\* one whose document and routes are the daemon's too.
Concerned(w, f) ==
    f.follow = "referent" /\ IsDaemon(f.registry) /\ DomainIn(w, f) # None

Provided(w, f) ==
    /\ DocumentRecord(w.zone, DomainIn(w, f)) \in {None, WellKnown(DomainIn(w, f))}
    /\ Routable(w.zone, DomainIn(w, f), f.ruuid)

\* What such a call has so far is what the daemon publishes.
OnTrack(w, f) ==
    Concerned(w, f) =>
        /\ ~f.second
        /\ f.at # "PTR" => f.domain = DomainIn(w, f)
        /\ Provided(w, f) =>
              /\ f.at # "raise"
              /\ f.at \in {"document", "gate", "referent", "return"}
                    => f.uri = WellKnown(DomainIn(w, f))
              /\ f.at \in {"gate", "referent", "return"}
                    => f.body = Get(w.zone, WellKnown(DomainIn(w, f)))
              /\ f.at \in {"referent", "return"} => f.link = LinkIn(w, f)
              /\ f.at = "return" => f.referent = Get(w.zone, LinkIn(w, f))

\* While nothing is lost: the outermost call is on track, and has calls inside
\* only while it fetches, and never if the daemon provides what it asks for.
CalmInv ==
    calm =>
        /\ Up
        /\ stack # <<>> =>
              /\ OnTrack(world, stack[1])
              /\ Len(stack) > 1 =>
                    /\ stack[1].at \in {"document", "referent"}
                    /\ ~(Concerned(world, stack[1]) /\ Provided(world, stack[1]))
        /\ result # None => OnTrack(world, result)

\* A call that is about the same RUUID, registry and depth.
Same(f, g) == g.ruuid = f.ruuid /\ g.registry = f.registry /\ g.follow = f.follow

LEMMA SameConcern ==
    ASSUME NEW w, NEW f, NEW g, Same(f, g)
    PROVE  /\ DomainIn(w, g) = DomainIn(w, f) /\ LinkIn(w, g) = LinkIn(w, f)
           /\ Concerned(w, g) <=> Concerned(w, f)
           /\ Provided(w, g) <=> Provided(w, f)
<1>1. DomainIn(w, g) = DomainIn(w, f)
  BY DEF DomainIn, Same
<1>. QED BY <1>1 DEF LinkIn, Concerned, Provided, Same

\* A step of the call on top that leaves it on track, if it is the outermost.
LEMMA CalmBecomes ==
    ASSUME Inv, CalmInv, stack # <<>>, UNCHANGED <<avars, world>>, calm' => calm,
           NEW f, Becomes(f), (calm' /\ Len(stack) = 1) => OnTrack(world, f)
    PROVE  CalmInv'
<1>. SUFFICES ASSUME calm' PROVE CalmInv'
  BY DEF CalmInv
<1>1. stack \in Seq(Frame) /\ Len(stack) \in Nat \ {0} /\ 1 \in DOMAIN stack
  BY TopInOrder DEF Inv, ResolverTypeOK
<1>2. /\ stack' # <<>> /\ Len(stack') = Len(stack)
      /\ stack'[1] = IF Len(stack) = 1 THEN f ELSE stack[1]
      /\ result' = result
  BY <1>1 DEF Becomes
<1>3. Up' = Up
  BY DEF Up, Answers, avars
<1>4. calm /\ world' = world
  OBVIOUS
<1>5. OnTrack(world, stack'[1])
  BY <1>2, <1>4 DEF CalmInv
<1>6. Len(stack') > 1 =>
         /\ stack'[1].at \in {"document", "referent"}
         /\ ~(Concerned(world, stack'[1]) /\ Provided(world, stack'[1]))
  BY <1>1, <1>2, <1>4 DEF CalmInv
<1>7. Up' /\ (result' # None => OnTrack(world, result'))
  BY <1>2, <1>3, <1>4 DEF CalmInv
<1>. QED BY <1>4, <1>5, <1>6, <1>7 DEF CalmInv

\* What the outermost call is asked of, while it is on track.
LEMMA CalmTop ==
    ASSUME Inv, CalmInv, calm, stack # <<>>, Len(stack) = 1
    PROVE  /\ Top \in Frame /\ FrameInv(Top) /\ OnTrack(world, Top)
           /\ Concerned(world, Top) => ZoneOf(Server(Top)) = world.zone
<1>1. Top \in Frame /\ FrameInv(Top) /\ Top = stack[1]
  BY TopInOrder
<1>2. OnTrack(world, Top)
  BY <1>1 DEF CalmInv
<1>3. Concerned(world, Top) => ZoneOf(Server(Top)) = world.zone
  BY <1>2, DemoAssumption, RegistryAssumption
     DEF OnTrack, Concerned, ZoneOf, Server, IsDaemon
<1>. QED BY <1>1, <1>2, <1>3

\* The queries.
LEMMA QueriesCalm ==
    ASSUME Inv, CalmInv, QueryPtr \/ QueryUri \/ QueryTxt
    PROVE  CalmInv'
<1>1. stack # <<>> /\ UNCHANGED <<avars, world>> /\ (calm' => calm)
  BY DEF QueryPtr, QueryUri, QueryTxt, At, Resolves, Replies
<1>2. SUFFICES \E f : Becomes(f) /\ ((calm' /\ Len(stack) = 1) => OnTrack(world, f))
  BY <1>1, CalmBecomes
<1>. DEFINE d == DomainIn(world, Top)
<1>3. ASSUME calm', Len(stack) = 1
      PROVE  /\ Top \in Frame /\ OnTrack(world, Top)
             /\ Concerned(world, Top) =>
                   /\ PtrOf(Top) = d
                   /\ Top.at # "PTR" => /\ UriOf(Top) = UriRecord(world.zone, world.rrtype, d)
                                        /\ TxtOf(Top) = TxtRecord(world.zone, world.rrtype, d)
  <2>1. /\ Top \in Frame /\ OnTrack(world, Top)
        /\ Concerned(world, Top) => ZoneOf(Server(Top)) = world.zone
    BY <1>1, <1>3, CalmTop
  <2>. QED BY <2>1 DEF OnTrack, PtrOf, UriOf, TxtOf, DomainIn
<1>4. ASSUME NEW uri, calm', Len(stack) = 1, Top.at # "PTR",
             Concerned(world, Top) /\ Provided(world, Top) => uri = WellKnown(d)
      PROVE  OnTrack(world, Found(Top, uri))
  <2>. DEFINE step == IF Top.follow = "registry" THEN "return" ELSE "document"
              g == [Top EXCEPT !.uri = uri, !.at = step]
  <2>1. Top \in Frame /\ OnTrack(world, Top)
    BY <1>3, <1>4
  <2>2. Found(Top, uri) = g /\ (Concerned(world, Top) => step = "document")
    BY DEF Found, Concerned
  <2>. HIDE DEF step
  <2>3. /\ g.uri = uri /\ g.at = step /\ Same(Top, g)
        /\ g.second = Top.second /\ g.domain = Top.domain
    BY <2>1 DEF Frame, Same
  <2>. HIDE DEF g
  <2>4. OnTrack(world, g)
    BY <1>4, <2>1, <2>2, <2>3, SameConcern DEF OnTrack
  <2>. QED BY <2>2, <2>4
<1>5. ASSUME NEW a, calm', Len(stack) = 1, a # None, Top.at # "PTR",
             Concerned(world, Top) => a = DocumentRecord(world.zone, d)
      PROVE  OnTrack(world, Found(Top, a))
  <2>1. Concerned(world, Top) /\ Provided(world, Top) => a = WellKnown(d)
    BY <1>5 DEF Provided
  <2>. QED BY <1>4, <1>5, <2>1
<1>6. CASE QueryPtr
  <2>1. PICK a \in {PtrOf(Top), Lost} : Replies(a) /\ AskPtr(a)
    BY <1>6 DEF QueryPtr
  <2>6. PICK f : /\ Becomes(f)
                 /\ \/ \E e : f = FailLookup(Top, e)
                    \/ f = [Top EXCEPT !.domain = a, !.at = "URI"]
                 /\ (a \in Domain /\ a # Lost)
                       => f = [Top EXCEPT !.domain = a, !.at = "URI"]
    BY <2>1, NoneAssumption DEF AskPtr
  <2>2. Becomes(f)
    BY <2>6
  <2>3. ASSUME calm', Len(stack) = 1, Concerned(world, Top)
        PROVE  OnTrack(world, f)
    <3>1. a = d /\ a # None /\ a # Lost /\ Top \in Frame /\ OnTrack(world, Top)
      BY <1>3, <2>1, <2>3 DEF Replies, Concerned
    <3>. DEFINE g == [Top EXCEPT !.domain = a, !.at = "URI"]
    <3>2. f = g
      <4>1. a \in Domain
        BY <2>1, <3>1 DEF AskPtr
      <4>. QED BY <2>6, <3>1, <4>1
    <3>3. g.at = "URI" /\ g.domain = d /\ Same(Top, g) /\ g.second = Top.second
      BY <3>1 DEF Frame, Same
    <3>. HIDE DEF g, d
    <3>4. OnTrack(world, g)
      BY <2>3, <3>1, <3>3, SameConcern DEF OnTrack, d
    <3>. QED BY <3>2, <3>4
  <2>4. ASSUME calm', Len(stack) = 1
        PROVE  Same(Top, f)
    <3>1. Top \in Frame
      BY <1>3, <2>4
    <3>2. \A e : Same(Top, FailLookup(Top, e))
      BY <3>1 DEF FailLookup, Same, Frame
    <3>3. Same(Top, [Top EXCEPT !.domain = a, !.at = "URI"])
      BY <3>1 DEF Same, Frame
    <3>. QED BY <2>6, <3>2, <3>3
  <2>5. (calm' /\ Len(stack) = 1) => OnTrack(world, f)
    BY <2>3, <2>4, SameConcern DEF OnTrack
  <2>. QED BY <2>2, <2>5
<1>7. CASE QueryUri
  <2>1. PICK a \in {UriOf(Top), Lost} : Replies(a) /\ AskUri(a)
    BY <1>7 DEF QueryUri
  <2>2. Top.at = "URI"
    BY <2>1 DEF AskUri, At
  <2>3. CASE ~calm' \/ Len(stack) # 1
    <3>1. \E f : Becomes(f)
      BY <2>1 DEF AskUri
    <3>. QED BY <2>3, <3>1
  <2>4. CASE calm' /\ Len(stack) = 1
    <3>1. a # Lost /\ a = UriOf(Top)
      BY <2>1, <2>4 DEF Replies
    <3>2. CASE a = None
      <4>. DEFINE g == [Top EXCEPT !.at = "TXT"]
      <4>1. Becomes(g)
        BY <2>1, <3>1, <3>2, NoneAssumption DEF AskUri
      <4>2. Top \in Frame /\ OnTrack(world, Top)
        BY <1>3, <2>4
      <4>3. g.at = "TXT" /\ g.domain = Top.domain /\ Same(Top, g) /\ g.second = Top.second
        BY <4>2 DEF Frame, Same
      <4>. HIDE DEF g
      <4>4. OnTrack(world, g)
        BY <2>2, <4>2, <4>3, SameConcern DEF OnTrack
      <4>. QED BY <4>1, <4>4
    <3>3. CASE a # None
      <4>1. Becomes(Found(Top, a))
        BY <2>1, <3>1, <3>3 DEF AskUri
      <4>2. Concerned(world, Top) => a = DocumentRecord(world.zone, d)
        BY <1>3, <2>2, <2>4, <3>1, <3>3 DEF UriRecord
      <4>. QED BY <1>5, <2>2, <2>4, <3>3, <4>1, <4>2
    <3>. QED BY <3>2, <3>3
  <2>. QED BY <2>3, <2>4
<1>8. CASE QueryTxt
  <2>1. PICK a \in {TxtOf(Top), Lost} : Replies(a) /\ AskTxt(a)
    BY <1>8 DEF QueryTxt
  <2>2. Top.at = "TXT"
    BY <2>1 DEF AskTxt, At
  <2>3. CASE ~calm' \/ Len(stack) # 1
    <3>1. \E f : Becomes(f)
      BY <2>1 DEF AskTxt
    <3>. QED BY <2>3, <3>1
  <2>4. CASE calm' /\ Len(stack) = 1
    <3>1. a # Lost /\ a = TxtOf(Top)
      BY <2>1, <2>4 DEF Replies
    <3>2. CASE a = None
      <4>1. Becomes(Found(Top, WellKnown(Top.domain)))
        BY <2>1, <3>1, <3>2, NoneAssumption DEF AskTxt
      <4>2. Concerned(world, Top) => Top.domain = d
        BY <1>3, <2>2, <2>4 DEF OnTrack
      <4>3. OnTrack(world, Found(Top, WellKnown(Top.domain)))
        BY <1>4, <2>2, <2>4, <4>2
      <4>. QED BY <4>1, <4>3
    <3>3. CASE a # None
      <4>1. Becomes(Found(Top, a))
        BY <2>1, <3>1, <3>3 DEF AskTxt
      <4>2. Concerned(world, Top) => a = DocumentRecord(world.zone, d)
        BY <1>3, <2>2, <2>4, <3>1, <3>3 DEF TxtRecord
      <4>. QED BY <1>5, <2>2, <2>4, <3>3, <4>1, <4>2
    <3>. QED BY <3>2, <3>3
  <2>. QED BY <2>3, <2>4
<1>. QED BY <1>6, <1>7, <1>8

\* What the outermost call is after, while it is on track, is the daemon's.
LEMMA CalmTarget ==
    ASSUME Inv, CalmInv, calm, Fetching, Len(stack) = 1,
           world \in World, \A d \in Domain : Orderly(world.zone, d),
           Concerned(world, Top), Provided(world, Top)
    PROVE  /\ IsWeb(Target) /\ Target.scheme # "did"
           /\ Brings(Target) = {Get(world.zone, Target)}
           /\ Top.at = "document" => Target = WellKnown(DomainIn(world, Top))
           /\ Top.at = "referent" => Target = LinkIn(world, Top)
<1>. DEFINE d == DomainIn(world, Top)
<1>1. stack # <<>> /\ Top.at \in {"document", "referent"}
  BY DEF Fetching, At
<1>2. Top \in Frame /\ OnTrack(world, Top) /\ Up
  BY <1>1, CalmTop DEF CalmInv
<1>3. /\ Top.at = "document" => Target = WellKnown(d)
      /\ Top.at = "referent" => Target = LinkIn(world, Top)
  BY <1>1, <1>2 DEF OnTrack, Target
<1>4. world.zone \in Seq(Entry) /\ Top.ruuid \in Ruuid
  BY <1>2, DemoAssumption DEF Frame
<1>5. d # None /\ d = PtrRecord(world.zone, Top.ruuid.network)
      /\ DocumentRecord(world.zone, d) \in {None, WellKnown(d)}
      /\ Routable(world.zone, d, Top.ruuid)
  BY DEF Concerned, Provided, DomainIn
<1>6. Orderly(world.zone, d)
  <2>1. PICK x \in Range(world.zone) : x.domain = d
    BY <1>4, <1>5, PtrIs
  <2>2. x \in Entry
    BY <1>4, <2>1 DEF Range
  <2>. QED BY <2>1, <2>2 DEF Entry
<1>7. /\ d \in HostsOf(world.zone)
      /\ IsWeb(LinkIn(world, Top)) /\ LinkIn(world, Top).host \in HostsOf(world.zone)
  <2>. HIDE DEF d
  <2>. QED BY <1>4, <1>5, <1>6, ReferentServed DEF LinkIn, d
<1>8. WellKnown(d).scheme = "https" /\ WellKnown(d).host = d
  BY DEF WellKnown, Web
<1>9. IsWeb(Target) /\ Target.host \in HostsOf(world.zone)
  BY <1>1, <1>3, <1>7, <1>8 DEF IsWeb
<1>10. Answers(Target.scheme) /\ Target.scheme \notin {"data", "relative", "other", "did"}
  BY <1>2, <1>9 DEF Up, IsWeb, Listener
<1>11. Brings(Target) = {Get(world.zone, Target)}
  BY <1>9, <1>10 DEF Brings, Hosts, HostsOf
<1>. QED BY <1>3, <1>9, <1>10, <1>11

\* A body.
LEMMA FetchCalm ==
    ASSUME Inv, CalmInv, world \in World, \A d \in Domain : Orderly(world.zone, d),
           GetBody \/ GetNothing \/ (Overflow /\ Resolves /\ UNCHANGED calm)
    PROVE  CalmInv'
<1>1. stack # <<>> /\ UNCHANGED <<avars, world>> /\ (calm' => calm) /\ Fetching
      /\ Top.at \in {"document", "referent"}
  BY DEF GetBody, GetNothing, Overflow, Fetching, At, Resolves
<1>2. PICK b : /\ Becomes(Received(Top, b))
               /\ calm' => (b \in Brings(Target) \/ Target.scheme = "did")
  BY DEF GetBody, GetNothing, Overflow, Fetch
<1>. DEFINE d == DomainIn(world, Top)
            step == IF Top.follow = "document" THEN "return" ELSE "gate"
            g == [Top EXCEPT !.body = b, !.at = step]
            h == [Top EXCEPT !.referent = b, !.at = "return"]
<1>3. ASSUME calm', Len(stack) = 1
      PROVE  OnTrack(world, Received(Top, b))
  <2>1. Top \in Frame /\ OnTrack(world, Top)
    BY <1>1, <1>3, CalmTop
  <2>2. Concerned(world, Top) /\ Provided(world, Top) =>
           /\ Top.at = "document" => b = Get(world.zone, WellKnown(d))
           /\ Top.at = "referent" => b = Get(world.zone, LinkIn(world, Top))
    BY <1>1, <1>2, <1>3, CalmTarget
  <2>3. CASE Top.at = "document"
    <3>1. Received(Top, b) = g /\ (Concerned(world, Top) => step = "gate")
      BY <2>3 DEF Received, Concerned
    <3>2. step \in {"return", "gate"}
      OBVIOUS
    <3>. HIDE DEF step
    <3>3. /\ g.at = step /\ Same(Top, g) /\ g.second = Top.second /\ g.body = b
          /\ g.domain = Top.domain /\ g.uri = Top.uri
      BY <2>1 DEF Frame, Same
    <3>. HIDE DEF g
    <3>4. OnTrack(world, g)
      BY <2>1, <2>2, <2>3, <3>1, <3>3, SameConcern DEF OnTrack
    <3>. QED BY <3>1, <3>4
  <2>4. CASE Top.at = "referent"
    <3>1. Received(Top, b) = h
      BY <2>4 DEF Received
    <3>2. /\ h.at = "return" /\ Same(Top, h) /\ h.second = Top.second
          /\ h.body = Top.body /\ h.domain = Top.domain /\ h.uri = Top.uri
          /\ h.link = Top.link /\ h.referent = b
      BY <2>1 DEF Frame, Same
    <3>. HIDE DEF h
    <3>3. OnTrack(world, h)
      BY <2>1, <2>2, <2>4, <3>2, SameConcern DEF OnTrack
    <3>. QED BY <3>1, <3>3
  <2>. QED BY <1>1, <2>3, <2>4
<1>. QED BY <1>1, <1>2, <1>3, CalmBecomes

\* The check of the proof, and the referent URI.
LEMMA GateCalm ==
    ASSUME Inv, CalmInv, world \in World, \A d \in Domain : Orderly(world.zone, d),
           Gate, Resolves, UNCHANGED calm
    PROVE  CalmInv'
<1>. DEFINE d == DomainIn(world, Top)
            document == Parse(Top.body)
            entry    == SelectServiceEntry(document, Top.ruuid.type)
            link     == ReferentUri(Top.ruuid, Top.domain, document, Top.uri)
            refused  == entry # None /\ IsTampered(document)
            step     == IF Top.follow = "referent" THEN "referent" ELSE "return"
            f        == [Top EXCEPT !.at = "raise", !.error = "unresolved"]
            g        == [Top EXCEPT !.link = link, !.at = step]
<1>1. stack # <<>> /\ Top.at = "gate" /\ UNCHANGED <<avars, world>> /\ calm' = calm
  BY DEF Gate, At, Resolves
<1>2. Becomes(IF refused THEN f ELSE g)
  BY DEF Gate
<1>3. ASSUME calm, Len(stack) = 1
      PROVE  OnTrack(world, IF refused THEN f ELSE g)
  <2>1. Top \in Frame /\ OnTrack(world, Top)
    BY <1>1, <1>3, CalmTop
  <2>2. ASSUME Concerned(world, Top), Provided(world, Top)
        PROVE  ~refused /\ link = LinkIn(world, Top)
    <3>1. /\ Top.domain = d /\ Top.uri = WellKnown(d)
          /\ Top.body = Get(world.zone, WellKnown(d))
      BY <1>1, <2>1, <2>2 DEF OnTrack
    <3>2. link = LinkIn(world, Top)
      BY <3>1 DEF LinkIn
    <3>3. world.zone \in Seq(Entry) /\ Top.ruuid \in Ruuid
      BY <2>1, DemoAssumption DEF Frame
    <3>4. d # None /\ d = PtrRecord(world.zone, Top.ruuid.network)
          /\ DocumentRecord(world.zone, d) \in {None, WellKnown(d)}
          /\ Routable(world.zone, d, Top.ruuid)
      BY <2>2 DEF Concerned, Provided, DomainIn
    <3>5. d \in Domain
      BY <1>1, <2>1, <3>1, CalmTop, <1>3 DEF FrameInv
    <3>. HIDE DEF d
    <3>6. ~IsTampered(Parse(Get(world.zone, WellKnown(d))))
      BY <3>3, <3>4, <3>5, ReferentServed
    <3>. QED BY <3>1, <3>2, <3>6
  <2>3. Concerned(world, Top) => step = "referent"
    BY DEF Concerned
  <2>4. /\ f.at = "raise" /\ Same(Top, f) /\ f.second = Top.second
        /\ f.domain = Top.domain
    BY <2>1 DEF Frame, Same
  <2>. HIDE DEF step, link, refused
  <2>5. /\ g.at = step /\ Same(Top, g) /\ g.second = Top.second
        /\ g.body = Top.body /\ g.domain = Top.domain /\ g.uri = Top.uri
        /\ g.link = link
    BY <2>1 DEF Frame, Same
  <2>. HIDE DEF f, g
  <2>6. refused => OnTrack(world, f)
    BY <1>1, <2>1, <2>2, <2>4, SameConcern DEF OnTrack
  <2>7. ~refused => OnTrack(world, g)
    BY <1>1, <2>1, <2>2, <2>3, <2>5, SameConcern DEF OnTrack
  <2>. QED BY <2>6, <2>7
<1>. HIDE DEF f, g, refused
<1>. QED BY <1>1, <1>2, <1>3, CalmBecomes

\* A call inside a call: never inside one that the daemon provides for.
LEMMA NestCalm ==
    ASSUME Inv, CalmInv, world \in World, \A d \in Domain : Orderly(world.zone, d),
           Nest, Resolves, UNCHANGED calm
    PROVE  CalmInv'
<1>. SUFFICES ASSUME calm PROVE CalmInv'
  BY DEF CalmInv
<1>. DEFINE c == Call(Target.of, context, "ruuid_document")
<1>1. /\ stack # <<>> /\ Fetching /\ Target.scheme = "did"
      /\ Top.at \in {"document", "referent"} /\ stack' = Append(stack, c)
      /\ result' = result /\ world' = world /\ UNCHANGED avars
  BY DEF Nest, Fetching, At, Resolves
<1>2. stack \in Seq(Frame) /\ Len(stack) \in Nat \ {0} /\ Top = stack[Len(stack)]
  BY <1>1, TopInOrder DEF Inv, ResolverTypeOK
<1>. HIDE DEF c
<1>3. Len(stack') = Len(stack) + 1 /\ stack'[1] = stack[1]
  BY <1>1, <1>2
<1>4. Len(stack) = 1 => ~(Concerned(world, Top) /\ Provided(world, Top))
  BY <1>1, CalmTarget
<1>5. /\ stack[1].at \in {"document", "referent"}
      /\ ~(Concerned(world, stack[1]) /\ Provided(world, stack[1]))
      /\ OnTrack(world, stack[1]) /\ Up /\ (result # None => OnTrack(world, result))
  <2>1. OnTrack(world, stack[1]) /\ Up /\ (result # None => OnTrack(world, result))
    BY <1>1 DEF CalmInv
  <2>2. CASE Len(stack) = 1
    <3>1. Top = stack[1]
      BY <1>2, <2>2
    <3>. QED BY <1>1, <1>4, <2>1, <2>2, <3>1
  <2>3. CASE Len(stack) # 1
    <3>1. Len(stack) > 1
      <4>1. \A k \in Nat \ {0} : k # 1 => k > 1
        OBVIOUS
      <4>. QED BY <1>2, <2>3, <4>1
    <3>. QED BY <1>1, <2>1, <3>1 DEF CalmInv
  <2>. QED BY <2>2, <2>3
<1>6. Up'
  BY <1>1, <1>5 DEF Up, Answers, avars
<1>. QED BY <1>1, <1>3, <1>5, <1>6 DEF CalmInv

\* The end of a call.
LEMMA EndCalm ==
    ASSUME Inv, CalmInv, End, Resolves, UNCHANGED calm
    PROVE  CalmInv'
<1>. SUFFICES ASSUME calm PROVE CalmInv'
  BY DEF CalmInv
<1>. DEFINE k == Len(stack)
<1>1. stack # <<>> /\ world' = world /\ UNCHANGED avars
  BY DEF End, At, Resolves
<1>2. /\ stack \in Seq(Frame) /\ k \in Nat \ {0} /\ Top = stack[k]
      /\ OnTrack(world, stack[1])
  BY <1>1, TopInOrder DEF Inv, ResolverTypeOK, CalmInv
<1>3. Up' /\ (result # None => OnTrack(world, result))
  BY <1>1 DEF Up, Answers, avars, CalmInv
<1>4. CASE k = 1
  <2>1. stack' = <<>> /\ result' = Top
    BY <1>4 DEF End
  <2>. QED BY <1>1, <1>2, <1>3, <1>4, <2>1 DEF CalmInv
<1>5. CASE k # 1
  <2>1. PICK j \in Nat \ {0} : k = j + 1
    <3>1. k - 1 \in Nat \ {0} /\ k = (k - 1) + 1
      BY <1>2, <1>5
    <3>. QED BY <3>1
  <2>. DEFINE b == Delivered(Top)
              f == Received(stack[j], b)
              rest == SubSeq(stack, 1, j - 1)
  <2>2. stack' = Append(rest, f) /\ result' = result
    <3>1. Len(stack) - 1 = j /\ Len(stack) - 2 = j - 1
      BY <2>1
    <3>. QED BY <1>5, <3>1 DEF End
  <2>. HIDE DEF b
  <2>3. /\ rest \in Seq(Frame) /\ Len(rest) = j - 1
        /\ \A n \in 1..(j - 1) : rest[n] = stack[n]
    BY <1>2, <2>1
  <2>. HIDE DEF f, rest
  <2>4. /\ Len(stack') = j
        /\ stack'[1] = IF j = 1 THEN f ELSE stack[1]
    BY <2>1, <2>2, <2>3
  <2>5. /\ stack[1].at \in {"document", "referent"}
        /\ ~(Concerned(world, stack[1]) /\ Provided(world, stack[1]))
    BY <1>1, <1>2, <2>1 DEF CalmInv
  <2>6. CASE j = 1
    <3>. DEFINE s == stack[1]
                step == IF s.follow = "document" THEN "return" ELSE "gate"
    <3>1. s \in Frame
      BY <1>2
    <3>2. /\ Same(s, f) /\ f.second = s.second /\ f.domain = s.domain
      BY <2>6, <3>1 DEF f, Received, Same, Frame
    <3>3. OnTrack(world, f)
      <4>. HIDE DEF s
      <4>. QED BY <1>2, <2>5, <3>2, SameConcern DEF OnTrack, s
    <3>. QED BY <1>1, <1>3, <2>2, <2>4, <2>6, <3>3 DEF CalmInv
  <2>7. CASE j # 1
    BY <1>1, <1>2, <1>3, <2>2, <2>4, <2>5, <2>7 DEF CalmInv
  <2>. QED BY <2>6, <2>7
<1>. QED BY <1>4, <1>5

\* A new outermost call.
LEMMA BeginCalm ==
    ASSUME Inv, CalmInv, NEW r \in Asked, NEW g \in Registry \cup BadRegistry \cup {None},
           NEW w \in Depths, Resolve(r, g, w)
    PROVE  CalmInv'
<1>. SUFFICES ASSUME calm' PROVE CalmInv'
  BY DEF CalmInv
<1>1. /\ Begin(r, g, w) /\ UNCHANGED avars /\ world' = world /\ calm' = Up
      /\ stack = <<>> /\ result = None
  BY DEF Resolve, Resolves, Begin
<1>2. Up'
  BY <1>1 DEF Up, Answers, avars
<1>3. CASE g \in BadRegistry
  <2>. DEFINE f == [Call(r, None, w) EXCEPT !.at = "raise", !.error = "value"]
  <2>1. stack' = <<>> /\ result' = f
    BY <1>1, <1>3 DEF Begin
  <2>2. f.registry = None
    BY DEF Call
  <2>. HIDE DEF f
  <2>3. ~Concerned(world, f)
    BY <2>2, DemoAssumption, RegistryAssumption DEF Concerned, IsDaemon
  <2>. QED BY <1>1, <1>2, <2>1, <2>3 DEF CalmInv, OnTrack
<1>4. CASE g \notin BadRegistry
  <2>1. PICK e : stack' = <<Call(r, e, w)>> /\ result' = result
    BY <1>1, <1>4 DEF Begin
  <2>. DEFINE c == Call(r, e, w)
  <2>2. c.at = "PTR" /\ c.second = FALSE
    BY DEF Call
  <2>. HIDE DEF c
  <2>3. stack'[1] = c /\ Len(stack') = 1
    BY <2>1 DEF c
  <2>4. OnTrack(world, c)
    BY <2>2 DEF OnTrack
  <2>. QED BY <1>1, <1>2, <2>1, <2>3, <2>4 DEF CalmInv
<1>. QED BY <1>3, <1>4

\* Every step keeps it.
LEMMA CalmKept ==
    ASSUME Inv, CalmInv, world \in World, \A d \in Domain : Orderly(world.zone, d),
           [Next]_vars
    PROVE  CalmInv'
<1>1. CASE \E r \in Asked, g \in Registry \cup BadRegistry \cup {None},
              w \in Depths : Resolve(r, g, w)
  BY <1>1, BeginCalm
<1>2. CASE QueryPtr \/ QueryUri \/ QueryTxt
  BY <1>2, QueriesCalm
<1>3. CASE GetBody \/ GetNothing
  BY <1>3, FetchCalm
<1>4. CASE Proceed
  <2>1. Resolves /\ UNCHANGED calm
    BY <1>4 DEF Proceed
  <2>2. CASE Nest
    BY <2>1, <2>2, NestCalm
  <2>3. CASE Overflow
    BY <2>1, <2>3, FetchCalm
  <2>4. CASE Gate
    BY <2>1, <2>4, GateCalm
  <2>5. CASE End
    BY <2>1, <2>5, EndCalm
  <2>6. CASE Report
    BY <2>1, <2>6 DEF Report, Resolves, CalmInv, Up, Answers, avars
  <2>. QED BY <1>4, <2>2, <2>3, <2>4, <2>5, <2>6 DEF Proceed
<1>7. CASE GetBroken
  BY <1>7 DEF GetBroken, CalmInv
<1>5. CASE DaemonStep
  BY <1>5 DEF DaemonStep, rvars, CalmInv
<1>6. CASE UNCHANGED vars
  BY <1>6 DEF vars, CalmInv, Up, Answers
<1>. QED BY <1>1, <1>2, <1>3, <1>4, <1>5, <1>6, <1>7 DEF Next, Continue

\* When nothing is lost, the referent URI that the resolver derives is served
\* by the daemon, for the domain of the RUUID, for every zone file in which the
\* hosts of a domain are nobody else's and its aliases land.
THEOREM ReferentsAreServed ==
    ASSUME \A w \in World, d \in Domain : Orderly(w.zone, d)
    PROVE  Spec => []PublishedReferentsAreServed
<1>. DEFINE I == Inv /\ world \in World /\ CalmInv
<1>1. Init => CalmInv
  BY DEF Init, CalmInv
<1>2. Inv /\ world \in World /\ CalmInv /\ [Next]_vars => CalmInv'
  BY CalmKept
<1>3. I => PublishedReferentsAreServed
  <2>. SUFFICES ASSUME I, result # None, calm,
                       result.follow = "referent", IsDaemon(result.registry),
                       PtrRecord(world.zone, result.ruuid.network) # None,
                       DocumentRecord(world.zone, result.domain)
                          \in {None, WellKnown(result.domain)},
                       Routable(world.zone, result.domain, result.ruuid)
                PROVE  /\ result.at = "return"
                       /\ result.referent # None
                       /\ result.referent.domain = result.domain
    BY DEF PublishedReferentsAreServed
  <2>. DEFINE d == DomainIn(world, result)
  <2>1. /\ OnTrack(world, result) /\ Concerned(world, result)
        /\ result.at \in {"return", "raise"} /\ result.ruuid \in Ruuid
    BY DEF CalmInv, Concerned, DomainIn, Inv, ResolverTypeOK, Frame
  <2>2. result.domain = d
    BY <2>1 DEF OnTrack
  <2>3. Provided(world, result)
    BY <2>2 DEF Provided
  <2>4. result.at = "return" /\ result.referent = Get(world.zone, LinkIn(world, result))
    BY <2>1, <2>3 DEF OnTrack
  <2>5. world.zone \in Seq(Entry)
    BY DemoAssumption
  <2>6. d # None /\ d = PtrRecord(world.zone, result.ruuid.network)
    BY DEF DomainIn
  <2>7. Orderly(world.zone, d)
    <3>1. PICK x \in Range(world.zone) : x.domain = d
      BY <2>5, <2>6, PtrIs
    <3>2. x \in Entry
      BY <2>5, <3>1 DEF Range
    <3>. QED BY <3>1, <3>2 DEF Entry
  <2>. HIDE DEF d
  <2>8. /\ Get(world.zone, LinkIn(world, result)) # None
        /\ Get(world.zone, LinkIn(world, result)).domain = d
    BY <2>1, <2>2, <2>5, <2>6, <2>7, ReferentServed DEF LinkIn, d
  <2>. QED BY <2>2, <2>4, <2>8
<1>4. Spec => []Inv
  BY DemoImplementsResolver, AlwaysInv, PTL
<1>5. Spec => [](world \in World)
  BY AlwaysAnchorInv, PTL
<1>6. Spec => []CalmInv
  BY <1>1, <1>2, <1>4, <1>5, PTL DEF Spec
<1>. QED BY <1>3, <1>4, <1>5, <1>6, PTL

=============================================================================
