--------------------------------- MODULE Demo ---------------------------------
(***************************************************************************)
(* A program that resolves RUUIDs beside the demo daemon: the calls of     *)
(* Resolver, answered by the daemon of Anchor while it is up and by the    *)
(* system's DNS and the public web otherwise.                              *)
(*                                                                         *)
(* The daemon publishes its zone file.  The system's DNS has the records   *)
(* that were exported from one, and the domains it names publish their     *)
(* documents at the well-known place.  The hosts of the daemon's zone are  *)
(* the daemon's for everybody, as install puts them in /etc/hosts.  Any    *)
(* query and any fetch may be lost.                                        *)
(***************************************************************************)
EXTENDS Resolver, Anchor

CONSTANTS
    World,     \* zone files of the daemon and of the system, and certificates
    Asked,     \* the RUUIDs that are resolved
    Depths,    \* the depths they are resolved to
    ByDns,     \* the registry URL of the daemon's DNS
    ByDoh,     \* the registry URL of the daemon's DoH
    BySystem   \* dns://

ASSUME DemoAssumption ==
    /\ World \subseteq [zone: Seq(Entry), system: Seq(Entry),
                        rrtype: {"both", "URI", "TXT"}, outside: SUBSET Body,
                        cert: {"none", "good", "bad"}]
    /\ Asked \subseteq Ruuid
    /\ Depths \subseteq Follow
    /\ DnsRegistry = {ByDns, BySystem}
    /\ DohRegistry = {ByDoh}

VARIABLES
    world, \* the files on disk
    calm   \* nothing was lost and the daemon was up since the last Begin

vars == <<stack, context, result, cert, listener, daemon, world, calm>>

TypeOK ==
    /\ ResolverTypeOK
    /\ AnchorTypeOK
    /\ world \in World
    /\ calm \in BOOLEAN

Init ==
    /\ ResolverInit
    /\ AnchorInit
    /\ world \in World
    /\ cert = world.cert
    /\ calm = FALSE

-----------------------------------------------------------------------------
(* Who answers.                                                            *)

IsDaemon(server) == server \in {ByDns, ByDoh}

\* The server that is asked is up; DoH needs the DNS listener behind it.
Reachable(server) ==
    CASE server = ByDns -> Answers("udp")
      [] server = ByDoh -> Answers("https") /\ Answers("udp")
      [] OTHER -> TRUE

ZoneOf(server) ==
    IF IsDaemon(server) THEN world.zone ELSE EmitRecords(world.system, None)

PtrOf(f) == PtrRecord(ZoneOf(Server(f)), f.ruuid.network)

UriOf(f) == UriRecord(ZoneOf(Server(f)), world.rrtype, f.domain)

TxtOf(f) == TxtRecord(ZoneOf(Server(f)), world.rrtype, f.domain)

Hosts == UNION {HostsFor(e) : e \in Range(world.zone)}

\* What a GET of a URI may bring: from the daemon, from a domain that the
\* system's DNS names, or from outside.
Brings(uri) ==
    CASE uri.scheme = "data" -> {uri.body}
      [] uri.scheme = "relative" -> {None}
      [] uri.scheme = "other" -> world.outside
      [] IsWeb(uri) /\ uri.host \in Hosts ->
             {IF Answers(uri.scheme) THEN Get(world.zone, uri) ELSE None}
      [] IsWeb(uri) /\ uri.host \notin Hosts ->
             {IF uri.page.path = WellKnownPath THEN EmitDocument(world.system, uri.host)
              ELSE None}

-----------------------------------------------------------------------------

\* The daemon serves in full.
Up == daemon = "serving" /\ \A l \in Listener : Answers(l)

Resolves == UNCHANGED <<avars, world>>

Resolve(r, registry, follow) ==
    /\ Begin(r, registry, follow)
    /\ calm' = Up
    /\ Resolves

\* An answer that the server may give: no answer, or its records if it is up.
Replies(answer) ==
    /\ answer = Lost \/ Reachable(Server(Top))
    /\ calm' = (calm /\ answer # Lost)

QueryPtr ==
    /\ At("PTR") /\ Resolves
    /\ \E answer \in {PtrOf(Top), Lost} : Replies(answer) /\ AskPtr(answer)

QueryUri ==
    /\ At("URI") /\ Resolves
    /\ \E answer \in {UriOf(Top), Lost} : Replies(answer) /\ AskUri(answer)

QueryTxt ==
    /\ At("TXT") /\ Resolves
    /\ \E answer \in {TxtOf(Top), Lost} : Replies(answer) /\ AskTxt(answer)

GetBody ==
    /\ Fetching /\ Target.scheme # "did" /\ Resolves
    /\ \E b \in Brings(Target) : Fetch(b) /\ UNCHANGED calm

\* A fetch times out.
GetNothing ==
    /\ Fetching /\ IsWeb(Target) /\ Resolves
    /\ Fetch(None)
    /\ calm' = FALSE

\* A response breaks off; or the file that does not load for the daemon does
\* not load as a CA either.
GetBroken ==
    /\ Resolves
    /\ FetchRaises("http") \/ (cert = "bad" /\ FetchRaises("os"))
    /\ calm' = FALSE

Proceed == Resolves /\ UNCHANGED calm /\ (Nest \/ Overflow \/ Gate \/ End \/ Report)

\* The program's own step: all of them but the first.
Continue == QueryPtr \/ QueryUri \/ QueryTxt \/ GetNothing \/ GetBroken \/ GetBody \/ Proceed

DaemonStep ==
    /\ AnchorNext
    /\ calm' = (calm /\ Up')
    /\ UNCHANGED <<rvars, world>>

Next ==
    \/ \E r \in Asked, g \in Registry \cup BadRegistry \cup {None}, w \in Depths :
          Resolve(r, g, w)
    \/ Continue
    \/ DaemonStep

\* What stop has left to do.
Stopping ==
    (Stopped \/ \E l \in Listener : StopListener(l))
        /\ calm' = (calm /\ Up') /\ UNCHANGED <<rvars, world>>

\* A call runs on, every wait in it being timed; so does stop, once begun.
Spec == Init /\ [][Next]_vars /\ WF_vars(Continue) /\ WF_vars(Stopping)

-----------------------------------------------------------------------------
(* Properties.                                                             *)

\* A domain and a document URI that a lookup returns were published by one
\* server, the one asked last, and belong together: the PTR record of the
\* RUUID's network and the document of that domain.  Only a lookup that lost a
\* query may fall back to the well-known place although another is published.
FromOneServer(f) ==
    LET zone == ZoneOf(Server(f))
        published == DocumentRecord(zone, f.domain)
    IN  f.uri # None =>
            /\ f.domain = PtrRecord(zone, f.ruuid.network)
            /\ \/ f.uri = IF published = None THEN WellKnown(f.domain) ELSE published
               \/ f.lossy /\ f.uri = WellKnown(f.domain)

AnswerIsPublished ==
    /\ \A n \in DOMAIN stack : FromOneServer(stack[n])
    /\ result # None => FromOneServer(result)

\* An RUUID whose referent the daemon has a route to: a service entry that the
\* routes can express, or no entry of the document.
Routable(zone, d, r) ==
    LET document == BuildDocument(zone, d)
        svc      == SelectServiceEntry(document, r.type)
        holes    == svc.endpoint.path.holes
    IN  \/ svc = None
        \/ /\ svc.bare
           /\ svc.endpoint.scheme \in {"http", "https", "relative"}
           /\ "identifier" \in holes
           /\ holes \cap {"day", "uuid"} = {}
           /\ ("type" \in holes /\ svc.endpoint.path # DefaultPath) => svc.type = r.type
           /\ "network" \in holes => Head(DocumentEntry(zone, d).anchors) = r.network

\* Whoever answers for a host is the domain.
Owns(zone, d, h) ==
    LET reached == {e \in Range(zone) : Anchored(e) /\ h \in HostsFor(e)}
        bearing == {e \in reached : e.service \notin {None, <<>>}}
    IN  \A e \in IF bearing # {} THEN bearing ELSE reached : e.domain = d

\* The routes of a domain.
RoutesOf(zone, d) ==
    UNION {{RouteOf(e, svc) : svc \in {s \in Range(e.service) : Routed(s)}} :
              e \in {x \in Range(zone) :
                         x.domain = d /\ Anchored(x) /\ x.service # None}}

\* An alias that leads to a page which is served: the default one, or that of
\* a route which every identifier of the alias matches; and leads no further.
Lands(route, routes) ==
    /\ \A next \in routes : next.path = route.alias => next.alias = None
    /\ \/ route.alias = DefaultPath
       \/ \E next \in routes :
             /\ next.path = route.alias
             /\ "identifier" \in next.path.holes
             /\ next.path.holes \cap {"day", "uuid"} = {}
             /\ "type" \in next.path.holes => next.type = route.type
             /\ "network" \in next.path.holes => next.network = route.network

\* What a zone file must keep to for a domain whose document the daemon itself
\* serves: its hosts are nobody else's, and its aliases land.
Orderly(zone, d) ==
    DocumentRecord(zone, d) \in {None, WellKnown(d)} =>
        /\ \A h \in {d} \cup UNION {HostsFor(e) : e \in
                  {x \in Range(zone) : x.domain = d /\ Anchored(x) /\ x.service # None}} :
              Owns(zone, d, h)
        /\ \A route \in RoutesOf(zone, d) :
              route.alias # None => Lands(route, RoutesOf(zone, d))

\* When nothing is lost, the referent URI that the resolver derives from what
\* the daemon publishes is one that the daemon serves, and serves for the
\* domain of the RUUID: zone records, document, routes, hosts and aliases on
\* one side and template selection and substitution on the other.
PublishedReferentsAreServed ==
    (/\ result # None /\ calm
     /\ result.follow = "referent" /\ IsDaemon(result.registry)
     /\ PtrRecord(world.zone, result.ruuid.network) # None
     /\ cert = "good"
     /\ DocumentRecord(world.zone, result.domain) \in {None, WellKnown(result.domain)}
     /\ Routable(world.zone, result.domain, result.ruuid))
        => /\ result.at = "return"
           /\ result.referent # None
           /\ result.referent.domain = result.domain

\* A resolution ends, even one whose documents name each other.
ResolutionEnds == (stack # <<>>) ~> (stack = <<>>)


=============================================================================
