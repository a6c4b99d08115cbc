----------------------------- MODULE Publication -----------------------------
(***************************************************************************)
(* What a zone file publishes, as pure operators: the DNS records and UUID *)
(* documents that src/ruuid/issue.py and src/ruuid/anchor.py build from    *)
(* it, the answers of the anchor's HTTP handler, and the rules by which    *)
(* src/ruuid/resolve.py turns a document and an RUUID into a referent URI. *)
(*                                                                         *)
(* A zone is the sequence of the domain entries of a zone file; an entry   *)
(* stands for the _Issuer records of its anchors, which share all but the  *)
(* network.  Text with placeholders is a name for its literal part and the *)
(* set of its placeholders; substituting keeps the values beside it.       *)
(***************************************************************************)
EXTENDS Naturals, Sequences, SequencesExt

CONSTANTS
    Domain,   \* domains, and the hosts that URLs name
    Network,  \* networks of IP anchors
    Type,     \* type ids
    Id,       \* identifiers
    Name,     \* literal parts of URL paths
    None,     \* no record, no document, no URI
    Junk,     \* a body that is not JSON
    Array     \* a body that is a JSON array, with something in it

ASSUME TypeAssumption == 0 \in Type

Ruuid == [network: Network, type: Type, id: Id]

Hole == {"identifier", "day", "type", "network", "uuid", "domain"}

Path == [name: Name \cup {"well-known", "default"}, holes: SUBSET Hole]

\* /.well-known/uuid-document.json, and the path of the default template.
WellKnownPath == [name |-> "well-known", holes |-> {}]

DefaultPath == [name |-> "default", holes |-> {"type", "identifier"}]

\* A template; with a web scheme and no host its host is <domain>.
Template == [scheme: {"http", "https", "relative", "did", "other"},
             host: Domain \cup {None}, path: Path]

DefaultTemplate == [scheme |-> "https", host |-> None, path |-> DefaultPath]

\* A service entry, by the number its id ends in.  `bare` says that the id is
\* nothing but the fragment; alias is the daemon's own alias_to.
Service == [type: Type \cup {None}, bare: BOOLEAN,
            endpoint: Template \cup {None}, alias: Path \cup {None}]

\* A document by what is read of it.  It commits at most one key.
Document == [service: Seq(Service) \cup {None},
             proof: {"none", "valid", "invalid"}]

NoService == [service |-> None, proof |-> "none"]

\* What a GET returns.
Stub == [domain: Domain, type: Type]

Body == Document \cup Stub \cup {Junk, Array, None}

\* A path whose placeholders stand for these values.
Page == [path: Path, of: Ruuid \cup {None}, domain: Domain]

Web(s, h, page) == [scheme |-> s, host |-> h, page |-> page]

Did(r) == [scheme |-> "did", of |-> r]

Data(doc) == [scheme |-> "data", body |-> doc]

Relative(page) == [scheme |-> "relative", page |-> page]

Elsewhere == [scheme |-> "other"]

Uri == [scheme: {"http", "https"}, host: Domain, page: Page]
       \cup [scheme: {"did"}, of: Ruuid] \cup [scheme: {"data"}, body: Body]
       \cup [scheme: {"relative"}, page: Page] \cup {Elsewhere}

IsWeb(uri) == uri.scheme \in {"http", "https"}

\* An entry of a zone file, its uuid_document_uri in absolute form.
Entry == [domain: Domain, anchors: Seq(Network),
          service: Seq(Service) \cup {None}, uri: Uri \cup {None}]

\* A route of the daemon, alias_to included.
Route == [path: Path, domain: Domain, network: Network, type: Type,
          alias: Path \cup {None}]

\* No record, document or URI is any of those there are, and what a body may
\* be besides a document or a stub is neither.
ASSUME NoneAssumption ==
    /\ None \notin Domain /\ None \notin Type /\ None \notin Uri
    /\ None \notin Path /\ None \notin Page /\ None \notin Template
    /\ None \notin Service /\ None \notin Seq(Service) /\ None \notin Entry
    /\ None \notin Route
    /\ \A b \in {Junk, Array, None} : b \notin Document /\ b \notin Stub

\* The first element that passes, if there is one.
First(seq, Test(_)) ==
    IF \E n \in DOMAIN seq : Test(seq[n])
    THEN seq[CHOOSE n \in DOMAIN seq :
                 Test(seq[n]) /\ \A m \in 1..(n - 1) : ~Test(seq[m])]
    ELSE None

-----------------------------------------------------------------------------
(* Publishing.                                                             *)

WellKnown(d) ==
    Web("https", d, [path |-> WellKnownPath, of |-> None, domain |-> d])

DocUrl(entry) == IF entry.uri # None THEN entry.uri ELSE WellKnown(entry.domain)

\* _uuid.<domain> has records for a service, unless empty, or for a URI.
Publishes(entry) == entry.service \notin {None, <<>>} \/ entry.uri # None

Anchored(entry) == entry.anchors # <<>>

\* The first PTR record at the reverse name of network n.
PtrRecord(zone, n) ==
    LET entry == First(zone, LAMBDA e : Contains(e.anchors, n))
    IN  IF entry = None THEN None ELSE entry.domain

DocumentRecord(zone, d) ==
    LET entry == First(zone, LAMBDA e :
                     e.domain = d /\ Anchored(e) /\ Publishes(e))
    IN  IF entry = None THEN None ELSE DocUrl(entry)

\* The URI and TXT records at _uuid.<domain>; they differ in what --rrtype
\* leaves out.
UriRecord(zone, rrtype, d) ==
    IF rrtype = "TXT" THEN None ELSE DocumentRecord(zone, d)

TxtRecord(zone, rrtype, d) ==
    IF rrtype = "URI" THEN None ELSE DocumentRecord(zone, d)

\* A service entry as the document shows it.
ServiceForDocument(svc) == [svc EXCEPT !.alias = None]

\* The entry that a domain has its UUID document from: its first with a service.
DocumentEntry(zone, d) ==
    First(zone, LAMBDA e : e.domain = d /\ Anchored(e) /\ e.service # None)

BuildDocument(zone, d) ==
    LET entry == DocumentEntry(zone, d)
    IN  IF entry = None THEN None
        ELSE [service |-> [n \in DOMAIN entry.service |->
                              ServiceForDocument(entry.service[n])],
              proof |-> "none"]

\* emit_document for a domain: what it has no document for gets a basic one.
EmitDocument(zone, d) ==
    LET document == BuildDocument(zone, d)
    IN  IF document = None THEN NoService ELSE document

\* emit_records for a domain, or for all: the entries to publish records of.
EmitRecords(zone, d) ==
    SelectSeq(zone, LAMBDA e : Anchored(e) /\ d \in {None, e.domain})

-----------------------------------------------------------------------------
(* Serving.                                                                *)

HostsFor(entry) ==
    {entry.domain}
    \cup {svc.endpoint.host : svc \in {s \in Range(IF entry.service = None
                                                   THEN <<>> ELSE entry.service) :
             s.endpoint # None /\ IsWeb(s.endpoint) /\ s.endpoint.host # None}}
    \cup (IF entry.uri # None /\ IsWeb(entry.uri) THEN {entry.uri.host} ELSE {})

\* A plausible slip: the first entry of the host, whatever it carries.
HostToAnyIssuer(zone, h) ==
    First(zone, LAMBDA e : Anchored(e) /\ h \in HostsFor(e))

\* The issuer that answers for a host: one with a service, if there is one.
HostToIssuer(zone, h) ==
    LET reached(e) == Anchored(e) /\ h \in HostsFor(e)
        bearing == First(zone, LAMBDA e : reached(e) /\ e.service \notin {None, <<>>})
    IN  IF bearing # None THEN bearing ELSE First(zone, reached)

\* A service entry that the daemon routes.
Routed(svc) ==
    /\ svc.endpoint # None /\ svc.bare /\ svc.type # None
    /\ svc.endpoint.scheme \in {"http", "https", "relative"}

\* Its route.  Siblings share the routes of the first of them.
RouteOf(entry, svc) ==
    [path |-> svc.endpoint.path, domain |-> entry.domain,
     network |-> Head(entry.anchors), type |-> svc.type, alias |-> svc.alias]

\* The routes substitute <type>, <network> and <domain>, and capture
\* <identifier>; <day> and <uuid> stay as they are and match nothing.
Matches(route, page) ==
    /\ route.path = page.path
    /\ page.path.holes \cap {"day", "uuid"} = {}
    /\ "type" \in page.path.holes => page.of.type = route.type
    /\ "network" \in page.path.holes => page.of.network = route.network
    /\ "domain" \in page.path.holes => page.domain = route.domain

\* The first route of a domain that matches, entry by entry.
MatchReferent(zone, d, page) ==
    LET matching(e, svc) == Routed(svc) /\ Matches(RouteOf(e, svc), page)
        entry == First(zone, LAMBDA e :
            /\ e.domain = d /\ Anchored(e) /\ e.service # None
            /\ \E n \in DOMAIN e.service : matching(e, e.service[n]))
    IN  IF entry = None THEN None
        ELSE RouteOf(entry, First(entry.service, LAMBDA svc : matching(entry, svc)))

\* The Location of an alias, with the values of the route.
ExpandAlias(route, page) ==
    [path |-> route.alias, domain |-> route.domain,
     of |-> [page.of EXCEPT !.network = route.network, !.type = route.type]]

StubOf(d, r) == [domain |-> d, type |-> r.type]

\* do_GET for a host and a page: a body, or the page it redirects to.  A route
\* that captures no <identifier> fails, and the connection closes.
Serve(zone, h, page) ==
    LET issuer == HostToIssuer(zone, h)
        route  == MatchReferent(zone, issuer.domain, page)
        body(b) == [body |-> b, location |-> None]
    IN  IF issuer = None THEN body(None)
        ELSE IF page.path = WellKnownPath /\ BuildDocument(zone, issuer.domain) # None
        THEN body(BuildDocument(zone, issuer.domain))
        ELSE IF route # None
        THEN IF "identifier" \notin page.path.holes THEN body(None)
             ELSE IF route.alias # None
             THEN [body |-> None, location |-> ExpandAlias(route, page)]
             ELSE body([domain |-> route.domain, type |-> route.type])
        ELSE IF page.path = DefaultPath THEN body(StubOf(issuer.domain, page.of))
        ELSE body(None)

\* urllib follows redirects, ten at most, on the host it is at.
MaxRedirects == 10

Onward(zone, h, page) ==
    LET next == Serve(zone, h, page).location
    IN  IF next = None THEN page ELSE next

\* The page that the redirects end at, as the one element of a set.
Followed(zone, uri) ==
    LET hop[n \in 0..MaxRedirects] ==
            IF n = 0 THEN {uri.page}
            ELSE {Onward(zone, uri.host, page) : page \in hop[n - 1]}
    IN  hop[MaxRedirects]

Get(zone, uri) ==
    CHOOSE b \in {Serve(zone, uri.host, page).body : page \in Followed(zone, uri)} : TRUE

-----------------------------------------------------------------------------
(* Resolving a document.                                                   *)

\* _parse_doc: None for a body that is no JSON object.
Parse(body) ==
    IF body \in {Junk, Array, None} THEN None
    ELSE IF "service" \in DOMAIN body THEN body ELSE NoService

\* The service entries of a document for a type, by position.
EntriesOf(document, type) ==
    IF document = None \/ document.service = None THEN {}
    ELSE {n \in DOMAIN document.service :
             document.service[n].endpoint # None /\ document.service[n].type = type}

\* A plausible slip: the issuer-wide default entry is left out.
SelectTypeEntry(document, type) ==
    IF EntriesOf(document, type) = {} THEN None
    ELSE document.service[Min(EntriesOf(document, type))]

\* The entry of the type, else of type 0; the first of several.
SelectServiceEntry(document, type) ==
    LET entries == IF EntriesOf(document, type) # {} THEN EntriesOf(document, type)
                   ELSE EntriesOf(document, 0)
    IN  IF entries = {} THEN None ELSE document.service[Min(entries)]

TemplateOf(entry) == IF entry = None THEN DefaultTemplate ELSE entry.endpoint

\* A relative result moves to the host of the document, if it is on the web.
SubstituteTemplate(template, r, d, documentUri) ==
    LET page == [path |-> template.path, of |-> r, domain |-> d]
    IN  CASE template.scheme \in {"http", "https"} ->
                 Web(template.scheme,
                     IF template.host = None THEN d ELSE template.host, page)
          [] template.scheme = "relative" ->
                 IF IsWeb(documentUri)
                 THEN Web(documentUri.scheme, documentUri.host, page)
                 ELSE Relative(page)
          [] template.scheme = "did" -> Did(r)
          [] OTHER -> Elsewhere

ReferentUri(r, d, document, documentUri) ==
    SubstituteTemplate(TemplateOf(SelectServiceEntry(document, r.type)),
                       r, d, documentUri)

\* The DID document made for an RUUID; its alias is nothing a resolver reads.
SynthesisedDocument == NoService

\* A signed document whose signature is not its committed key's.
IsTampered(document) == document # None /\ document.proof = "invalid"

=============================================================================
