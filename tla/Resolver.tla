------------------------------- MODULE Resolver -------------------------------
(***************************************************************************)
(* resolve_ruuid of src/ruuid/resolve.py: the registry phase against a     *)
(* registry and its fallback, the fetch of the UUID document, the check of *)
(* its proof and the fetch of the referent, with the resolutions that a    *)
(* did:uuid URI starts inside a fetch (src/ruuid/did.py).                  *)
(*                                                                         *)
(* A frame of the stack is a call of resolve_ruuid; `context` is the       *)
(* thread-local registry that calls leave for the calls inside them.  The  *)
(* answers of DNS and of the web are parameters of the actions, so that    *)
(* Next here lets the network say anything.                                *)
(***************************************************************************)
EXTENDS Publication

CONSTANTS
    DnsRegistry, \* registries dns://HOST
    DohRegistry, \* registries doh://HOST
    BadRegistry, \* registry texts that are no such URL
    System,      \* the system's own DNS
    Lost,        \* what a query answers that is not answered
    MaxDepth     \* calls that fit on the interpreter's stack

ASSUME RegistryAssumption ==
    /\ DnsRegistry \cap DohRegistry = {}
    /\ BadRegistry \cap (DnsRegistry \cup DohRegistry) = {}
    /\ None \notin DnsRegistry \cup DohRegistry \cup BadRegistry
    /\ System \notin DnsRegistry \cup DohRegistry

ASSUME LostAssumption == Lost \notin Domain \cup Uri \cup {None}

ASSUME DepthAssumption == MaxDepth \in Nat \ {0}

Registry == DnsRegistry \cup DohRegistry

Follow == {"registry", "document", "ruuid_document", "referent_uri", "referent"}

\* ResolveError; a DNSException; an OSError; an http.client.HTTPException; a
\* ValueError.
Error == {"unresolved", "dns", "os", "http", "value"}

\* at: what the call does next.  second: it is at its fallback.  lossy: a
\* query of this attempt was lost and read as no record.
Frame == [ruuid: Ruuid, registry: Registry \cup {None},
          saved: Registry \cup {None}, follow: Follow,
          at: {"PTR", "URI", "TXT", "document", "gate", "referent", "return",
               "raise"},
          second: BOOLEAN, lossy: BOOLEAN, domain: Domain \cup {None},
          uri: Uri \cup {None}, body: Body, link: Uri \cup {None},
          referent: Body, error: Error \cup {None}]

VARIABLES
    stack,   \* the calls of resolve_ruuid in progress, outermost first
    context, \* _resolve_context.registry
    result   \* the outermost call, once it has ended

rvars == <<stack, context, result>>

ResolverTypeOK ==
    /\ stack \in Seq(Frame)
    /\ Len(stack) <= MaxDepth
    /\ context \in Registry \cup {None}
    /\ result \in Frame \cup {None}

ResolverInit ==
    /\ stack = <<>>
    /\ context = None
    /\ result = None

Call(r, registry, follow) ==
    [ruuid |-> r, registry |-> registry, saved |-> context, follow |-> follow,
     at |-> "PTR", second |-> FALSE, lossy |-> FALSE, domain |-> None,
     uri |-> None, body |-> None, link |-> None, referent |-> None,
     error |-> None]

Top == Last(stack)

At(step) == stack # <<>> /\ Top.at = step

\* The call on top of the stack becomes f.
Becomes(f) ==
    /\ stack' = [stack EXCEPT ![Len(stack)] = f]
    /\ UNCHANGED <<context, result>>

-----------------------------------------------------------------------------
(* The registry phase.                                                     *)

\* An explicit registry is asked first and the system's DNS after it.
Server(f) == IF f.registry = None \/ f.second THEN System ELSE f.registry

\* What a query may fail with.  Over DoH: no connection, a response that breaks
\* off or is not HTTP, a body that is not a DNS message.
TransportErrors(f) ==
    IF Server(f) \in DohRegistry THEN {"os", "http", "dns"} ELSE {"dns"}

\* What FailoverResolver catches of its primary.
FallsBack(f, e) == f.registry # None /\ ~f.second /\ e # "http"

\* A plausible slip: the fallback goes on where the primary failed.
ResumeAtFallback(f, e) ==
    IF FallsBack(f, e)
    THEN [f EXCEPT !.second = TRUE,
                   !.at = IF f.domain = None THEN "PTR" ELSE "URI"]
    ELSE [f EXCEPT !.at = "raise",
                   !.error = IF f.second /\ e \in {"dns", "os"}
                             THEN "unresolved" ELSE e]

\* A plausible slip: the errors of the fallback are let through.
FailUnwrapped(f, e) ==
    IF FallsBack(f, e)
    THEN [f EXCEPT !.second = TRUE, !.at = "PTR", !.lossy = FALSE,
                   !.domain = None]
    ELSE [f EXCEPT !.at = "raise", !.error = e]

\* A plausible slip: the fallback falls back to itself.
FailAgain(f, e) ==
    IF f.registry # None /\ e # "http"
    THEN [f EXCEPT !.second = TRUE, !.at = "PTR", !.lossy = FALSE,
                   !.domain = None]
    ELSE [f EXCEPT !.at = "raise", !.error = e]

\* A failed lookup: from the primary the fallback starts over, unless the HTTP
\* of DoH broke; the transport errors of the fallback become ResolveErrors.
FailLookup(f, e) ==
    IF FallsBack(f, e)
    THEN [f EXCEPT !.second = TRUE, !.at = "PTR", !.lossy = FALSE,
                   !.domain = None]
    ELSE [f EXCEPT !.at = "raise",
                   !.error = IF f.second /\ e \in {"dns", "os"}
                             THEN "unresolved" ELSE e]

\* The lookup has the URI of the document.
Found(f, uri) ==
    [f EXCEPT !.uri = uri,
              !.at = IF f.follow = "registry" THEN "return" ELSE "document"]

\* resolve_domain: the first PTR record.
AskPtr(answer) ==
    /\ At("PTR")
    /\ answer \in Domain \cup {None, Lost}
    /\ \/ answer = Lost /\ \E e \in TransportErrors(Top) : Becomes(FailLookup(Top, e))
       \/ answer = None /\ Becomes(FailLookup(Top, "unresolved"))
       \/ /\ answer \in Domain
          /\ Becomes([Top EXCEPT !.domain = answer, !.at = "URI"])

\* _query_for_uri, URI records.  It takes a DNSException for no record.
AskUri(answer) ==
    /\ At("URI")
    /\ answer \in Uri \cup {None, Lost}
    /\ \/ /\ answer = Lost
          /\ \E e \in TransportErrors(Top) :
                Becomes(IF e = "dns" THEN [Top EXCEPT !.at = "TXT", !.lossy = TRUE]
                        ELSE FailLookup(Top, e))
       \/ answer = None /\ Becomes([Top EXCEPT !.at = "TXT"])
       \/ answer \in Uri /\ Becomes(Found(Top, answer))

\* _query_for_uri, TXT records, and the default of resolve.
AskTxt(answer) ==
    /\ At("TXT")
    /\ answer \in Uri \cup {None, Lost}
    /\ \/ /\ answer = Lost
          /\ \E e \in TransportErrors(Top) :
                Becomes(IF e = "dns"
                        THEN Found([Top EXCEPT !.lossy = TRUE], WellKnown(Top.domain))
                        ELSE FailLookup(Top, e))
       \/ answer = None /\ Becomes(Found(Top, WellKnown(Top.domain)))
       \/ answer \in Uri /\ Becomes(Found(Top, answer))

-----------------------------------------------------------------------------
(* The document and the referent.                                          *)

\* The call has fetched b from the URI it is at.
Received(f, b) ==
    IF f.at = "document"
    THEN [f EXCEPT !.body = b,
                   !.at = IF f.follow = "document" THEN "return" ELSE "gate"]
    ELSE [f EXCEPT !.referent = b, !.at = "return"]

Fetching == At("document") \/ At("referent")

Target == IF Top.at = "document" THEN Top.uri ELSE Top.link

\* fetch_url_body: the body, or None after a failure that it catches.
Fetch(b) ==
    /\ Fetching
    /\ b \in Body
    /\ Target.scheme # "did"
    /\ Target.scheme = "data" => b = Target.body
    /\ Target.scheme = "relative" => b = None
    /\ Becomes(Received(Top, b))

\* fetch_url_body raises: the HTTP broke, or for https the certificate of the
\* demo does not load.
FetchRaises(e) ==
    /\ Fetching
    /\ IsWeb(Target)
    /\ e = "http" \/ (e = "os" /\ Target.scheme = "https")
    /\ Becomes([Top EXCEPT !.at = "raise", !.error = e])

\* A plausible slip: nothing bounds the nesting.
NestUnbounded ==
    /\ Fetching
    /\ Target.scheme = "did"
    /\ stack' = Append(stack, Call(Target.of, context, "ruuid_document"))
    /\ UNCHANGED <<context, result>>

\* DidHandler: a did:uuid URI is fetched by a call of its own, which names no
\* registry and so has the one of the context.
Nest ==
    /\ Fetching
    /\ Target.scheme = "did"
    /\ Len(stack) < MaxDepth
    /\ stack' = Append(stack, Call(Target.of, context, "ruuid_document"))
    /\ UNCHANGED <<context, result>>

\* The interpreter's stack is full: a RecursionError, and so no body.
Overflow ==
    /\ Fetching
    /\ Target.scheme = "did"
    /\ Len(stack) = MaxDepth
    /\ Becomes(Received(Top, None))

\* A plausible slip: only an entry of the very type is held against a proof.
GateOnType ==
    /\ At("gate")
    /\ LET document == Parse(Top.body)
           entry == SelectTypeEntry(document, Top.ruuid.type)
           link == ReferentUri(Top.ruuid, Top.domain, document, Top.uri)
       IN  Becomes(IF entry # None /\ IsTampered(document)
                   THEN [Top EXCEPT !.at = "raise", !.error = "unresolved"]
                   ELSE [Top EXCEPT !.link = link,
                                    !.at = IF Top.follow = "referent"
                                           THEN "referent" ELSE "return"])

\* A document whose proof is invalid may not choose the template; else the
\* referent URI is derived.
Gate ==
    /\ At("gate")
    /\ LET document == Parse(Top.body)
           entry == SelectServiceEntry(document, Top.ruuid.type)
           link == ReferentUri(Top.ruuid, Top.domain, document, Top.uri)
       IN  Becomes(IF entry # None /\ IsTampered(document)
                   THEN [Top EXCEPT !.at = "raise", !.error = "unresolved"]
                   ELSE [Top EXCEPT !.link = link,
                                    !.at = IF Top.follow = "referent"
                                           THEN "referent" ELSE "return"])

-----------------------------------------------------------------------------
(* Calls.                                                                  *)

\* The outermost call.  A registry that is no URL is refused at once.
Begin(r, registry, follow) ==
    /\ stack = <<>>
    /\ result = None
    /\ LET effective == IF registry = None THEN context ELSE registry
           call == Call(r, effective, follow)
       IN  IF registry \in BadRegistry
           THEN /\ result' = [Call(r, None, follow) EXCEPT
                                 !.at = "raise", !.error = "value"]
                /\ UNCHANGED <<stack, context>>
           ELSE /\ stack' = <<call>>
                /\ context' = effective
                /\ UNCHANGED result

\* The program that called has made what it makes of the result.
Report ==
    /\ result # None
    /\ result' = None
    /\ UNCHANGED <<stack, context>>

\* What the handler of did:uuid makes of a call that ended: the document it
\* synthesised, or after any exception no body.
Delivered(f) == IF f.at = "return" THEN SynthesisedDocument ELSE None

\* A plausible slip: an exception leaves the context as it is.
EndUnrestored ==
    /\ At("return") \/ At("raise")
    /\ context' = IF Top.at = "return" THEN Top.saved ELSE context
    /\ IF Len(stack) = 1
       THEN stack' = <<>> /\ result' = Top
       ELSE LET caller == stack[Len(stack) - 1]
            IN  /\ stack' = Append(SubSeq(stack, 1, Len(stack) - 2),
                                   Received(caller, Delivered(Top)))
                /\ UNCHANGED result

\* A call returns or raises, and restores the context either way.
End ==
    /\ At("return") \/ At("raise")
    /\ context' = Top.saved
    /\ IF Len(stack) = 1
       THEN stack' = <<>> /\ result' = Top
       ELSE LET caller == stack[Len(stack) - 1]
            IN  /\ stack' = Append(SubSeq(stack, 1, Len(stack) - 2),
                                   Received(caller, Delivered(Top)))
                /\ UNCHANGED result

ResolverNext ==
    \/ \E r \in Ruuid, g \in Registry \cup BadRegistry \cup {None}, w \in Follow :
          Begin(r, g, w)
    \/ \E a \in Domain \cup {None, Lost} : AskPtr(a)
    \/ \E a \in Uri \cup {None, Lost} : AskUri(a) \/ AskTxt(a)
    \/ \E b \in Body : Fetch(b)
    \/ \E e \in Error : FetchRaises(e)
    \/ Nest \/ Overflow \/ Gate \/ End \/ Report

ResolverSpec == ResolverInit /\ [][ResolverNext]_rvars

-----------------------------------------------------------------------------
(* The programs that call resolve_ruuid, by how they end.                  *)

\* An error that no command expects.
Unexpected(f) == f.at = "raise" /\ f.error \in {"dns", "os", "http"}

\* The detail that parse and resolve -v print selects the template once more,
\* from JSON that need not be an object.
DetailFails(f) == f.at = "return" /\ f.body = Array

\* ruuid resolve, without --verify: the exit status.  With -v it follows to the
\* referent and prints whatever it has got.
ResolveExit(f, verbose) ==
    IF Unexpected(f) \/ (verbose /\ DetailFails(f)) THEN "traceback"
    ELSE IF \/ f.at = "raise"
            \/ ~verbose /\ f.follow = "document" /\ f.body = None
            \/ ~verbose /\ f.follow = "referent" /\ f.referent = None
    THEN "1" ELSE "0"

\* ruuid parse: what cannot be resolved is printed as not resolved.
ParseExit(f) ==
    IF Unexpected(f) \/ DetailFails(f) THEN "traceback"
    ELSE IF f.at = "raise" /\ f.error = "value" THEN "1" ELSE "0"

\* What verify_ruuid makes of a signed document: a verdict, no usable key, or
\* no certificates.
ChainVerdict == {"verified", "refused", "unusable", "unavailable"}

\* ruuid resolve --verify.  JSON that is no object has no proof to get at.
VerifyExit(f, verdict) ==
    IF Unexpected(f) \/ f.body = Array THEN "traceback"
    ELSE IF \/ f.at = "raise"
            \/ Parse(f.body) = None
            \/ Parse(f.body).proof # "valid"
            \/ verdict # "verified"
    THEN "1" ELSE "0"

\* The driver of the Universal Resolver: the HTTP status.
DriverStatus(f) ==
    IF f.at = "return" THEN 200
    ELSE IF f.error = "unresolved" THEN 404
    ELSE IF f.error = "value" THEN 400
    ELSE 500

-----------------------------------------------------------------------------
(* What the calls promise, whatever the network says.                      *)

\* Every call in progress runs on the registry of the outermost one, which
\* the context holds for as long as there is a call and no longer: the
\* registry argument of resolve_ruuid and its finally clause.
RegistryIsInherited ==
    /\ stack = <<>> => context = None
    /\ \A n \in DOMAIN stack :
          /\ stack[n].registry = stack[1].registry
          /\ stack[n].saved = IF n = 1 THEN None ELSE stack[1].registry
          /\ context = stack[1].registry

\* A referent URI comes from the default template whenever the document it was
\* derived with is signed and its proof is invalid: the content-integrity
\* policy of resolve_ruuid.
Untampered(f) ==
    (f.link # None /\ IsTampered(Parse(f.body)))
        => f.link = SubstituteTemplate(DefaultTemplate, f.ruuid, f.domain, f.uri)

TamperedNeverDrives ==
    /\ \A n \in DOMAIN stack : Untampered(stack[n])
    /\ result # None => Untampered(result)

\* What the call was fetching when it ended there.
Fetched(f) == IF f.link = None THEN f.uri ELSE f.link

\* The exceptions that nothing between the network and the program catches: of
\* the DoH primary, and of a web fetch of the outermost call.
Escapes(f) ==
    /\ f.at = "raise"
    /\ \/ f.error = "http" /\ f.uri = None /\ f.registry \in DohRegistry
       \/ f.error = "http" /\ f.uri # None /\ IsWeb(Fetched(f))
       \/ f.error = "os" /\ f.uri # None /\ Fetched(f).scheme = "https"

\* With an explicit registry a failure of the network reaches the user as a
\* traceback or as an internal error in no other way than these: a lookup
\* whose servers fail, the system's own included, and a nested call that fails
\* in whatever way, never do; and a document only by being a JSON array.
\* FailoverResolver, DidHandler and the handlers of cli.py and driver.py.
FailuresAreReported ==
    (result # None /\ result.registry # None /\ ~Escapes(result)) =>
        /\ DriverStatus(result) # 500
        /\ result.body # Array =>
              /\ \A verbose \in BOOLEAN : ResolveExit(result, verbose) # "traceback"
              /\ ParseExit(result) # "traceback"
              /\ \A v \in ChainVerdict : VerifyExit(result, v) # "traceback"

=============================================================================
