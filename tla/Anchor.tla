-------------------------------- MODULE Anchor --------------------------------
(***************************************************************************)
(* The life of the demo daemon of src/ruuid/anchor.py: its four listeners, *)
(* how start brings them up, how Ctrl-C and stop take them down, and what  *)
(* a start that fails half way leaves behind.                              *)
(***************************************************************************)
EXTENDS Naturals

\* udp and tcp are DNS; https also serves DoH.
Listener == {"udp", "tcp", "http", "https"}

\* The places of the listeners in the order in which start binds them.
StartOrder == [udp |-> 1, tcp |-> 2, http |-> 3, https |-> 4]

\* A plausible slip: the names go before what serves over them.
StopDnsFirst == [udp |-> 1, tcp |-> 2, http |-> 3, https |-> 4]

\* Their places in the order in which stop shuts them down.
StopOrder == [http |-> 1, https |-> 2, udp |-> 3, tcp |-> 4]

Before(l, order) == {k \in Listener : order[k] < order[l]}

VARIABLES
    cert,     \* the certificate file: none, one that loads, one that does not
    listener, \* each listener: none, bound, serving, closed
    daemon    \* the process

avars == <<cert, listener, daemon>>

AnchorTypeOK ==
    /\ cert \in {"none", "good", "bad"}
    /\ listener \in [Listener -> {"none", "bound", "serving", "closed"}]
    /\ daemon \in {"down", "starting", "serving", "stopping", "exiting"}

Idle == [l \in Listener |-> "none"]

AnchorInit ==
    /\ cert \in {"none", "good", "bad"}
    /\ listener = Idle
    /\ daemon = "down"

Launch ==
    /\ daemon = "down"
    /\ daemon' = "starting"
    /\ UNCHANGED <<cert, listener>>

\* HTTPS is served whenever there is a certificate file.
Wanted == {l \in Listener : l = "https" => cert # "none"}

Ready(l) ==
    /\ daemon = "starting"
    /\ listener[l] = "none"
    /\ l \in Wanted
    /\ \A k \in Before(l, StartOrder) : listener[k] = "serving"

\* A listener is bound and its thread serves.
Listen(l) ==
    /\ Ready(l)
    /\ l # "https"
    /\ listener' = [listener EXCEPT ![l] = "serving"]
    /\ UNCHANGED <<cert, daemon>>

\* HTTPS is bound first and wrapped in TLS after.
BindHttps ==
    /\ Ready("https")
    /\ listener' = [listener EXCEPT !["https"] = "bound"]
    /\ UNCHANGED <<cert, daemon>>

WrapHttps ==
    /\ daemon = "starting"
    /\ listener["https"] = "bound"
    /\ cert = "good"
    /\ listener' = [listener EXCEPT !["https"] = "serving"]
    /\ UNCHANGED <<cert, daemon>>

\* The port is in use, or the certificate does not load: start raises, outside
\* the try of serve_forever, and what is up stays up until the process ends.
StartFails(l) ==
    /\ \/ Ready(l)
       \/ daemon = "starting" /\ l = "https" /\ listener[l] = "bound" /\ cert = "bad"
    /\ daemon' = "exiting"
    /\ UNCHANGED <<cert, listener>>

Started ==
    /\ daemon = "starting"
    /\ \A l \in Wanted : listener[l] = "serving"
    /\ daemon' = "serving"
    /\ UNCHANGED <<cert, listener>>

\* Ctrl-C: within the try it stops the daemon; before it, or during stop, it
\* ends the process.
Interrupt ==
    /\ \/ daemon = "serving" /\ daemon' = "stopping"
       \/ daemon \in {"starting", "stopping"} /\ daemon' = "exiting"
    /\ UNCHANGED <<cert, listener>>


\* stop: each listener that was made, in order, is shut down and closed.
StopListener(l) ==
    /\ daemon = "stopping"
    /\ listener[l] = "serving"
    /\ \A k \in Before(l, StopOrder) : listener[k] # "serving"
    /\ listener' = [listener EXCEPT ![l] = "closed"]
    /\ UNCHANGED <<cert, daemon>>

Stopped ==
    /\ daemon = "stopping"
    /\ \A l \in Listener : listener[l] # "serving"
    /\ daemon' = "exiting"
    /\ UNCHANGED <<cert, listener>>

\* The threads are daemon threads: the process takes them with it.
Exit ==
    /\ daemon = "exiting"
    /\ daemon' = "down"
    /\ listener' = Idle
    /\ UNCHANGED cert

AnchorNext ==
    \/ Launch \/ BindHttps \/ WrapHttps \/ Started \/ Interrupt \/ Stopped \/ Exit
    \/ \E l \in Listener : Listen(l) \/ StartFails(l) \/ StopListener(l)

\* A listener answers while its thread serves.
Answers(l) == listener[l] = "serving"

-----------------------------------------------------------------------------

\* DoH hands its queries to the UDP listener of the same daemon, so HTTPS is
\* never up without it: the orders of start and stop.
DohHasDns == Answers("https") => Answers("udp")

=============================================================================
