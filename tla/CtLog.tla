-------------------------------- MODULE CtLog --------------------------------
(***************************************************************************)
(* Certificate Transparency as the program sees it: an append-only set of  *)
(* certificates, each stamped with its position when it is logged.  The    *)
(* logs and the CAs that write to them are outside the repository; verify  *)
(* queries them by address and by key, seal and rotate grow them.          *)
(***************************************************************************)
EXTENDS CustodyChain

VARIABLES
    ct,      \* the certificates logged so far
    logged,  \* how many there are
    today    \* the current day

logVars == <<ct, logged, today>>

LogTypeOK == ct \subseteq Cert /\ logged \in Nat /\ today \in Nat

LogInit == ct = {} /\ logged = 0 /\ today = 0

\* A certificate is logged as it is issued, at the next position.
Log(c) ==
    /\ logged' = logged + 1
    /\ ct' = ct \cup {[c EXCEPT !.at = logged + 1]}
    /\ UNCHANGED today

\* Midnight UTC.
NewDay ==
    /\ today' = today + 1
    /\ UNCHANGED <<ct, logged>>

\* What the log held when it had n entries.
CtAsOf(n) == {c \in ct : c.at <= n}

-----------------------------------------------------------------------------
\* The commitments in CT, read as endorsements.
Authority == INSTANCE Succession WITH successor <- SuccessorMap(ct)

\* Key d descends from g by the earliest commitments in CT.
Descends(g, d) == Authority!Descends(g, d, SuccessorMap(ct))

\* Once a key descends from another it does so for ever: nothing logged later
\* takes a key out of a chain of custody, so a verdict that a document's key is
\* endorsed is never withdrawn by CT.
ChainsOnlyGrow == [][\A g, d \in Key : Descends(g, d) => Descends(g, d)']_ct

=============================================================================
