------------------------------ MODULE MCMinting ------------------------------
(***************************************************************************)
(* An instance of Minting for TLC: days of two ticks, of which two fit an  *)
(* RUUID, networks of four bits, one IPv4 address, two addresses of one    *)
(* IPv6 network, and one IPv6 address that reads as the IPv4 one.  The     *)
(* calendar runs from before the epoch to past the last day that fits.     *)
(***************************************************************************)
EXTENDS Minting

MCAddress == {[family |-> 4, value |-> 1], [family |-> 6, value |-> 6],
              [family |-> 6, value |-> 7], [family |-> 6, value |-> 20]}

\* One of the IPv6 addresses is typed in both texts, one as it is usually typed.
MCTyped == {[ip |-> [family |-> 4, value |-> 1], text |-> "openssl"],
            [ip |-> [family |-> 6, value |-> 6], text |-> "openssl"],
            [ip |-> [family |-> 6, value |-> 6], text |-> "other"],
            [ip |-> [family |-> 6, value |-> 7], text |-> "other"],
            [ip |-> [family |-> 6, value |-> 20], text |-> "openssl"]}

MCRequested == {None, 0}

\* The last identifier that fits, and one more.
MCGiven == {None, 7, 8}

MCRandom == {5}

MCStart == -1

KeySymmetry == Permutations(Key)

=============================================================================
