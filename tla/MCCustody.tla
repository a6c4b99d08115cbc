------------------------------ MODULE MCCustody ------------------------------
(***************************************************************************)
(* Instances of Custody for TLC.  Keys are numbers, generated in order:    *)
(* they are interchangeable, so nothing is lost, and fewer states differ   *)
(* only in the names of their keys.                                        *)
(***************************************************************************)
EXTENDS Custody

MCKey == 1..5
MCNoKey == 0

KeysInOrder == \A k \in Key \ {1} : owner[k] # Nobody => owner[k - 1] # Nobody

=============================================================================
