---------------------------- MODULE MCPowensSync ----------------------------
(* Values of PowensSync's constants for TLC.                               *)
EXTENDS PowensSync, TLC

CONSTANTS c1, c2, a1, a2, a3, i1

(* a1 and a2 are the same bank account under the old and the new           *)
(* connection; a3 is an account of the old one that has no IBAN.           *)
TwoConnections == {c1, c2}
PartlySharedAccounts == {a1, a2, a3}
PartlySharedOwner == a1 :> c1 @@ a2 :> c2 @@ a3 :> c1
PartlySharedIban == a1 :> i1 @@ a2 :> i1 @@ a3 :> None

OneConnection == {c1}
OneAccount == {a1}
OneOwner == a1 :> c1
OneIban == a1 :> None
=============================================================================
