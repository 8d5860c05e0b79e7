--------------------------- MODULE MCExternalSync ---------------------------
(* Values of ExternalSync's constants for TLC: syncAll jobs of a request   *)
(* that may come twice and of requests that do not.                        *)
EXTENDS ExternalSync

CONSTANTS ibkr, binance, q1

SyncJobs == {[req |-> q1, todo |-> <<ibkr, binance>>], [req |-> None, todo |-> <<ibkr>>]}
=============================================================================
