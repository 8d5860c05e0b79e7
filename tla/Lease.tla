------------------------------- MODULE Lease -------------------------------
(***************************************************************************)
(* What packages/redis/src/lock.ts promises its callers, for any number of *)
(* keys and clients: `holder` is the owner token Redis stores under a key, *)
(* `inside` the key whose protected work a client is doing, and `lapsed`   *)
(* the clients whose lease Redis has ended while they were still inside    *)
(* (a history variable; the code has no such record, only an AbortSignal   *)
(* that fires at about that time).                                         *)
(***************************************************************************)
CONSTANTS Keys,     \* lock keys
          Clients,  \* processes; a client's name stands for its owner token
          None      \* no token, no key

ASSUME LeaseAssumption == None \notin Keys /\ None \notin Clients

VARIABLES holder, inside, lapsed

leaseVars == <<holder, inside, lapsed>>

LeaseTypeOK ==
    /\ holder \in [Keys -> Clients \cup {None}]
    /\ inside \in [Clients -> Keys \cup {None}]
    /\ lapsed \subseteq Clients

LeaseInit ==
    /\ holder = [k \in Keys |-> None]
    /\ inside = [c \in Clients |-> None]
    /\ lapsed = {}
-----------------------------------------------------------------------------
(* SET key token NX EX ttl answered OK: the client enters.                 *)
Acquire(c, k) ==
    /\ inside[c] = None
    /\ holder[k] = None
    /\ holder' = [holder EXCEPT ![k] = c]
    /\ inside' = [inside EXCEPT ![c] = k]
    /\ UNCHANGED lapsed

(* The SET was applied but its reply was lost: the key is held by nobody.  *)
AcquireUnknown(c, k) ==
    /\ inside[c] = None
    /\ holder[k] = None
    /\ holder' = [holder EXCEPT ![k] = c]
    /\ UNCHANGED <<inside, lapsed>>

(* Compare-and-delete with the owner token, then the client is outside.    *)
(* (Mutant: the release deletes the key whoever owns it.)                  *)
DeletesMutant(c, k) == k = inside[c]
Deletes(c, k) == k = inside[c] /\ holder[k] = c

Release(c) ==
    /\ inside[c] # None
    /\ holder' = [k \in Keys |-> IF Deletes(c, k) THEN None ELSE holder[k]]
    /\ inside' = [inside EXCEPT ![c] = None]
    /\ lapsed' = lapsed \ {c}

(* Clients stop their work without deleting the key: their process         *)
(* crashed, or one threw before its finally block, or its release was      *)
(* answered by an error.                                                   *)
Leave(gone) ==
    /\ gone # {}
    /\ \A c \in gone : inside[c] # None
    /\ inside' = [c \in Clients |-> IF c \in gone THEN None ELSE inside[c]]
    /\ lapsed' = lapsed \ gone
    /\ UNCHANGED holder

(* Redis ends the lease; the client, if still inside, is not stopped.      *)
Expire(k) ==
    /\ holder[k] # None
    /\ holder' = [holder EXCEPT ![k] = None]
    /\ lapsed' = lapsed \cup {c \in Clients : c = holder[k] /\ inside[c] = k}
    /\ UNCHANGED inside

LeaseNext ==
    \/ \E c \in Clients, k \in Keys : Acquire(c, k) \/ AcquireUnknown(c, k)
    \/ \E c \in Clients : Release(c)
    \/ \E gone \in SUBSET Clients : Leave(gone)
    \/ \E k \in Keys : Expire(k)

LeaseSpec == LeaseInit /\ [][LeaseNext]_leaseVars
-----------------------------------------------------------------------------
(* A client inside keeps the key until its own release or the end of its   *)
(* lease: nobody else's release can take it away (lock.ts, the compare and *)
(* delete script and the comment above it).                                *)
HeldUnlessLapsed ==
    \A c \in Clients : inside[c] # None /\ c \notin lapsed => holder[inside[c]] = c

(* Two clients do the work of one key at the same time only if the lease   *)
(* of one of them has ended under it.                                      *)
Exclusion ==
    \A c, d \in Clients :
        c # d /\ inside[c] # None /\ inside[c] = inside[d]
            => c \in lapsed \/ d \in lapsed
=============================================================================
