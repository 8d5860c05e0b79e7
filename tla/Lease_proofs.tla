---------------------------- MODULE Lease_proofs ----------------------------
(***************************************************************************)
(* The lock discipline, for every number of keys and clients.  The type    *)
(* invariant and HeldUnlessLapsed are inductive together; Exclusion is a   *)
(* consequence, since a key has one owner.                                 *)
(***************************************************************************)
EXTENDS Lease, TLAPS

LeaseInv == LeaseTypeOK /\ HeldUnlessLapsed

LEMMA LeaseInitial == LeaseInit => LeaseInv
  BY LeaseAssumption DEF LeaseInit, LeaseInv, LeaseTypeOK, HeldUnlessLapsed

(* One step per action.                                                    *)
LEMMA LeaseInductive == LeaseInv /\ [LeaseNext]_leaseVars => LeaseInv'
<1> SUFFICES ASSUME LeaseInv, [LeaseNext]_leaseVars
             PROVE  LeaseInv'
    OBVIOUS
<1> USE LeaseAssumption DEF LeaseInv, LeaseTypeOK, HeldUnlessLapsed
<1>1. ASSUME NEW c \in Clients, NEW k \in Keys, Acquire(c, k)
      PROVE  LeaseInv'
    BY <1>1 DEF Acquire
<1>2. ASSUME NEW c \in Clients, NEW k \in Keys, AcquireUnknown(c, k)
      PROVE  LeaseInv'
    BY <1>2 DEF AcquireUnknown
<1>3. ASSUME NEW c \in Clients, Release(c)
      PROVE  LeaseInv'
    BY <1>3 DEF Release, Deletes
<1>4. ASSUME NEW gone \in SUBSET Clients, Leave(gone)
      PROVE  LeaseInv'
    BY <1>4 DEF Leave
<1>5. ASSUME NEW k \in Keys, Expire(k)
      PROVE  LeaseInv'
    BY <1>5 DEF Expire
<1>6. CASE UNCHANGED leaseVars
    BY <1>6 DEF leaseVars
<1> QED BY <1>1, <1>2, <1>3, <1>4, <1>5, <1>6 DEF LeaseNext

LEMMA HeldImpliesExclusion == LeaseInv => Exclusion
  BY DEF LeaseInv, LeaseTypeOK, HeldUnlessLapsed, Exclusion

(* A client inside keeps its key until it releases it or its lease ends.   *)
THEOREM LeaseHolds == LeaseSpec => [](LeaseTypeOK /\ HeldUnlessLapsed)
  BY LeaseInitial, LeaseInductive, PTL DEF LeaseSpec, LeaseInv

(* Two clients inside one key: the lease of one of them has ended.         *)
THEOREM LeaseExclusion == LeaseSpec => []Exclusion
  BY LeaseInitial, LeaseInductive, HeldImpliesExclusion, PTL DEF LeaseSpec
=============================================================================
