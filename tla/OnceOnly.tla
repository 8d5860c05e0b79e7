------------------------------ MODULE OnceOnly ------------------------------
(***************************************************************************)
(* What a claim promises, without the keys, the database and the calls:    *)
(* things are done once, by who has taken them.  One who stops on the way  *)
(* spoils the thing: it is not done, and nobody may take it until it is    *)
(* cleared.  ExternalSync implements it: a thing is a request's            *)
(* synchronisation of a connection, done when its run record is made.  So  *)
(* does InvestmentPlan: the thing is the seeding of the default strategy.  *)
(***************************************************************************)
EXTENDS Naturals

CONSTANTS Doers, Things

VARIABLES
    times,  \* how often each thing has been done
    taken,  \* who has taken what
    spoilt  \* things somebody has taken and not done

onceVars == <<times, taken, spoilt>>

OnceInit ==
    /\ times = [t \in Things |-> 0]
    /\ taken = {} /\ spoilt = {}

Open(t) ==
    /\ times[t] = 0 /\ t \notin spoilt
    /\ \A d \in Doers : <<d, t>> \notin taken

Take(d, t) ==
    /\ Open(t)
    /\ taken' = taken \cup {<<d, t>>}
    /\ UNCHANGED <<times, spoilt>>

Do(d, t) ==
    /\ <<d, t>> \in taken
    /\ times' = [times EXCEPT ![t] = @ + 1]
    /\ taken' = taken \ {<<d, t>>}
    /\ UNCHANGED spoilt

Stop(d, t) ==
    /\ <<d, t>> \in taken
    /\ taken' = taken \ {<<d, t>>}
    /\ spoilt' = spoilt \cup {t}
    /\ UNCHANGED times

(* Taken by one who stops before hearing of it.                            *)
Spoil(t) ==
    /\ Open(t)
    /\ spoilt' = spoilt \cup {t}
    /\ UNCHANGED <<times, taken>>

Clear(t) ==
    /\ t \in spoilt
    /\ spoilt' = spoilt \ {t}
    /\ UNCHANGED <<times, taken>>

OnceNext ==
    \/ \E t \in Things : Spoil(t) \/ Clear(t) \/ \E d \in Doers : Take(d, t)
    \/ \E claim \in taken : Do(claim[1], claim[2]) \/ Stop(claim[1], claim[2])

OnceSpec == OnceInit /\ [][OnceNext]_onceVars

(* Where nothing clears, what is spoilt stays so.                          *)
SpoiltForGood == [][spoilt \subseteq spoilt']_onceVars
=============================================================================
