----------------------------- MODULE DayCoverage -----------------------------
(***************************************************************************)
(* What the record of synchronised ranges of one calendar promises: it is  *)
(* a set of days. A completed pull of a range adds exactly its days. Once  *)
(* the server has refused the token the set stands for, it is kept until a *)
(* complete listing replaces it by its own days, or the attempt is given   *)
(* up. Nothing else ever changes the set.                                  *)
(***************************************************************************)
EXTENDS Naturals

CONSTANT MaxDay   \* days are 0..MaxDay - 1

VARIABLES
    covered,      \* the days
    refused       \* a listing is under way that replaces them

coverageVars == <<covered, refused>>

Range(lo, hi) == lo..(hi - 1)

CoverageInit == covered = {} /\ refused = FALSE

Complete(lo, hi) ==
    ~refused /\ covered' = covered \cup Range(lo, hi) /\ ~refused'
Replace(lo, hi) == refused /\ covered' = Range(lo, hi) /\ ~refused'

Refuse == ~refused /\ refused' /\ covered' = covered
GiveUp == refused /\ ~refused' /\ covered' = covered

CoverageNext ==
    \/ \E lo \in 0..MaxDay, hi \in 0..MaxDay :
        lo < hi /\ (Complete(lo, hi) \/ Replace(lo, hi))
    \/ Refuse \/ GiveUp

CoverageSpec == CoverageInit /\ [][CoverageNext]_coverageVars
==============================================================================
