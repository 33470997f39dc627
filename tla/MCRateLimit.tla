---------------------------- MODULE MCRateLimit ----------------------------
(* RateLimit for TLC. *)
EXTENDS RateLimit

CONSTANTS c1, c2, p1

(* No definition chooses among callers. *)
CallerSymmetry == Permutations(Callers)

(* Bound: a crash, or what happens once in a long while (a caller is bound *)
(* again, its quota adjusted), not one after the other.  A crash that      *)
(* loses the new quota, as its row was still to be written, is in.         *)
QuotaAdjusted == \E c \in Bound : bindings[c].quota \in NewQuotas \ Quotas
RowAdjusted ==
  \E c \in Callers : bindingRow[c] # None /\ bindingRow[c].quota \in NewQuotas \ Quotas
OneUpheaval == crashes > 0 => ~rebound /\ ~QuotaAdjusted /\ ~RowAdjusted

BoundedSpec == Init /\ [][Next /\ OneUpheaval']_vars
=============================================================================
