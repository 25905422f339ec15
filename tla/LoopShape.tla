------------------------------ MODULE LoopShape ------------------------------
(***************************************************************************)
(* The shape both contracts demand of what they net: a simple directed     *)
(* cycle of debts.  A loop is a sequence of records with a debtor and a    *)
(* creditor; entry i is owed by its debtor to its creditor, who is in turn *)
(* the debtor of entry i+1, and the last entry closes on the first.        *)
(***************************************************************************)
EXTENDS Naturals, Sequences

NextIndex(i, n) == IF i = n THEN 1 ELSE i + 1

PathClosed(loop) ==
    \A i \in DOMAIN loop :
        loop[i].creditor = loop[NextIndex(i, Len(loop))].debtor

DebtorsDistinct(loop) ==
    \A i, j \in DOMAIN loop : loop[i].debtor = loop[j].debtor => i = j

SimpleLoop(loop) == PathClosed(loop) /\ DebtorsDistinct(loop)

=============================================================================
