------------------------------ MODULE MCLedger ------------------------------
\* Values of the constants of Ledger for TLC.
EXTENDS Ledger, TLC

\* Blind boxes that win and lose; the products of the first exceed
\* the range, and the difference of the second is negative.
MCGiftValues == {[price |-> 9, originalPrice |-> 8, count |-> 3],
                 [price |-> 1, originalPrice |-> 3, count |-> 2]}

WorkerSymmetry == Permutations(Workers)
=============================================================================
