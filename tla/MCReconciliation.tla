-------------------------- MODULE MCReconciliation --------------------------
(***************************************************************************)
(* Instances of Reconciliation for TLC.                                    *)
(***************************************************************************)
EXTENDS Reconciliation

Item(at, amount, desc) ==
    [at |-> at, amount |-> amount, type |-> "DEBIT", desc |-> desc, ref |-> NoRef]

Coffee == Item(0, 100, {"coffee"})
Rent   == Item(6, 500, {"rent"})

CONSTANTS j1, j2

\* One statement: a purchase the user may have entered and one he has not.
OneFile == [j \in Jobs |-> <<Coffee, Rent>>]

\* The same statement for both uploads, or for one upload again.
SameFile == [j \in Jobs |-> <<Rent>>]

CoffeeFile == [j \in Jobs |-> <<Coffee>>]

OwnCoffee == <<Coffee>>
NoItems   == <<>>

\* Uploads of the same file, and invocations, are interchangeable.
UploadSymmetry == Permutations(Jobs) \cup Permutations(Workers)
=============================================================================
