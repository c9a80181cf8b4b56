--------------------------- MODULE MCABBootHistory ---------------------------
(* Instances of ABBootHistory for TLC: slots of two pages, and images small *)
(* enough to tell a partial download (one page of two) from a whole one.    *)
EXTENDS ABBootHistory

CONSTANTS imgA, imgB, badB

LinkABB == [i \in Images |-> IF i = imgA THEN SlotA ELSE SlotB]
SizeAll == [i \in Images |-> MaxPages]
SizeMixed == [i \in Images |-> IF i = imgA THEN MaxPages ELSE 1]
=============================================================================
