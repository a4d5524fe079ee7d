------------------------------- MODULE Bytes --------------------------------
(* Bytes of the frames on the network links, and their sums.                *)
EXTENDS Naturals, SequencesExt

CONSTANT Width   \* the number of values of a byte: 256 in the code

ASSUME WidthAssumption == Width \in Nat /\ Width > 1

Byte == 0..(Width - 1)

Plus(a, b) == (a + b) % Width

(* The sum of the first bytes of s, for each number of them.                *)
Sums(s) ==
  LET sum[n \in 0..Len(s)] == IF n = 0 THEN 0 ELSE Plus(sum[n - 1], s[n]) IN sum

Total(s) == Sums(s)[Len(s)]
=============================================================================
