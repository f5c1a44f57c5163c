------------------------------ MODULE MCMemo ------------------------------
(* Two instances and two loader calls: one instance may have both (a read  *)
(* that was overtaken and the one after it), or each may have one.         *)
EXTENDS Memo, TLC

AnyNames == Permutations(Instances) \cup Permutations(Reads)

=============================================================================
