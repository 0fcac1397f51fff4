-------------------------------- MODULE MCVm --------------------------------
(* Instances of Vm for TLC.                                                *)
EXTENDS Vm, TLC

CONSTANTS x, y, z, p1, p2, p3

\* A mapped file, a page of the executable and a page of the stack.
KindAll ==
  [p \in Proc |-> [v \in VPage |->
    CASE v = x -> "file" [] v = y -> "exec" [] OTHER -> "stack"]]

\* One process with a mapped file and a page of the stack, the others with a
\* page of zeroes.
KindPair ==
  [p \in Proc |-> [v \in VPage |->
    CASE p = p1 -> (IF v = x THEN "file" ELSE "stack")
      [] OTHER -> (IF v = x THEN "none" ELSE "zero")]]

\* One process with a mapped file, the others with a page of the executable.
KindTrio ==
  [p \in Proc |-> [v \in VPage |->
    CASE p = p1 -> (IF v = x THEN "file" ELSE "none")
      [] OTHER -> (IF v = x THEN "none" ELSE "exec")]]

\* The pages of the pool are interchangeable.
PageSymmetry == Permutations(KPage)

\* And so are the processes of KindTrio other than the first.
TrioSymmetry == Permutations(KPage) \cup Permutations({p2, p3})
=============================================================================
