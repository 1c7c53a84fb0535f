-------------------------------- MODULE Sums --------------------------------
(***************************************************************************)
(* Accumulating loops: the sum and the product of f[1] .. f[n], with the   *)
(* recursion on the index, which is what a proof goes along.               *)
(***************************************************************************)
EXTENDS Integers

SumTo(f, n) ==
    LET sum[i \in 0 .. n] == IF i = 0 THEN 0 ELSE sum[i - 1] + f[i]
    IN  sum[n]

ProductTo(f, n) ==
    LET product[i \in 0 .. n] == IF i = 0 THEN 1 ELSE product[i - 1] * f[i]
    IN  product[n]

Power(b, n) == ProductTo([i \in 1 .. n |-> b], n)

=============================================================================
