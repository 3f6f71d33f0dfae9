------------------------------ MODULE Filtering -------------------------------
(* What a list comprehension with a condition makes of a list.  A recursive function
   and no RECURSIVE operator, so that it can be reasoned about.  *)
EXTENDS Naturals, Sequences

WithoutUpTo(items, x) ==
    LET kept[n \in 0..Len(items)] ==
            IF n = 0 THEN <<>>
            ELSE IF items[n] = x THEN kept[n - 1] ELSE Append(kept[n - 1], items[n])
    IN  kept

(* The items that are not x. *)
Without(items, x) == WithoutUpTo(items, x)[Len(items)]
===============================================================================
