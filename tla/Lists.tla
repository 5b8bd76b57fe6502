-------------------------------- MODULE Lists --------------------------------
(***************************************************************************)
(* What Python's sorted, its list comprehensions and its sum make of a     *)
(* list.                                                                   *)
(***************************************************************************)
EXTENDS Integers, Sequences, FiniteSets

(* What a sequence has at some places, in an order of the places, given as the
   set of its pairs. *)
InOrder(s, places, before) ==
    [k \in 1..Cardinality(places) |->
        s[CHOOSE i \in places : Cardinality({j \in places : <<j, i>> \in before}) = k - 1]]

(* A list comprehension with a condition. *)
Picked(s, places) == InOrder(s, places, {p \in places \X places : p[1] < p[2]})

Total(numbers) ==
    LET upto[i \in 0..Len(numbers)] == IF i = 0 THEN 0 ELSE upto[i - 1] + numbers[i]
    IN  upto[Len(numbers)]
==============================================================================
