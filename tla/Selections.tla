----------------------------- MODULE Selections ------------------------------
(***************************************************************************)
(* The members of a sequence at some of its places, in their order: the    *)
(* list comprehensions of the code.  By places rather than with SelectSeq  *)
(* and SetToSortSeq, and an overlaid function rather than with @@, which   *)
(* tlapm cannot expand, so that what they hold can be proved.              *)
(***************************************************************************)
EXTENDS Integers, Sequences, FiniteSets

\* The numbers of a finite set in ascending order.
Ascending(S) ==
    [k \in 1 .. Cardinality(S) |-> CHOOSE i \in S : Cardinality({j \in S : j <= i}) = k]

MembersAt(s, S) == [k \in 1 .. Cardinality(S) |-> s[Ascending(S)[k]]]

\* A function with the values of another over its own: new @@ f.
Overlaid(f, new) ==
    [x \in DOMAIN f \cup DOMAIN new |-> IF x \in DOMAIN new THEN new[x] ELSE f[x]]

\* A sequence without its repetitions, as a dict's keys or an append guarded by "in".
Once(s) == MembersAt(s, {i \in DOMAIN s : \A j \in 1 .. i - 1 : s[j] # s[i]})
=============================================================================
