------------------------------ MODULE Filters -------------------------------
(* A sequence without those of its elements that are not in a set.  It is  *)
(* SelectSeq with a set in place of an operator, defined by a recursive    *)
(* function, whose equation one can reason from.                           *)
EXTENDS Naturals, Sequences

Filter(s, S) ==
    LET first[i \in 0..Len(s)] ==   \* what is kept of the first i elements
            IF i = 0 THEN <<>>
            ELSE IF s[i] \in S THEN Append(first[i - 1], s[i]) ELSE first[i - 1]
    IN  first[Len(s)]
=============================================================================
