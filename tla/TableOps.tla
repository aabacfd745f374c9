------------------------------ MODULE TableOps ------------------------------
(***************************************************************************)
(* Tables of the firmware are arrays with a count.                         *)
(***************************************************************************)
EXTENDS Naturals, Sequences

\* The loop that keeps the entries at these places and moves them together:
\* what is left of the first i entries.
Compact(table, keep) ==
    LET left[i \in 0 .. Len(table)] ==
            IF i = 0 THEN <<>>
            ELSE IF i \in keep THEN Append(left[i - 1], table[i]) ELSE left[i - 1]
    IN  left[Len(table)]

=============================================================================
