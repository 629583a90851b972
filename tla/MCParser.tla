------------------------------ MODULE MCParser -------------------------------
(***************************************************************************)
(* The parser on encodings of small filters: intact, with one cell         *)
(* changed, cut off, or with cells put in or taken out.                    *)
(***************************************************************************)
EXTENDS Parser

Entry(log, low, high) == [log |-> log, low |-> low, high |-> high]

Indexed(id, hm, rank, inverted, exceptions) ==
    [id |-> id, exceptions |-> exceptions,
     meta |-> [HModulus |-> hm, HRank |-> rank, HOffset |-> 5, GModulus |-> 3, GOffset |-> 6,
               Inverted |-> inverted]]

Small ==
    {[coverage |-> cov, blocks |-> bs, X |-> X, Y |-> Y] :
        cov \in {<<>>, <<Entry(1, 0, 2)>>, <<Entry(2, 1, 1), Entry(1, 2, 0)>>},
        bs \in {<<>>, <<Indexed(1, 2, 1, TRUE, <<>>)>>,
                <<Indexed(2, 0, 0, FALSE, <<<<1>>, <<>>>>), Indexed(1, 1, 1, FALSE, <<<<2, 2>>>>)>>},
        X \in {<<<<7>>>>, <<<<>>, <<8, 8>>>>},
        Y \in {<<>>, <<9, 9>>}}

\* One field at k: the largest number it holds, or the first that it does not.
Times(k, x) == [n \in 1..k |-> x]

Plain == [coverage |-> <<>>, blocks |-> <<>>, X |-> <<>>, Y |-> <<>>]

AtWidth(k) ==
    {[Plain EXCEPT !.coverage = [n \in 1..k |-> Entry(n - 1, 1, 2)]],
     [Plain EXCEPT !.blocks = <<Indexed(1, 2, 0, FALSE, Times(k, <<>>))>>],
     [Plain EXCEPT !.blocks = <<Indexed(1, k, 0, FALSE, <<>>)>>],
     [Plain EXCEPT !.blocks = <<Indexed(1, 2, k, TRUE, <<>>)>>, !.X = Times(k, <<>>)],
     [Plain EXCEPT !.blocks = [n \in 1..k |-> Indexed(n - 1, 0, 0, TRUE, <<>>)]],
     [Plain EXCEPT !.X = <<Times(k, 3)>>],
     [Plain EXCEPT !.Y = Times(k, 3)]}

MCContents == Small \cup AtWidth(U16 - 1) \cup AtWidth(U16)

Cells == 0..4

Damaged(e) ==
    LET n == Len(e)
    IN  {e}
        \cup {[e EXCEPT ![k] = v] : k \in 1..n, v \in Cells}
        \cup {SubSeq(e, 1, k) : k \in 0..n}
        \cup {SubSeq(e, 1, k) \o <<v>> \o SubSeq(e, k + 1, n) : k \in 0..n, v \in {0, 1}}
        \cup {SubSeq(e, 1, k - 1) \o SubSeq(e, k + 1, n) : k \in 1..n}

MCDamage == [f \in MCContents |-> Damaged(Encode(f))]
=============================================================================
