----------------------------- MODULE MCSearchDB -----------------------------
(***************************************************************************)
(* Small instances of SearchDB for TLC: callers that fill the database in  *)
(* some order and then make any calls with some keys.                      *)
(***************************************************************************)
EXTENDS SearchDB

Rising(n) == [i \in 1 .. n |-> i]

Falling(n) == [i \in 1 .. n |-> n + 1 - i]

Caller(loading, keys, slots) ==
    [loading |-> loading, keys |-> keys, values |-> {1}, reopens |-> FALSE,
     slots |-> slots]

\* Two leaves under a root: all kinds of calls.
Small == [Caller(<< >>, 1 .. 6, 3) EXCEPT !.values = {1, 2}, !.reopens = TRUE]

\* Two levels of internal nodes, from which one end is removed.
Left == Caller(Rising(17), 1 .. 7, 9)

Right == Caller(Falling(13), 8 .. 13, 9)

AllCallers == {Small, Left, Right}

Reopening == {[Small EXCEPT !.keys = 1 .. 2]}

\* With six entries in a block a node that borrows has two left.
Lending == {Caller(Rising(30), 26 .. 30, 11)}

\* The root collapses, and grows again.
Collapsing == {Caller(Falling(11), 1 .. 4, 12)}

=============================================================================
