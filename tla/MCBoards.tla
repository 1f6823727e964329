------------------------------ MODULE MCBoards ------------------------------
(* Candidates of every generator, and boards an author could have got wrong. *)
EXTENDS Generator

MCSeeds == 1 .. 20
MCRequests == {<<"kenken", 3>>, <<"killer", 3>>, <<"kakuro", 3>>, <<"magicSquare", 3>>,
               <<"magicSquare", 6>>, <<"wordSearch", 3>>, <<"wordSearch", 4>>}

MCVocabulary == <<<<"A", "B", "C">>, <<"C", "A", "C", "B">>, <<"B", "B", "A">>>>
MCFiller == <<"A", "B", "C", "D", "E", "F">>

\* A Latin square in rows, one cage to each pair of a row and one to each rest.
Latin == <<<<1, 2, 3>>, <<2, 3, 1>>, <<3, 1, 2>>>>
Group(cells, op, target) == [cells |-> cells, op |-> op, target |-> target]
Pairs(op, t1, t2, t3) ==
    <<Group(<<<<0, 0>>, <<0, 1>>>>, op, t1), Group(<<<<0, 2>>>>, "+", 3),
      Group(<<<<1, 0>>, <<1, 1>>>>, op, t2), Group(<<<<1, 2>>>>, "+", 1),
      Group(<<<<2, 0>>, <<2, 1>>>>, op, t3), Group(<<<<2, 2>>>>, "+", 2)>>
Board(kind, given, groups) == [kind |-> kind, size |-> 3, blocked |-> {}, given |-> given,
                               solution |-> Latin, groups |-> groups]
Sums == Pairs("+", 3, 5, 4)

Caged3 == {Board(kind, given, groups) :
               kind \in {"kenken", "killer"},
               given \in {{<<0, 0>>, <<1, 1>>}, {<<0, 2>>, <<2, 2>>}},
               groups \in {Sums, Pairs("+", 3, 5, 5), Pairs("+", 3, 5, 6),
                           [Sums EXCEPT ![2].cells = <<<<0, 1>>, <<0, 2>>>>],
                           [Sums EXCEPT ![2].cells = <<<<0, 3>>>>], Tail(Sums)}}
Kenken3 == {Board("kenken", given, groups) :
                given \in {{<<0, 2>>, <<2, 2>>}, {<<2, 1>>, <<0, 0>>}},
                groups \in {Pairs("*", 2, 6, 3), Pairs("-", 1, 1, 2), Pairs("-", 1, 1, 1),
                            Pairs("/", 2, 1, 3),
                            [Pairs("-", 1, 1, 2) EXCEPT ![2].op = "/"]}}

\* A board with a corner blanked out, and other things wrong with it.
Corner == [Board("kenken", {<<0, 1>>}, Tail(Pairs("-", 1, 1, 2)) \o <<Group(<<<<0, 1>>>>, "+", 2)>>)
              EXCEPT !.blocked = {<<0, 0>>}, !.solution[1][1] = 0]
Odd == {Corner, [Corner EXCEPT !.solution[1][1] = 1], [Corner EXCEPT !.given = {<<0, 0>>}],
        [Corner EXCEPT !.blocked = {<<0, 3>>}], [Corner EXCEPT !.groups = <<>>],
        [Corner EXCEPT !.solution[2] = <<3, 2, 1>>]}

Square == [kind |-> "magicSquare", size |-> 3, blocked |-> {},
           given |-> {<<0, 0>>, <<0, 1>>, <<1, 1>>, <<2, 0>>, <<2, 2>>},
           solution |-> <<<<2, 7, 6>>, <<9, 5, 1>>, <<4, 3, 8>>>>,
           targets |-> <<<<15, 15, 15>>, <<15, 15, 15>>>>]
Squares == {Square, [Square EXCEPT !.targets[1] = <<15, 15, 14>>],
            [Square EXCEPT !.targets[1] = <<15, 15, 15, 15>>]}

Letters == [kind |-> "wordSearch", grid |-> <<<<"A", "B", "C">>, <<"B", "A", "B">>, <<"B", "B", "A">>>>,
            words |-> <<<<"A", "B", "C">>>>]
Texts == {Letters, [Letters EXCEPT !.words = <<<<"A", "A", "A">>>>],
          [Letters EXCEPT !.grid[2] = <<"A">>], [Letters EXCEPT !.words = <<<<"A", "B">>>>],
          [Letters EXCEPT !.words = <<<<"A", "B", "C">>, <<"A", "C", "C">>>>]}

MCAuthored == Caged3 \cup Kenken3 \cup Odd \cup Squares \cup Texts

\* The candidates with their rows written out, which TLC would otherwise draw
\* again each time it looks at a cell.
Tuple(s) == SubSeq(s, 1, Len(s))
Rows(s) == Tuple([i \in DOMAIN s |-> Tuple(s[i])])
WrittenOut(p) == CASE p.kind = "wordSearch" -> [p EXCEPT !.grid = Rows(@)]
                   [] p.kind = "magicSquare" -> [p EXCEPT !.solution = Rows(@), !.targets = Rows(@)]
                   [] OTHER -> [p EXCEPT !.solution = Rows(@), !.groups = Tuple(@)]
MCPuzzles == {WrittenOut(c) : c \in Candidates} \cup MCAuthored

\* Two runs of a kakuro that name a blanked cell and ask for more than the rest
\* of them may hold.
Crossing(sum) ==
    [kind |-> "kakuro", size |-> 3, blocked |-> {<<0, 0>>, <<1, 1>>, <<1, 2>>, <<2, 1>>, <<2, 2>>},
     given |-> {<<0, 1>>, <<0, 2>>, <<1, 0>>}, solution |-> <<<<0, 1, 2>>, <<3, 0, 0>>, <<4, 0, 0>>>>,
     groups |-> <<Group(<<<<0, 0>>, <<0, 1>>, <<0, 2>>>>, "+", sum),
                  Group(<<<<1, 0>>, <<2, 0>>>>, "+", 7)>>]
BlankedPuzzles == {Crossing(sum) : sum \in 6 .. 9}
=============================================================================
