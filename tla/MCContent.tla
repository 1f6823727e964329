----------------------------- MODULE MCContent -----------------------------
(* A handful of declarations and working trees: each refusal happens, the   *)
(* seeds reach the end of their range, and a template draws equal terms.    *)
EXTENDS Content

MCDrawn ==
    LET pairs == [s \in 0..5 |-> CASE s = 0 -> <<3, 8>> [] s = 1 -> <<4, 4>>
                                   [] s = 2 -> <<8, 3>> [] s = 3 -> <<1, 1>>
                                   [] s = 4 -> <<2, 5>> [] s = 5 -> <<7, 2>>]
    IN  [at \in (SeedMin..SeedMax) \X Steps |-> pairs[at[1]]]

Template(v, k, n) ==
    [kind |-> "template", version |-> v, step |-> k, count |-> n,
     path |-> "none", skill |-> 0]
Authored(skill) ==
    [kind |-> "authored", version |-> 0, step |-> 0, count |-> 0,
     path |-> "starter", skill |-> skill]
Puzzles == [Authored(0) EXCEPT !.kind = "puzzles"]

Declared(base, sources) ==
    [salt |-> "a1b2", salted |-> TRUE, seedBase |-> base,
     issued |-> 1, expires |-> 2, sources |-> sources]

MCDeclarations ==
    { Declared(0, <<Authored(1), Template(2, 3, 2), Puzzles>>),
      Declared(0, <<Template(1, 1, 2), Template(2, 2, 2)>>),
      Declared(3, <<Template(1, 1, 2), Authored(2), Template(2, 1, 2)>>),
      Declared(0, <<Template(3, 1, 1)>>),
      [Declared(0, <<Puzzles>>) EXCEPT !.expires = 1],
      Declared(0, <<[Template(1, 1, 1) EXCEPT !.skill = 2]>>) }

Answer(minus, num, over, den) ==
    [blots |-> {}, minus |-> minus, zeros |-> 0, num |-> num,
     over |-> over, denZeros |-> 0, den |-> den]

Entry == [asks |-> "prompt", tokens |-> 4, glyph |-> "U+2212", step |-> 2,
          sound |-> TRUE, answer |-> Answer("hyphen", 5, "none", NoDigits)]
Board == [formed |-> TRUE, solved |-> TRUE]
Tree(entries, boards) == [starter |-> [items |-> entries, puzzles |-> boards]]
Half == [Entry EXCEPT !.asks = "stimulus", !.answer = Answer("none", 4, "slash", 8)]

MCTrees ==
    { Tree(<<Entry, Half>>, <<Board>>),
      Tree(<<[Entry EXCEPT !.answer.zeros = 1]>>, <<>>),
      Tree(<<[Entry EXCEPT !.asks = "both"]>>, <<Board>>),
      Tree(<<[Entry EXCEPT !.glyph = "hyphen"]>>, <<Board>>),
      Tree(<<[Half EXCEPT !.sound = FALSE]>>, <<Board>>),
      Tree(<<[Half EXCEPT !.step = 21]>>, <<[Board EXCEPT !.solved = FALSE]>>),
      Tree(<<Half>>, <<[Board EXCEPT !.formed = FALSE]>>) }

\* Every sign, superfluous zero, slash and stray character, over the values
\* that are right, reversed or added somewhere.
MCAnswers ==
    {a \in [blots : {{}, {"space"}, {"invisible"}, {"space", "letter"}},
            minus : {"none", "hyphen", "U+2212"},
            zeros : 0..1, num : {NoDigits, 0, 3, 4, 5, 7, 8, 9, 11},
            over : {"none", "slash", "U+2044"},
            denZeros : 0..1, den : {NoDigits, 0, 1, 8}] :
        /\ a.over = "none" => a.den = NoDigits
        /\ a.den = NoDigits => a.denZeros = 0
        /\ a.num = NoDigits => a.zeros = 0
        /\ Cardinality(a.blots) + a.zeros + a.denZeros <= 1}
=============================================================================
