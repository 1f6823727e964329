------------------------------- MODULE Boards -------------------------------
(* Whether a puzzle is playable: parsePuzzle of packages/contract/src/puzzle. *)
(* Cheap checks come first, in an order that decides which tag is reported;   *)
(* then the exhaustive search of uniqueness.ts, a step for each value it      *)
(* tries.  A cell is <<row, col>> from 0; a blocked one holds 0.  A caged     *)
(* board or a kakuro is [kind, size, blocked, given, solution, groups], its   *)
(* groups the cages or the runs, each [cells, op, target]; a magic square has *)
(* targets, <<rows, columns>>, for groups; a word search is                   *)
(* [kind, grid, words], a word a sequence of letters.                         *)
EXTENDS Integers, Sequences, FiniteSets, SequencesExt

CONSTANTS Puzzles,        \* what may be handed to parsePuzzle
          DigitCeiling,   \* KAKURO_DIGIT_CEILING
          NodeBudget      \* SEARCH_NODE_BUDGET

ASSUME BoundsAssumption == /\ DigitCeiling \in Nat \ {0}
                           /\ NodeBudget \in Nat

VARIABLES puzzle,      \* the puzzle in question
          verdict,     \* "open", "playable" (null in the code) or a rejection
          problem,     \* the constraint problem, once the checks have passed
          trail,       \* the search's frames: the value each has got to, or 0
          solutions,   \* solutions counted
          nodes,       \* values tried
          exhausted,   \* the budget ended a frame
          found        \* the assignments handed to the callback

vars == <<puzzle, verdict, problem, trail, solutions, nodes, exhausted, found>>

SolutionLimit == 2

----------------------------------------------------------------------------
\* The board.

Caged(p) == p.kind \in {"kenken", "killer"}

ReadingOrder(n) == [i \in 1 .. n * n |-> <<(i - 1) \div n, (i - 1) % n>>]
Row(n, i) == [k \in 1 .. n |-> <<i, k - 1>>]
Column(n, i) == [k \in 1 .. n |-> <<k - 1, i>>]

Inside(c, n) == c[1] < n /\ c[2] < n
Cells(n) == (0 .. n - 1) \X (0 .. n - 1)

\* The elements of s that are in the set S, in the order of s.
Kept(s, S) == FoldLeft(LAMBDA kept, e : IF e \in S THEN Append(kept, e) ELSE kept, <<>>, s)

FillableCells(p) == Kept(ReadingOrder(p.size), Cells(p.size) \ p.blocked)
Fillable(p) == Range(FillableCells(p))
Declared(p, c) == p.solution[c[1] + 1][c[2] + 1]

\* Digits are 1 to this, smallest first.
DomainMax(p) == CASE Caged(p) -> p.size
                  [] p.kind = "kakuro" -> DigitCeiling
                  [] p.kind = "magicSquare" -> p.size * p.size

Total(v) == FoldFunction(LAMBDA x, y : x + y, 0, v)
Product(v) == FoldFunction(LAMBDA x, y : x * y, 1, v)
HasDuplicate(v) == \E i, j \in DOMAIN v : i # j /\ v[i] = v[j]

----------------------------------------------------------------------------
\* The checks before the search.

\* What the schemas demand of a payload's numbers.
WellFormed(p) ==
    CASE p.kind = "wordSearch" ->
             /\ Len(p.grid) \in 3 .. 8
             /\ Len(p.words) \in 1 .. 8
             /\ \A w \in Range(p.words) : Len(w) \in 3 .. 8
      [] p.kind = "magicSquare" ->
             /\ p.size \in 3 .. 6
             /\ \A side \in Range(p.targets) :
                    Len(side) \in 3 .. 6 /\ \A t \in Range(side) : t >= 1
      [] OTHER ->
             /\ p.size \in 3 .. 6
             /\ p.groups # <<>>
             /\ \A g \in Range(p.groups) :
                    /\ Len(g.cells) >= (IF p.kind = "kakuro" THEN 2 ELSE 1)
                    /\ g.target >= (IF p.kind = "kakuro" THEN 3 ELSE 1)

Rectangular(p) == \A row \in Range(p.grid) : row # <<>> /\ Len(row) = Len(p.grid[1])

SolutionShaped(p) ==
    /\ p.kind = "magicSquare" => \A side \in Range(p.targets) : Len(side) = p.size
    /\ Len(p.solution) = p.size
    /\ \A r \in 1 .. p.size :
           /\ Len(p.solution[r]) = p.size
           /\ \A c \in 1 .. p.size :
                  IF <<r - 1, c - 1>> \in p.blocked
                    THEN p.solution[r][c] = 0
                    ELSE p.solution[r][c] \in 1 .. DomainMax(p)

\* The first group cell, in the order the groups list them, that is off the
\* board or, where the groups are a partition, claimed before.
Claims(p) == FlattenSeq([i \in DOMAIN p.groups |-> p.groups[i].cells])
Stray(p) == LET all == Claims(p)
                bad == {i \in DOMAIN all : \/ ~Inside(all[i], p.size)
                                           \/ Caged(p) /\ \E j \in 1 .. i - 1 : all[j] = all[i]}
            IN  IF bad = {} THEN 0 ELSE Min(bad)
Covered(p) == IF Caged(p) THEN Range(Claims(p)) = Fillable(p)
                          ELSE Fillable(p) \subseteq Range(Claims(p))

\* checkSumReachable: between the sum of the k smallest digits and of the k
\* largest, as if a group never repeated one.
SumReachable(k, target, max) ==
    LET few == IF k < max THEN k ELSE max
    IN  target \in (few * (few + 1)) \div 2 .. (few * (2 * max - few + 1)) \div 2
Unreachable(p) == \E g \in Range(p.groups) : /\ p.kind = "kenken" => g.op = "+"
                                             /\ ~SumReachable(Len(g.cells), g.target, DomainMax(p))

Directions == ({-1, 0, 1} \X {-1, 0, 1}) \ {<<0, 0>>}
ReadsAs(grid, word, r, c, d) ==
    \A k \in DOMAIN word : LET at == <<r + d[1] * (k - 1), c + d[2] * (k - 1)>>
                           IN  /\ at[1] \in DOMAIN grid
                               /\ at[2] \in DOMAIN grid[at[1]]
                               /\ grid[at[1]][at[2]] = word[k]
Occurrences(grid, word) ==
    {o \in (DOMAIN grid) \X (DOMAIN grid[1]) \X Directions : ReadsAs(grid, word, o[1], o[2], o[3])}

\* The first word that the grid does not hold exactly once.
Misprint(p) == SelectInSeq(p.words, LAMBDA w : Cardinality(Occurrences(p.grid, w)) # 1)
Times(p) == Cardinality(Occurrences(p.grid, p.words[Misprint(p)]))

\* The rejections in the order in which they are looked for.
Checks(p) ==
    IF ~WellFormed(p) THEN <<"payload_shape">>
    ELSE IF p.kind = "wordSearch" THEN <<"solution_shape", "word_not_found", "word_occurs_twice">>
    ELSE <<"blocked_cell_outside_board", "given_cell_outside_board", "solution_shape">> \o
         IF p.kind = "magicSquare" THEN <<>>
         ELSE <<"cage_cell_outside_board", "cage_cells_overlap",
                "cage_coverage_incomplete", "binary_cage_size", "unreachable_target">>

Wrong(p, tag) ==
    CASE tag = "payload_shape" -> TRUE
      [] tag = "blocked_cell_outside_board" -> \E c \in p.blocked : ~Inside(c, p.size)
      [] tag = "given_cell_outside_board" ->
             \E c \in p.given : ~Inside(c, p.size) \/ c \in p.blocked
      [] tag = "solution_shape" ->
             IF p.kind = "wordSearch" THEN ~Rectangular(p) ELSE ~SolutionShaped(p)
      [] tag = "cage_cell_outside_board" ->
             Stray(p) # 0 /\ ~Inside(Claims(p)[Stray(p)], p.size)
      [] tag = "cage_cells_overlap" -> Stray(p) # 0
      [] tag = "cage_coverage_incomplete" -> ~Covered(p)
      [] tag = "binary_cage_size" ->
             p.kind = "kenken" /\ \E g \in Range(p.groups) : g.op \in {"-", "/"} /\ Len(g.cells) # 2
      [] tag = "unreachable_target" -> Unreachable(p)
      [] tag = "word_not_found" -> Misprint(p) # 0 /\ Times(p) = 0
      [] tag = "word_occurs_twice" -> Misprint(p) # 0 /\ Times(p) > 1

\* firstRejection: "none" when nothing is wrong.
FirstRejection(p) == LET i == SelectInSeq(Checks(p), LAMBDA tag : Wrong(p, tag))
                     IN  IF i = 0 THEN "none" ELSE Checks(p)[i]

----------------------------------------------------------------------------
\* The regions every kind is expressed in.

Distinct(cells) == [cells |-> cells, kind |-> "distinct", target |-> 0]
SumOf(cells, target) == [cells |-> cells, kind |-> "sum", target |-> target]
DistinctSum(cells, target) == [cells |-> cells, kind |-> "distinctSum", target |-> target]
Arithmetic(cells, op, target) == [cells |-> cells, kind |-> op, target |-> target]

Lines(n) == {Row(n, i) : i \in 0 .. n - 1} \cup {Column(n, i) : i \in 0 .. n - 1}

Regions(p) ==
    {SumOf(<<c>>, Declared(p, c)) : c \in p.given} \cup
    CASE p.kind = "magicSquare" ->
             {Distinct(FillableCells(p))} \cup
             {SumOf(Row(p.size, i), p.targets[1][i + 1]) : i \in 0 .. p.size - 1} \cup
             {SumOf(Column(p.size, i), p.targets[2][i + 1]) : i \in 0 .. p.size - 1}
      [] p.kind = "kakuro" -> {DistinctSum(g.cells, g.target) : g \in Range(p.groups)}
      [] p.kind = "killer" -> {Distinct(line) : line \in Lines(p.size)} \cup
                              {DistinctSum(g.cells, g.target) : g \in Range(p.groups)}
      [] p.kind = "kenken" -> {Distinct(line) : line \in Lines(p.size)} \cup
                              {Arithmetic(g.cells, g.op, g.target) : g \in Range(p.groups)}

\* Every cell of the region is filled with v.
RuleSatisfied(region, v) ==
    CASE region.kind = "distinct" -> ~HasDuplicate(v)
      [] region.kind = "sum" -> Total(v) = region.target
      [] region.kind = "distinctSum" -> ~HasDuplicate(v) /\ Total(v) = region.target
      [] region.kind = "+" -> Total(v) = region.target
      [] region.kind = "*" -> Product(v) = region.target
      [] region.kind = "-" -> /\ Len(v) = 2
                              /\ region.target \in {v[1] - v[2], v[2] - v[1]}
      [] region.kind = "/" -> /\ Len(v) = 2
                              /\ \/ v[1] >= v[2] /\ v[1] = region.target * v[2]
                                 \/ v[2] >= v[1] /\ v[2] = region.target * v[1]

\* A bug: a partial sum that is one short of its target is given up.
RulePrunableEarly(region, v) ==
    \/ region.kind \in {"distinct", "distinctSum"} /\ HasDuplicate(v)
    \/ region.kind \in {"sum", "distinctSum"} /\ Total(v) >= region.target - 1

\* Some are still empty and no digits in them can make the rule hold.
RulePrunable(region, v) ==
    \/ region.kind \in {"distinct", "distinctSum"} /\ HasDuplicate(v)
    \/ region.kind \in {"sum", "distinctSum"} /\ Total(v) >= region.target

\* viewsTouching: a region by the places of its cells in the search's order, 0
\* for a cell the search never fills.
View(order, region) ==
    [at |-> [k \in DOMAIN region.cells |-> SelectInSeq(order, LAMBDA c : c = region.cells[k])],
     kind |-> region.kind, target |-> region.target]

NoProblem == [cells |-> 0, digits |-> 0, views |-> {}]
ProblemOf(p) == [cells |-> Len(FillableCells(p)), digits |-> DomainMax(p),
                 views |-> LET order == FillableCells(p) IN {View(order, r) : r \in Regions(p)}]

\* What the payload's types say of a puzzle that gets past the checks: it is of
\* a kind with a search, and its groups list their cells.
ASSUME PuzzlesAssumption ==
    \A p \in Puzzles : (p.kind # "wordSearch" /\ FirstRejection(p) = "none") =>
        /\ p.kind \in {"kenken", "killer", "kakuro", "magicSquare"}
        /\ p.kind # "magicSquare" => \A g \in Range(p.groups) : g.cells \in Seq(Range(g.cells))

----------------------------------------------------------------------------
\* The search.  Frame n is place(n - 1); its value is the one it is trying.

Filled(view, t) == {k \in DOMAIN view.at : view.at[k] \in 1 .. Len(t)}
Values(view, t) == [k \in Filled(view, t) |-> t[view.at[k]]]

StillConsistent(view, t) ==
    IF Filled(view, t) = DOMAIN view.at THEN RuleSatisfied(view, Values(view, t))
                                        ELSE ~RulePrunable(view, Values(view, t))

\* The regions that hold the cell just filled.
Consistent(t) == \A view \in problem.views : Len(t) \in Range(view.at) => StillConsistent(view, t)

\* A bug: the budget is looked at first.
BrokeFirst == nodes >= NodeBudget

\* The limit is looked at before the budget.
Enough == solutions >= SolutionLimit
Broke == ~Enough /\ nodes >= NodeBudget

Init == /\ puzzle \in Puzzles
        /\ verdict = "open" /\ problem = NoProblem /\ trail = <<>>
        /\ solutions = 0 /\ nodes = 0 /\ exhausted = FALSE /\ found = {}

\* parsePuzzle up to the search.
Validate ==
    /\ verdict = "open" /\ problem = NoProblem
    /\ LET tag == FirstRejection(puzzle)
       IN  IF tag = "none" /\ puzzle.kind # "wordSearch"
             THEN /\ problem' = ProblemOf(puzzle)
                  /\ trail' = <<0>>
                  /\ UNCHANGED verdict
             ELSE /\ verdict' = IF tag = "none" THEN "playable" ELSE tag
                  /\ UNCHANGED <<problem, trail>>
    /\ UNCHANGED <<puzzle, solutions, nodes, exhausted, found>>

\* place() beyond the last cell.
Found == /\ trail # <<>> /\ Len(trail) = problem.cells + 1
         /\ solutions' = solutions + 1
         /\ found' = found \cup {Front(trail)}
         /\ trail' = Front(trail)
         /\ UNCHANGED <<puzzle, verdict, problem, nodes, exhausted>>

\* The next value of the cell: deeper when every region it touches allows it.
TryValue == /\ trail # <<>> /\ Len(trail) <= problem.cells
            /\ Last(trail) < problem.digits
            /\ ~Enough /\ ~Broke
            /\ nodes' = nodes + 1
            /\ LET t == [trail EXCEPT ![Len(trail)] = @ + 1]
               IN  trail' = IF Consistent(t) THEN Append(t, 0) ELSE t
            /\ UNCHANGED <<puzzle, verdict, problem, solutions, exhausted, found>>

\* place() returns: out of values, enough solutions, or out of budget.
Return == /\ trail # <<>> /\ Len(trail) <= problem.cells
          /\ Last(trail) >= problem.digits \/ Enough \/ Broke
          /\ exhausted' = (exhausted \/ (Last(trail) < problem.digits /\ Broke))
          /\ trail' = Front(trail)
          /\ UNCHANGED <<puzzle, verdict, problem, solutions, nodes, found>>

DeclaredFound == [i \in 1 .. problem.cells |-> Declared(puzzle, FillableCells(puzzle)[i])] \in found

Outcome == IF exhausted THEN "search_budget_exhausted"
           ELSE IF solutions > 1 THEN "solution_not_unique"
           ELSE IF solutions = 1 /\ DeclaredFound THEN "playable" ELSE "solution_mismatch"

\* checkUniqueSolution, the search over.
Conclude == /\ verdict = "open" /\ problem # NoProblem /\ trail = <<>>
            /\ verdict' = Outcome
            /\ UNCHANGED <<puzzle, problem, trail, solutions, nodes, exhausted, found>>

Search == Found \/ TryValue \/ Return \/ Conclude
Next == Validate \/ Search

Spec == Init /\ [][Next]_vars
----------------------------------------------------------------------------
\* What a solution is, without a search.

\* The fillings of the board that keep what is printed.
Free(p) == Fillable(p) \ p.given
Unprinted(p) == (1 .. DomainMax(p)) \
                (IF p.kind = "magicSquare" THEN {Declared(p, c) : c \in p.given} ELSE {})
Fillings(p) == {[c \in Fillable(p) |-> IF c \in p.given THEN Declared(p, c) ELSE f[c]] :
                    f \in [Free(p) -> Unprinted(p)]}

\* A blocked cell holds nothing.
Obeys(p, f) == \A r \in Regions(p) :
    RuleSatisfied(r, [k \in {k \in DOMAIN r.cells : r.cells[k] \in DOMAIN f} |-> f[r.cells[k]]])
SolutionsOf(p) == {f \in Fillings(p) : Obeys(p, f)}
DeclaredFilling(p) == [c \in Fillable(p) |-> Declared(p, c)]

\* A clue names only cells that a player fills.
CluesFillable(p) == \A r \in Regions(p) : r.kind # "distinct" => Range(r.cells) \subseteq Fillable(p)

----------------------------------------------------------------------------
\* Properties.

\* The search never has more frames than cells, spends no more than its budget
\* and stops at the second solution.
TypeOK == /\ trail \in Seq(0 .. problem.digits)
          /\ solutions \in 0 .. SolutionLimit
          /\ problem.cells \in Nat /\ problem.digits \in Nat
          /\ Len(trail) \in 0 .. problem.cells + 1
          /\ nodes \in 0 .. NodeBudget
          /\ exhausted \in BOOLEAN

\* The verdict is the one that listing every filling gives: pruning loses no
\* solution and lets none through, nothing is counted twice, and a board is
\* playable exactly when the declared solution is its only one.
VerdictIsRight ==
    (verdict # "open" /\ problem # NoProblem /\ ~exhausted /\ CluesFillable(puzzle)) =>
    LET all == SolutionsOf(puzzle)
    IN  verdict = CASE Cardinality(all) > 1 -> "solution_not_unique"
                    [] all = {DeclaredFilling(puzzle)} -> "playable"
                    [] OTHER -> "solution_mismatch"

\* What the callback is handed satisfies every region whose cells the search
\* fills, the ones that were full long before the last cell included.
FoundSatisfyRegions ==
    \A f \in found, view \in problem.views :
        (DOMAIN view.at # {} /\ Filled(view, f) = DOMAIN view.at) => RuleSatisfied(view, Values(view, f))

\* "A second solution already in hand is never downgraded to unknown": the
\* budget ends only a search that has not settled the question.
BudgetOnlyWhenOpen == exhausted => solutions < SolutionLimit /\ nodes = NodeBudget

\* checkUniqueSolution's promise, of every board it accepts: exactly one
\* assignment satisfies the constraints, and it is the declared one.
AcceptedIsDeclared == verdict = "playable" /\ problem # NoProblem =>
                          Obeys(puzzle, DeclaredFilling(puzzle))

=============================================================================
