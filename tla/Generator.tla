------------------------------ MODULE Generator ------------------------------
(* The puzzle generators of packages/core/src/puzzles, down to the words they *)
(* draw: a stream of words per seed (prng/splitmix64.ts, at a width of        *)
(* sixteen bits), Fisher-Yates, and one candidate per seed.  A draw is        *)
(* addressed by its place in the stream, so a builder threads `at`, the next  *)
(* free place.  A generator judges nothing: Boards says what a candidate is.  *)
EXTENDS Boards

CONSTANTS Seeds,           \* the seeds of a batch
          Requests,        \* the boards asked for: <<kind, size>>
          HighestDigit,    \* the digits of a Kakuro cell
          MaxCageCells,    \* MAX_CAGE_CELLS
          GivenCells,      \* GIVEN_CELLS
          Vocabulary,      \* words a word search may hide
          Filler,          \* the letters of its other cells
          Authored         \* puzzles that no generator built

MaxWords == 8
MaxRejections == 100
Blank == "blank"

\* What a batch may ask for: a size the format has, where the builder itself
\* declines no other.
ASSUME RequestsAssumption ==
    \A r \in Requests : /\ r[2] \in Nat
                       /\ \/ r[1] \in {"kenken", "killer"} /\ r[2] \in 3 .. 6
                          \/ r[1] = "wordSearch" /\ r[2] \in 3 .. 8
                          \/ r[1] \in {"magicSquare", "kakuro"}

ASSUME GeneratorAssumption ==
    /\ Seeds \subseteq Nat
    /\ HighestDigit \in 1 .. DigitCeiling
    /\ MaxCageCells \in Nat \ {0} /\ GivenCells \in Nat

\* The vocabulary lists each word once, in letters, none shorter than the
\* contract's three.
ASSUME VocabularyAssumption ==
    /\ Filler \in Seq(Range(Filler) \ {Blank}) /\ Filler # <<>>
    /\ Vocabulary \in Seq(Range(Vocabulary)) /\ IsInjective(Vocabulary)
    /\ \A w \in Range(Vocabulary) : w \in Seq(Range(w) \ {Blank}) /\ Len(w) >= 3


----------------------------------------------------------------------------
\* The stream.

WordSpace == 65536

\* Bit by bit, a power of two each.
Bits == <<1, 2, 4, 8, 16, 32, 64, 128, 256, 512, 1024, 2048, 4096, 8192, 16384, 32768>>
Xor(a, b) == Total([i \in 1 .. 16 |-> Bits[i] * ((a \div Bits[i] + b \div Bits[i]) % 2)])

Shifted(z, by) == Xor(z, z \div Bits[by + 1])

Multiplied(z, by, factor) == (Shifted(z, by) * factor) % WordSpace
mix64(state) == Shifted(Multiplied(Multiplied(state % WordSpace, 7, 31153), 6, 25819), 8)

wordAt(seed, index) == mix64((seed + (index + 1) * 25033) % WordSpace)

rejectionLimit(span) == (WordSpace \div span) * span

\* intBetween 0 and bound, by the first word below the limit.  Nothing is drawn
\* for a choice of one.  Where drawBelow gives up, this takes the last word it
\* looked at: no candidate of the code is left out.
Usable(seed, i, span) == wordAt(seed, i) < rejectionLimit(span)
DrawnAt(seed, i, span) == [value |-> wordAt(seed, i) % span, at |-> i + 1]
Draw(seed, at, bound) ==
    IF bound <= 0 THEN [value |-> 0, at |-> at]
    ELSE DrawnAt(seed, CHOOSE i \in at .. at + MaxRejections - 1 :
                           /\ Usable(seed, i, bound + 1) \/ i = at + MaxRejections - 1
                           /\ \A j \in at .. i - 1 : ~Usable(seed, j, bound + 1),
                 bound + 1)

\* 0 .. n - 1 by Fisher-Yates.
Swapped(acc, i, d) == [order |-> [acc.order EXCEPT ![i + 1] = acc.order[d.value + 1],
                                                   ![d.value + 1] = acc.order[i + 1]],
                       at |-> d.at]
Shuffled(seed, from, n) ==
    FoldLeft(LAMBDA acc, i : Swapped(acc, i, Draw(seed, acc.at, i)),
             [order |-> [i \in 1 .. n |-> i - 1], at |-> from],
             [k \in 1 .. n - 1 |-> n - k])

CellAt(n, i) == <<i \div n, i % n>>
PickFrom(order, k, Op(_)) == {Op(order[i]) : i \in 1 .. k}
Rounded(count, percent) == (count * percent + 50) \div 100

\* The name of the reason there is no candidate.
Declined(reason) == [kind |-> "declined", reason |-> reason]

----------------------------------------------------------------------------
\* KenKen and Killer.

latinSquare(seed, n) ==
    LET rows == Shuffled(seed, 0, n)
        columns == Shuffled(seed, rows.at, n)
        symbols == Shuffled(seed, columns.at, n)
    IN  [r \in 1 .. n |-> [c \in 1 .. n |->
            symbols.order[((rows.order[r] + columns.order[c]) % n) + 1] + 1]]

Neighbours(c) == <<<<c[1], c[2] + 1>>, <<c[1], c[2] - 1>>, <<c[1] + 1, c[2]>>, <<c[1] - 1, c[2]>>>>

\* A cage that wants a cell more annexes a free neighbour, as often as it
\* borders the cage, until there is none.
Bordering(n, acc) ==
    Kept(FlattenSeq([k \in DOMAIN acc.cage |-> Neighbours(acc.cage[k])]), Cells(n) \ acc.taken)
WithCell(acc, c, at) == [cage |-> Append(acc.cage, c), taken |-> acc.taken \cup {c}, at |-> at]
Annexed(seed, n, acc) ==
    LET options == Bordering(n, acc)
        d == Draw(seed, acc.at, Len(options) - 1)
    IN  IF options = <<>> THEN acc ELSE WithCell(acc, options[d.value + 1], d.at)

\* Every cell not yet in a cage starts one, in reading order.
Grown(seed, n, taken, c, wanted) ==
    FoldLeft(LAMBDA acc, k : Annexed(seed, n, acc),
             [cage |-> <<c>>, taken |-> taken \cup {c}, at |-> wanted.at],
             [k \in 1 .. wanted.value |-> k])
WithCage(seed, n, acc, c) ==
    LET grown == Grown(seed, n, acc.taken, c, Draw(seed, acc.at, MaxCageCells - 1))
    IN  IF c \in acc.taken THEN acc
        ELSE [cages |-> Append(acc.cages, grown.cage), taken |-> grown.taken, at |-> grown.at]
cagePartition(seed, n) ==
    FoldLeft(LAMBDA acc, c : WithCage(seed, n, acc, c), [cages |-> <<>>, taken |-> {}, at |-> 0],
             ReadingOrder(n)).cages

\* The operations a cage's values admit.
Options(cells, v) ==
    LET high == IF v[1] >= v[2] THEN v[1] ELSE v[2]
        low == IF v[1] >= v[2] THEN v[2] ELSE v[1]
        as(op, target) == [cells |-> cells, op |-> op, target |-> target]
    IN  IF Len(v) = 1 THEN <<as("+", Total(v))>>
        ELSE <<as("+", Total(v)), as("*", Product(v))>> \o
             (IF Len(v) = 2 THEN <<as("-", high - low)>> ELSE <<>>) \o
             (IF Len(v) = 2 /\ high % low = 0 THEN <<as("/", high \div low)>> ELSE <<>>)

ValuesOf(solution, cage) == [k \in DOMAIN cage |-> solution[cage[k][1] + 1][cage[k][2] + 1]]

\* A cage's label; Killer's is its sum, and nothing is drawn for it.
Labelled(kind, seed, solution, acc, cage) ==
    LET v == ValuesOf(solution, cage)
        options == Options(cage, v)
        d == Draw(seed, acc.at, Len(options) - 1)
    IN  IF kind = "killer"
          THEN [acc EXCEPT !.groups = Append(@, [cells |-> cage, op |-> "+", target |-> Total(v)])]
          ELSE [groups |-> Append(acc.groups, options[d.value + 1]), at |-> d.at]
labels(kind, seed, solution, cages) ==
    FoldLeft(LAMBDA acc, cage : Labelled(kind, seed, solution, acc, cage),
             [groups |-> <<>>, at |-> 0], cages)

\* A cell of each of the first cages of a shuffle.
Printed(seed, cages, acc, i) ==
    LET d == Draw(seed, acc.at, Len(cages[i + 1]) - 1)
    IN  [given |-> acc.given \cup {cages[i + 1][d.value + 1]}, at |-> d.at]
givenCells(seed, from, cages) ==
    LET mixed == Shuffled(seed, from, Len(cages))
        wanted == IF GivenCells < Len(cages) THEN GivenCells ELSE Len(cages)
    IN  FoldLeft(LAMBDA acc, i : Printed(seed, cages, acc, i), [given |-> {}, at |-> mixed.at],
                 SubSeq(mixed.order, 1, wanted)).given

CagedBoard(kind, n, seed, solution, cages) ==
    LET labelled == labels(kind, seed, solution, cages)
    IN  [kind |-> kind, size |-> n, blocked |-> {}, given |-> givenCells(seed, labelled.at, cages),
         solution |-> solution, groups |-> labelled.groups]
cagedCandidate(kind, seed, n) ==
    LET solution == latinSquare(seed, n)
        cages == cagePartition(mix64(seed), n)
    IN  IF kind = "killer" /\ \E cage \in Range(cages) : HasDuplicate(ValuesOf(solution, cage))
          THEN Declined("repeated_digit_in_cage")
          ELSE CagedBoard(kind, n, mix64(mix64(seed)), solution, cages)

----------------------------------------------------------------------------
\* Magic squares and Kakuro.

LargestVerifiableSize == 5

magicSquareCandidate(seed, n) ==
    LET values == Shuffled(seed, 0, n * n)
        solution == [r \in 1 .. n |-> [c \in 1 .. n |-> values.order[(r - 1) * n + c] + 1]]
        wanted == Max({1, Rounded(n * n, IF n <= 3 THEN 30 ELSE 60)})
    IN  IF n < 3 THEN Declined("size_below_the_format")
        ELSE IF n > LargestVerifiableSize THEN Declined("size_not_verifiable")
        ELSE [kind |-> "magicSquare", size |-> n, blocked |-> {},
              given |-> PickFrom(Shuffled(seed, values.at, n * n).order, wanted, LAMBDA i : CellAt(n, i)),
              solution |-> solution,
              targets |-> <<[r \in 1 .. n |-> Total(solution[r])],
                            [c \in 1 .. n |-> Total([r \in 1 .. n |-> solution[r][c]])]>>]

\* The stretches of open cells of a row or a column that are two or longer.
Stretches(line, blocked) ==
    LET n == Len(line)
        open(i, j) == \A k \in i .. j : line[k] \notin blocked
        ends == {e \in (1 .. n) \X (1 .. n) :
                    /\ e[1] < e[2] /\ open(e[1], e[2])
                    /\ e[1] = 1 \/ line[e[1] - 1] \in blocked
                    /\ e[2] = n \/ line[e[2] + 1] \in blocked}
    IN  {SubSeq(line, e[1], e[2]) : e \in ends}
maximalRuns(n, blocked) == UNION {Stretches(line, blocked) : line \in Lines(n)}

\* fillBoard's backtracking: the first choice for the next open cell that clashes
\* with none before it and leaves room for the rest; <<>> when nothing fits.
Clashes(open, runs, grid, value) ==
    \E run \in runs, i \in DOMAIN grid : {open[Len(grid) + 1], open[i]} \subseteq Range(run) /\ grid[i] = value
FirstFit(open, runs, grid, choices, deeper) ==
    FoldLeft(LAMBDA done, value : IF done # <<>> \/ Clashes(open, runs, grid, value) THEN done
                                  ELSE deeper[Append(grid, value)],
             <<>>, choices)
Fill(open, runs, orders) ==
    LET m == Len(open)
        fill[left \in 0 .. m] ==
            [grid \in [1 .. m - left -> 1 .. HighestDigit] |->
                IF left = 0 THEN grid
                ELSE FirstFit(open, runs, grid, orders[m - left + 1], fill[left - 1])]
    IN  fill[m][<<>>]

\* The digits in a drawn order for each open cell.
Ordered(seed, acc) ==
    LET s == Shuffled(seed, acc.at, HighestDigit)
    IN  [orders |-> Append(acc.orders, [k \in 1 .. HighestDigit |-> s.order[k] + 1]), at |-> s.at]
fillBoard(seed, from, open, runs) ==
    LET draws == FoldLeft(LAMBDA acc, c : Ordered(seed, acc), [orders |-> <<>>, at |-> from], open)
    IN  [grid |-> IF \E run \in runs : Len(run) > HighestDigit THEN <<>>
                  ELSE Fill(open, runs, draws.orders),
         at |-> draws.at]

ValueAt(open, grid, c) == grid[SelectInSeq(open, LAMBDA o : o = c)]
KakuroBoard(n, blocked, open, runs, grid, given) ==
    [kind |-> "kakuro", size |-> n, blocked |-> blocked, given |-> given,
     solution |-> [r \in 1 .. n |-> [c \in 1 .. n |->
                      IF <<r - 1, c - 1>> \in blocked THEN 0 ELSE ValueAt(open, grid, <<r - 1, c - 1>>)]],
     groups |-> LET list == SetToSeq(runs)
                IN  [i \in DOMAIN list |->
                        [cells |-> list[i], op |-> "+",
                         target |-> Total([k \in DOMAIN list[i] |-> ValueAt(open, grid, list[i][k])])]]]

kakuroCandidate(seed, n) ==
    LET mixed == Shuffled(seed, 0, n * n)
        blocked == PickFrom(mixed.order, (2 * n * n + 3) \div 6, LAMBDA i : CellAt(n, i))
        open == Kept(ReadingOrder(n), Cells(n) \ blocked)
        runs == maximalRuns(n, blocked)
        fill == fillBoard(seed, mixed.at, open, runs)
        printed == Max({1, Rounded(Len(open), IF n <= 3 THEN 35 ELSE 50)})
    IN  IF n < 3 \/ n > 6 THEN Declined("size_outside_the_format")
        ELSE IF \E c \in Range(open) : \A run \in runs : c \notin Range(run) THEN Declined("a_cell_belongs_to_no_run")
        ELSE IF fill.grid = <<>> THEN Declined("no_fill_keeps_every_run_distinct")
        ELSE KakuroBoard(n, blocked, open, runs, fill.grid,
                         PickFrom(Shuffled(seed, fill.at, Len(open)).order, printed, LAMBDA i : open[i + 1]))

----------------------------------------------------------------------------
\* Word search.

Compass == <<<<0, 1>>, <<0, -1>>, <<1, 0>>, <<-1, 0>>, <<1, 1>>, <<1, -1>>, <<-1, 1>>, <<-1, -1>>>>
CellOf(start, d, k) == <<start[1] + d[1] * (k - 1), start[2] + d[2] * (k - 1)>>

\* A bug: a word is written over whatever stands there.
FitsOver(grid, word, start, d) == \A k \in DOMAIN word : CellOf(start, d, k) \in DOMAIN grid

Fits(grid, word, start, d) ==
    \A k \in DOMAIN word : /\ CellOf(start, d, k) \in DOMAIN grid
                           /\ grid[CellOf(start, d, k)] \in {Blank, word[k]}
Written(grid, word, start, d) ==
    [c \in DOMAIN grid |-> IF \E k \in DOMAIN word : CellOf(start, d, k) = c
                             THEN word[CHOOSE k \in DOMAIN word : CellOf(start, d, k) = c]
                             ELSE grid[c]]

\* The first start and direction at which the word fits, in a drawn order.
Tries(n, starts, ways) ==
    FlattenSeq([i \in 1 .. n * n |-> [j \in DOMAIN Compass |->
                   [start |-> CellAt(n, starts[i]), d |-> Compass[ways[j] + 1]]]])
placeWord(seed, n, acc, word) ==
    LET starts == Shuffled(seed, acc.at, n * n)
        ways == Shuffled(seed, starts.at, Len(Compass))
        tries == Tries(n, starts.order, ways.order)
        i == SelectInSeq(tries, LAMBDA t : Fits(acc.grid, word, t.start, t.d))
    IN  IF Cardinality(acc.placed) = MaxWords THEN acc
        ELSE IF i = 0 THEN [acc EXCEPT !.at = ways.at]
        ELSE [grid |-> Written(acc.grid, word, tries[i].start, tries[i].d),
              placed |-> acc.placed \cup {word}, at |-> ways.at]
laidWords(seed, n, from, words) ==
    FoldLeft(LAMBDA acc, w : placeWord(seed, n, acc, w),
             [grid |-> [c \in Cells(n) |-> Blank], placed |-> {}, at |-> from], words)

\* Any letter where there is none.
Padded(seed, acc, c) ==
    LET d == Draw(seed, acc.at, Len(Filler) - 1)
    IN  IF acc.grid[c] # Blank THEN acc
        ELSE [grid |-> [acc.grid EXCEPT ![c] = Filler[d.value + 1]], at |-> d.at]
paddedGrid(seed, n, laid) ==
    FoldLeft(LAMBDA acc, c : Padded(seed, acc, c), [grid |-> laid.grid, at |-> laid.at], ReadingOrder(n)).grid

wordSearchCandidate(seed, n) ==
    LET mixed == Shuffled(seed, 0, Len(Vocabulary))
        words == Kept([i \in DOMAIN Vocabulary |-> Vocabulary[mixed.order[i] + 1]],
                      {w \in Range(Vocabulary) : Len(w) <= n})
        laid == laidWords(seed, n, mixed.at, words)
        full == paddedGrid(seed, n, laid)
    IN  IF laid.placed = {} THEN Declined("no_word_fits_the_grid")
        ELSE [kind |-> "wordSearch", grid |-> [r \in 1 .. n |-> [c \in 1 .. n |-> full[<<r - 1, c - 1>>]]],
              words |-> Kept(Vocabulary, laid.placed)]

----------------------------------------------------------------------------
\* A proposal for each request and seed: a candidate or the reason there is none.
Propose(kind, n, seed) == CASE kind \in {"kenken", "killer"} -> cagedCandidate(kind, seed, n)
                            [] kind = "wordSearch" -> wordSearchCandidate(seed, n)
                            [] kind = "magicSquare" -> magicSquareCandidate(seed, n)
                            [] kind = "kakuro" -> kakuroCandidate(seed, n)

Proposals == {Propose(r[1], r[2], seed) : r \in Requests, seed \in Seeds}
Candidates == {c \in Proposals : c.kind # "declined"}

\* What is handed to the contract is a candidate, or an author wrote it.
ASSUME ProvenanceAssumption == Puzzles \subseteq Candidates \cup Authored

\* A KenKen cage whose sum is out of the range of distinct digits.
RepeatingSum(p) == p.kind = "kenken" /\ Unreachable(p)

\* "The arithmetic is true by construction and only the uniqueness is in
\* doubt": of a candidate the contract says nothing else, but for the KenKen
\* sums that its own range leaves out.
OnlyUniquenessIsInDoubt ==
    (verdict # "open" /\ puzzle \notin Authored) =>
        \/ verdict \in {"playable", "solution_not_unique", "search_budget_exhausted", "word_occurs_twice"}
        \/ verdict = "unreachable_target" /\ RepeatingSum(puzzle)

=============================================================================
