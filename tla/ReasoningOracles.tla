--------------------------- MODULE ReasoningOracles ---------------------------
(***************************************************************************)
(* The independent answers to the rows of the reasoning tasks              *)
(* (corpusgen/reasoning_oracles.py): a row enters the corpus only if its   *)
(* native answer is the one computed here.  A grid is a function of rows   *)
(* and columns from 1; the text an answer is rendered to is left out.      *)
(***************************************************************************)
EXTENDS Integers, Sequences, FiniteSets, SequencesExt, FiniteSetsExt

VARIABLE input        \* one of the bounded inputs; input.of names the module it is for

Answer(value)   == [status |-> "answer", value |-> value]
Failed(reason) == [status |-> reason, value |-> << >>]
Ascending(set) == SelectSeq([k \in 1..Max({0} \cup set) |-> k], LAMBDA k : k \in set)
Repeat(n, Step(_), state) == FoldLeft(LAMBDA s, k : Step(s), state, [k \in 1..n |-> k])

-----------------------------------------------------------------------------
(* _course_schedule: courses without a prerequisite left are taken in      *)
(* turn; an edge <<course, prerequisite>> that is repeated counts once.    *)
CourseSchedule(courses, prerequisites) ==
  LET edges == Range(prerequisites)
      Take(s) ==
        IF s.queue = << >> THEN s
        ELSE LET after == {e[1] : e \in {x \in edges : x[2] = Head(s.queue)}}
                 left  == [c \in courses |-> s.left[c] - IF c \in after THEN 1 ELSE 0]
             IN  [queue |-> Tail(s.queue) \o Ascending({c \in after : left[c] = 0}),
                  left |-> left, visited |-> s.visited + 1]
      left0 == [c \in courses |-> Cardinality({e \in edges : e[1] = c})]
      last  == Repeat(Cardinality(courses), Take,
                 [queue |-> Ascending({c \in courses : left0[c] = 0}), left |-> left0, visited |-> 0])
  IN  last.visited = Cardinality(courses)

(* The courses can all be taken: no set of them needs itself.              *)
Takeable(courses, prerequisites) ==
  ~\E s \in SUBSET courses \ {{}} : \A c \in s : \E p \in s : <<c, p>> \in Range(prerequisites)

-----------------------------------------------------------------------------
Cells(grid) == {<<r, c>> : r \in DOMAIN grid, c \in DOMAIN grid[1]}
At(grid, cell) == grid[cell[1]][cell[2]]
Steps == <<<<1, 0>>, <<-1, 0>>, <<0, 1>>, <<0, -1>>>>
Around(grid, cell) ==
  SelectSeq([k \in 1..4 |-> <<cell[1] + Steps[k][1], cell[2] + Steps[k][2]>>],
            LAMBDA x : x \in Cells(grid))
ByRows(grid, cells) ==
  SelectSeq([k \in 1..(Len(grid) * Len(grid[1])) |->
               <<1 + (k - 1) \div Len(grid[1]), 1 + ((k - 1) % Len(grid[1]))>>],
            LAMBDA x : x \in cells)

(* The queue of the three grid tasks: a cell comes off it, and its         *)
(* neighbours that were never on it, and that Open admits, go on it.       *)
Flood(grid, first, Open(_)) ==
  LET Visit(s) ==
        IF s.queue = << >> THEN s
        ELSE LET cell  == Head(s.queue)
                 fresh == SelectSeq(Around(grid, cell),
                                    LAMBDA x : x \notin DOMAIN s.depth /\ Open(x))
             IN  [queue |-> Tail(s.queue) \o fresh,
                  depth |-> [x \in DOMAIN s.depth \cup Range(fresh) |->
                               IF x \in DOMAIN s.depth THEN s.depth[x] ELSE s.depth[cell] + 1]]
  IN  Repeat(Cardinality(Cells(grid)), Visit,
             [queue |-> first, depth |-> [x \in Range(first) |-> 0]]).depth

(* _binary_matrix: the distance of every cell to the nearest zero.         *)
BinaryMatrix(grid) ==
  LET zeros == {x \in Cells(grid) : At(grid, x) = 0}
  IN  IF zeros = {} THEN Failed("rejected")
      ELSE Answer(Flood(grid, ByRows(grid, zeros), LAMBDA x : TRUE))

Apart(a, b) == LET Abs(n) == IF n < 0 THEN -n ELSE n IN Abs(a[1] - b[1]) + Abs(a[2] - b[2])
NearestZero(grid, cell) == Min({Apart(cell, x) : x \in {y \in Cells(grid) : At(grid, y) = 0}})

(* _rotten_oranges: the minutes until none is fresh, or -1.                *)
RottenOranges(grid) ==
  LET rotten == {x \in Cells(grid) : At(grid, x) = 2}
      fresh  == {x \in Cells(grid) : At(grid, x) = 1}
      depth  == Flood(grid, ByRows(grid, rotten), LAMBDA x : x \in fresh)
      infected == Cardinality(DOMAIN depth \ rotten)
  IN  IF infected = Cardinality(fresh) THEN Max({0} \cup Range(depth)) ELSE -1

(* Minute by minute, everything next to a rotten orange rots.              *)
RECURSIVE Minutes(_, _)
Minutes(rotten, fresh) ==
  LET now == {x \in fresh : \E y \in rotten : Apart(x, y) = 1}
  IN  IF fresh = {} THEN 0
      ELSE IF now = {} THEN -1
      ELSE LET later == Minutes(rotten \cup now, fresh \ now)
           IN  IF later = -1 THEN -1 ELSE later + 1

(* _largest_island.                                                        *)
LargestIsland(grid) ==
  FoldLeft(LAMBDA s, cell :
             IF At(grid, cell) # 1 \/ cell \in s.visited THEN s
             ELSE LET island == DOMAIN Flood(grid, <<cell>>, LAMBDA x : At(grid, x) = 1)
                  IN  [visited |-> s.visited \cup island, most |-> Max({s.most, Cardinality(island)})],
           [visited |-> {}, most |-> 0], ByRows(grid, Cells(grid))).most

Connected(cells) ==
  \A part \in SUBSET cells \ {{}, cells} : \E x \in part, y \in cells \ part : Apart(x, y) = 1
LargestConnected(grid) ==
  Max({0} \cup {Cardinality(s) : s \in {t \in SUBSET {x \in Cells(grid) : At(grid, x) = 1} : Connected(t)}})

-----------------------------------------------------------------------------
(* _futoshiki.  A constraint is <<cell, cell, relation>>; of two with the  *)
(* same cells the last one stands.                                         *)
Stated(constraints) ==
  FoldLeft(LAMBDA f, c : [p \in DOMAIN f \cup {<<c[1], c[2]>>} |->
                            IF p = <<c[1], c[2]>> THEN c[3] ELSE f[p]],
           [p \in {} |-> "<"], constraints)
RelationValid(grid, pair, relation) ==
  LET first == At(grid, pair[1])  second == At(grid, pair[2])
  IN  first = 0 \/ second = 0 \/ (IF relation = "<" THEN first < second ELSE first > second)
Put(grid, cell, value) == [grid EXCEPT ![cell[1]][cell[2]] = value]
Candidates(grid, cell, stated) ==
  {v \in DOMAIN grid :
     /\ \A k \in DOMAIN grid : grid[cell[1]][k] # v /\ grid[k][cell[2]] # v
     /\ \A p \in DOMAIN stated :
          cell \in {p[1], p[2]} => RelationValid(Put(grid, cell, v), p, stated[p])}
Complete(grid, stated) ==
  /\ \A k \in DOMAIN grid : Range(grid[k]) = DOMAIN grid
                         /\ {grid[r][k] : r \in DOMAIN grid} = DOMAIN grid
  /\ \A p \in DOMAIN stated : RelationValid(grid, p, stated[p])

(* solve: branches at the first cell of the fewest candidates, and stops   *)
(* at the second solution.                                                 *)
RECURSIVE Solve(_, _, _)
Solve(grid, stated, solutions) ==
  LET unfilled == {x \in Cells(grid) : At(grid, x) = 0}
      count    == [x \in unfilled |-> Cardinality(Candidates(grid, x, stated))]
      fewest   == {x \in unfilled : \A y \in unfilled : count[x] <= count[y]}
  IN  IF Cardinality(solutions) >= 2 THEN solutions
      ELSE IF unfilled = {}
      THEN IF Complete(grid, stated) THEN solutions \cup {grid} ELSE solutions
      ELSE LET cell == ByRows(grid, fewest)[1]
           IN  FoldLeft(LAMBDA found, v : Solve(Put(grid, cell, v), stated, found),
                        solutions, Ascending(Candidates(grid, cell, stated)))

CluesClash(grid) ==
  \E x, y \in Cells(grid) : /\ x # y /\ (x[1] = y[1] \/ x[2] = y[2])
                            /\ At(grid, x) = At(grid, y) /\ At(grid, x) # 0
Futoshiki(grid, constraints) ==
  LET solutions == Solve(grid, Stated(constraints), {})
  IN  IF CluesClash(grid) THEN Failed("error")
      ELSE IF Cardinality(solutions) # 1 THEN Failed("rejected")
      ELSE Answer(CHOOSE g \in solutions : TRUE)

Squares(size) == [1..size -> {row \in [1..size -> 1..size] : Range(row) = 1..size}]
Solutions(grid, constraints) ==
  {g \in Squares(Len(grid)) : /\ \A x \in Cells(grid) : At(grid, x) \in {0, At(g, x)}
                              /\ Complete(g, Stated(constraints))}

-----------------------------------------------------------------------------
(* _ransom_note: a letter is there as often as it is needed.               *)
Count(seq, x) == Cardinality({k \in DOMAIN seq : seq[k] = x})
RansomNote(note, magazine) == \A x \in Range(note) : Count(magazine, x) >= Count(note, x)
CutOut(note, magazine) ==
  \E f \in [DOMAIN note -> DOMAIN magazine] :
    IsInjective(f) /\ \A k \in DOMAIN note : magazine[f[k]] = note[k]

(* _dice: the ways to each total, a die at a time; the fraction of those   *)
(* that reach the target, in lowest terms.                                 *)
Sum(seq) == FoldLeft(LAMBDA a, b : a + b, 0, seq)
Product(seq) == FoldLeft(LAMBDA a, b : a * b, 1, seq)
Ways(dice) ==
  FoldLeft(LAMBDA counts, sides :
             [t \in 1..(Len(counts) + sides) |->
                Sum([face \in 1..sides |-> IF t - face \in DOMAIN counts THEN counts[t - face] ELSE 0])],
           <<1>>, dice)
Divisor(a, b) == Max({d \in 1..b : a % d = 0 /\ b % d = 0})
Dice(dice, target) ==
  LET ways == Ways(dice)
      hits == IF target < Len(ways) THEN Sum(SubSeq(ways, target + 1, Len(ways))) ELSE 0
      by   == Divisor(hits, Product(dice))
  IN  <<hits \div by, Product(dice) \div by>>

Throws(dice) == {t \in [DOMAIN dice -> 1..Max(Range(dice))] : \A k \in DOMAIN dice : t[k] <= dice[k]}
FractionIs(fraction, hits, all) ==
  /\ fraction[1] * all = hits * fraction[2]
  /\ \A d \in 2..fraction[2] : fraction[1] % d # 0 \/ fraction[2] % d # 0

(* _string_splitting: the first rule that applies, until none changes the  *)
(* counts or a state comes again.                                          *)
Rewrites(m) ==
  IF m[1] >= 1 THEN [m EXCEPT ![1] = @ - 1, ![4] = @ + 2, ![5] = @ + 1]
  ELSE IF m[2] >= 2 THEN [m EXCEPT ![2] = @ - 2, ![4] = @ + 1]
  ELSE IF m[3] >= 2 THEN [m EXCEPT ![3] = @ - 2, ![5] = @ + 1]
  ELSE IF m[2] >= 1 /\ m[3] >= 1 THEN [m EXCEPT ![1] = @ + 1, ![2] = @ - 1, ![3] = @ - 1]
  ELSE IF m[4] >= 1 /\ m[5] >= 1 THEN [m EXCEPT ![4] = @ - 1, ![5] = @ - 1, ![6] = @ + 1]
  ELSE m
StringSplitting(initial, maximum) ==
  LET Next1(s) == LET m == Rewrites(s.counts)
                  IN  IF s.over \/ m \in s.seen THEN [s EXCEPT !.over = TRUE]
                      ELSE [counts |-> m, seen |-> s.seen \cup {m}, over |-> FALSE]
      start == initial \o <<0, 0, 0>>
  IN  Repeat(maximum, Next1, [counts |-> start, seen |-> {start}, over |-> FALSE]).counts
(* Rewritten maximum times; a word that no rule changes stays.             *)
Rewritten(initial, maximum) == Repeat(maximum, Rewrites, initial \o <<0, 0, 0>>)

-----------------------------------------------------------------------------
(* _path_star: the breadth-first path over the edges taken both ways.      *)
Beside(edges, node) == {y \in UNION {Range(e) : e \in edges} : <<node, y>> \in edges \/ <<y, node>> \in edges}
PathStar(edges, start, goal) ==
  LET Visit(s) ==
        IF s.queue = << >> \/ goal \in DOMAIN s.parent THEN s
        ELSE LET node == Head(s.queue)
                 new  == Beside(edges, node) \ DOMAIN s.parent
             IN  [queue |-> Tail(s.queue) \o Ascending(new),
                  parent |-> [x \in DOMAIN s.parent \cup new |->
                                IF x \in DOMAIN s.parent THEN s.parent[x] ELSE node]]
      nodes  == UNION {Range(e) : e \in edges} \cup {start}
      parent == Repeat(Cardinality(nodes), Visit,
                       [queue |-> <<start>>, parent |-> [x \in {start} |-> 0]]).parent
      Back(path) == IF path[1] = start THEN path ELSE <<parent[path[1]]>> \o path
  IN  IF goal \notin DOMAIN parent THEN Failed("error")
      ELSE Answer(Repeat(Cardinality(nodes), Back, <<goal>>))

Paths(edges, start, goal, length) ==
  {p \in [1..length -> UNION {Range(e) : e \in edges} \cup {start}] :
     /\ p[1] = start /\ p[length] = goal
     /\ \A k \in 1..(length - 1) : p[k + 1] \in Beside(edges, p[k])}

(* _rotate_matrix: rows bottom up become columns, rotations % 4 times.     *)
Turn(m) == [r \in 1..Len(m) |-> [c \in 1..Len(m) |-> m[Len(m) + 1 - c][r]]]
RotateMatrix(m, rotations) == Repeat(rotations % 4, Turn, m)
(* The place a cell comes to by each quarter turn.                         *)
RECURSIVE Turned(_, _, _)
Turned(cell, size, rotations) ==
  IF rotations = 0 THEN cell ELSE Turned(<<cell[2], size + 1 - cell[1]>>, size, rotations - 1)

(* _spiral_matrix: four sides, the last two only if something is left.     *)
RECURSIVE Spiral(_, _, _, _, _)
Spiral(m, top, bottom, left, right) ==
  IF top > bottom \/ left > right THEN << >>
  ELSE LET over  == [k \in 1..(right - left + 1) |-> m[top][left + k - 1]]
           down  == [k \in 1..(bottom - top) |-> m[top + k][right]]
           back  == IF top + 1 <= bottom
                    THEN [k \in 1..(right - left) |-> m[bottom][right - k]] ELSE << >>
           last  == IF top + 1 <= bottom THEN bottom - 1 ELSE bottom
           up    == IF left <= right - 1
                    THEN [k \in 1..(last - top) |-> m[last + 1 - k][left]] ELSE << >>
       IN  over \o down \o back \o up
             \o Spiral(m, top + 1, last, IF left <= right - 1 THEN left + 1 ELSE left, right - 1)
SpiralMatrix(m) == Spiral(m, 1, Len(m), 1, Len(m[1]))
(* The first row, then the spiral of the rest turned to the left.          *)
RECURSIVE Peeled(_)
Peeled(m) ==
  IF Len(m) = 0 THEN << >>
  ELSE Head(m) \o (IF Len(m) = 1 THEN << >>
                   ELSE Peeled([c \in 1..Len(m[1]) |->
                                  [r \in 1..(Len(m) - 1) |-> m[r + 1][Len(m[1]) + 1 - c]]]))

-----------------------------------------------------------------------------
(* _prime_factorization: trial division by 2 and the odd numbers.          *)
RECURSIVE Factors(_, _)
Factors(remainder, divisor) ==
  IF divisor * divisor > remainder THEN IF remainder > 1 THEN <<remainder>> ELSE << >>
  ELSE IF remainder % divisor = 0 THEN <<divisor>> \o Factors(remainder \div divisor, divisor)
  ELSE Factors(remainder, IF divisor = 2 THEN 3 ELSE divisor + 2)
IsPrime(n) == n > 1 /\ \A d \in 2..(n - 1) : n % d # 0

(* _base_conversion: digits to a number and back; zero is one digit.       *)
Value(digits, base) == FoldLeft(LAMBDA v, d : v * base + d, 0, digits)
RECURSIVE Digits(_, _)
Digits(value, base) ==
  IF value = 0 THEN << >> ELSE Digits(value \div base, base) \o <<value % base>>
BaseConversion(source, from, to) ==
  IF \E d \in Range(source) : d >= from THEN Failed("error")
  ELSE Answer(IF Value(source, from) = 0 THEN <<0>> ELSE Digits(Value(source, from), to))

(* _prime_prefix, _count_primes: the sieve crosses out the multiples of    *)
(* every number up to the root that is still there; prefix[limit] counts.  *)
RootBelow(limit) == Max({r \in 0..limit : r * r < limit} \cup {0})
Root(limit) == Max({r \in 0..limit : r * r <= limit})
Sieve(limit) ==
  FoldLeft(LAMBDA left, d : IF d \in left THEN left \ {n \in (d * d)..limit : n % d = 0} ELSE left,
           2..limit, [k \in 1..(Root(limit) - 1) |-> k + 1])
Prefix(limit) ==
  LET prime == Sieve(limit)
  IN  [n \in 0..limit |-> IF limit < 2 THEN 0 ELSE Cardinality({p \in prime : p <= n})]
CountPrimes(start, end, limit) ==
  Prefix(limit)[end] - IF start = 0 THEN 0 ELSE Prefix(limit)[start - 1]
-----------------------------------------------------------------------------
(* Every oracle gives the answer of the task's own definition, so that a   *)
(* row is refused for its answer and never for the oracle's; a puzzle is   *)
(* rejected exactly when it has no solution or more than one               *)
(* (canonical_reasoning_answer, "oracle disagrees with independent         *)
(* replay").                                                               *)
OracleIsRight(i) ==
  CASE i.task = "course_schedule" ->
         CourseSchedule(i.courses, i.edges) = Takeable(i.courses, i.edges)
    [] i.task = "binary_matrix" ->
         IF \A x \in Cells(i.grid) : At(i.grid, x) = 1 THEN BinaryMatrix(i.grid) = Failed("rejected")
         ELSE BinaryMatrix(i.grid) = Answer([x \in Cells(i.grid) |-> NearestZero(i.grid, x)])
    [] i.task = "rotten_oranges" ->
         RottenOranges(i.grid) = Minutes({x \in Cells(i.grid) : At(i.grid, x) = 2},
                                         {x \in Cells(i.grid) : At(i.grid, x) = 1})
    [] i.task = "largest_island" -> LargestIsland(i.grid) = LargestConnected(i.grid)
    [] i.task = "futoshiki" ->
         LET found == Futoshiki(i.grid, i.constraints)
         IN  \/ found = Failed("error") /\ CluesClash(i.grid)
             \/ /\ found = Failed("rejected")
                /\ Cardinality(Solutions(i.grid, i.constraints)) # 1
             \/ found.status = "answer" /\ Solutions(i.grid, i.constraints) = {found.value}
    [] i.task = "ransom_note" -> RansomNote(i.note, i.magazine) = CutOut(i.note, i.magazine)
    [] i.task = "dice" ->
         FractionIs(Dice(i.dice, i.target),
                    Cardinality({t \in Throws(i.dice) : Sum(t) >= i.target}), Cardinality(Throws(i.dice)))
    [] i.task = "string_splitting" ->
         StringSplitting(i.machines, i.maximum) = Rewritten(i.machines, i.maximum)
    [] i.task = "path_star" ->
         LET path == PathStar(i.edges, i.start, i.goal)
         IN  IF path = Failed("error") THEN \A n \in 1..4 : Paths(i.edges, i.start, i.goal, n) = {}
             ELSE /\ path.value \in Paths(i.edges, i.start, i.goal, Len(path.value))
                  /\ \A n \in 1..(Len(path.value) - 1) : Paths(i.edges, i.start, i.goal, n) = {}
    [] i.task = "rotate_matrix" ->
         \A x \in Cells(i.grid) :
           At(RotateMatrix(i.grid, i.turns), Turned(x, Len(i.grid), i.turns)) = At(i.grid, x)
    [] i.task = "spiral_matrix" -> SpiralMatrix(i.grid) = Peeled(i.grid)
    [] i.task = "prime_factorization" ->
         LET f == Factors(i.number, 2)
         IN  Product(f) = i.number /\ \A k \in DOMAIN f : IsPrime(f[k]) /\ (k > 1 => f[k - 1] <= f[k])
    [] i.task = "base_conversion" ->
         LET to == BaseConversion(i.source, i.from, i.to)
         IN  \/ to = Failed("error") /\ \E d \in Range(i.source) : d >= i.from
             \/ /\ to.status = "answer" /\ Value(to.value, i.to) = Value(i.source, i.from)
                /\ Range(to.value) \subseteq 0..(i.to - 1) /\ (to.value = <<0>> \/ to.value[1] # 0)
    [] i.task = "count_primes" ->
         CountPrimes(i.start, i.end, i.limit) = Cardinality({n \in (i.start)..(i.end) : IsPrime(n)})
OraclesAreRight == input.of = "oracle" => OracleIsRight(input)
=============================================================================
