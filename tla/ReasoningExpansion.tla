-------------------------- MODULE ReasoningExpansion --------------------------
(***************************************************************************)
(* The compilation of the reasoning extension of the corpus and its        *)
(* verification (corpusgen/reasoning_expansion.py): quotas, the choice of  *)
(* tasks, the prefetched records, the exact filling of the last tokens,    *)
(* the record manifest and its replay; and the cleaning of the source tree *)
(* they are generated from.                                                *)
(*                                                                         *)
(* A task is its place in the recipe.  Its rows are a pattern that repeats:*)
(* 0 stands for a row the independent oracle rejects, another number for   *)
(* the row's length in tokens, its end of text included.  Digests,         *)
(* probes of determinism and the composite with the base corpus are left   *)
(* out.                                                                    *)
(***************************************************************************)
EXTENDS Integers, Sequences, FiniteSets, SequencesExt, FiniteSetsExt

VARIABLE input        \* one of the bounded inputs; input.of names the module it is for

Tasks(i) == DOMAIN i.weights
Total(f) == FoldLeft(LAMBDA a, b : a + b, 0, f)

(* _task_quotas: the whole parts, and one more to the largest remainders,  *)
(* the earlier task first.                                                 *)
Quotas(i) ==
  LET all  == Total(i.weights)
      ideal == [t \in Tasks(i) |-> i.extension * i.weights[t]]
      whole == [t \in Tasks(i) |-> ideal[t] \div all]
      rest  == i.extension - Total(whole)
      Before(t, u) == LET a == ideal[t] % all  b == ideal[u] % all IN a > b \/ (a = b /\ t < u)
  IN  [t \in Tasks(i) |->
         whole[t] + IF Cardinality({u \in Tasks(i) : Before(u, t)}) < rest THEN 1 ELSE 0]

(* load_expansion_recipe and the checks that open _compile_extension.      *)
RecipeIsSound(i) ==
  /\ i.extension = i.perUpdate * i.updates
  /\ Cardinality(Tasks(i)) >= 2
  /\ i.window \in (i.longest)..(i.extension - 1)
  /\ \A t \in Tasks(i) : Quotas(i)[t] > i.window

-----------------------------------------------------------------------------
(* ReasoningGymGenerator.generate.                                         *)
Generated(i, t, index) ==
  LET length == i.source[t][1 + (index % Len(i.source[t]))]
  IN  [task |-> t, index |-> index, length |-> length,
       rejection |-> IF length = 0 THEN "independent_oracle"
                     ELSE IF length > i.longest THEN "overlength" ELSE "none"]
EOT == <<0, 0, 0>>
Payload(record) ==
  [k \in 1..record.length |->
     IF k = record.length THEN EOT ELSE <<record.task, record.index, k>>]

(* The prefetching generators: the rows in hand, and one batch ahead of    *)
(* them being made.                                                        *)
Batch(i, t, start) == [k \in 1..i.batch |-> Generated(i, t, start + k - 1)]
Fetched(i, t, a, index) ==
  IF a.rows = << >> \/ index >= a.start + Len(a.rows)
  THEN [rows |-> Batch(i, t, a.future), start |-> index, future |-> index + i.batch]
  ELSE a
Unfetched == [rows |-> << >>, start |-> 0, future |-> 0]

(* _next_accepted.                                                         *)
RECURSIVE NextAccepted(_, _, _)
NextAccepted(i, s, t) ==
  LET ahead  == Fetched(i, t, s.ahead[t], s.next[t])
      record == ahead.rows[1 + s.next[t] - ahead.start]
      after  == [s EXCEPT !.ahead[t] = ahead, !.next[t] = @ + 1, !.examined[t] = @ + 1]
  IN  CASE record.rejection = "none"       -> [s |-> after, record |-> record]
        [] record.rejection = "overlength" ->
             NextAccepted(i, [after EXCEPT !.overlength[t] = @ + 1], t)
        [] OTHER -> NextAccepted(i, [after EXCEPT !.oracle[t] = @ + 1], t)

(* _TokenWriter.add.                                                       *)
Add(s, record) == [s EXCEPT !.stream = Append(@, record), !.tokens[record.task] = @ + record.length]

(* _choose_task: the task furthest behind its share of what is written.    *)
Behind(i, q, s, t) == q[t] * Total(s.tokens) - s.tokens[t] * i.extension
ChooseTask(i, q, s, active) ==
  CHOOSE t \in active : \A u \in active \ {t} :
    \/ Behind(i, q, s, t) > Behind(i, q, s, u)
    \/ Behind(i, q, s, t) = Behind(i, q, s, u) /\ t < u

(* The loop of _compile_extension while some task is far from its quota.   *)
RECURSIVE Fill(_, _, _)
Fill(i, q, s) ==
  LET active == {t \in Tasks(i) : q[t] - s.tokens[t] > i.window}
  IN  IF active = {} THEN s
      ELSE LET t == ChooseTask(i, q, s, active)
               d == NextAccepted(i, s, t)
           IN  IF d.record.length > q[t] - s.tokens[t] THEN [s EXCEPT !.status = "exceeds"]
               ELSE Fill(i, q, Add(d.s, d.record))

(* _ExactSubsetAccumulator.add: the new totals, each with the total and    *)
(* the candidate it was reached by; then the way back from the target.     *)
NewTotalsAgain(reachable, length, target) ==
  {n \in {r + length : r \in reachable} : n <= target}
NewTotals(reachable, length, target) ==
  {n \in {r + length : r \in reachable} : n <= target} \ reachable
Reach(x, length, target) ==
  LET new == NewTotals(DOMAIN x.by, length, target)
  IN  [x EXCEPT !.by = [n \in DOMAIN x.by \cup new |->
                          IF n \in new THEN Len(x.candidates) ELSE x.by[n]]]
RECURSIVE WayBack(_, _)
WayBack(x, total) ==
  IF total = 0 THEN << >>
  ELSE Append(WayBack(x, total - x.candidates[x.by[total]].length), x.by[total])

(* The candidates of a task's last tokens, until some of them are exactly  *)
(* those tokens.                                                           *)
RECURSIVE Search(_, _, _, _, _)
Search(i, t, target, x, left) ==
  IF target \in DOMAIN x.by \/ left = 0 THEN x
  ELSE LET d == NextAccepted(i, x.s, t)
           y == [x EXCEPT !.s = d.s]
       IN  Search(i, t, target,
                  IF d.record.length > target THEN y
                  ELSE Reach([y EXCEPT !.candidates = Append(@, d.record)], d.record.length, target),
                  left - 1)
FinishTask(i, q, s, t) ==
  LET target == q[t] - s.tokens[t]
      x == Search(i, t, target, [s |-> s, candidates |-> << >>, by |-> [n \in {0} |-> 0]], i.most)
  IN  IF s.status # "compiled" THEN s
      ELSE IF target \notin DOMAIN x.by
      THEN [x.s EXCEPT !.status = "unfilled", !.refused = <<target, x.candidates>>]
      ELSE FoldLeft(LAMBDA w, k : Add(w, x.candidates[k]), x.s, WayBack(x, target))

Started(i) ==
  LET zero == [t \in Tasks(i) |-> 0]
  IN  [status |-> "compiled", next |-> zero, examined |-> zero, oracle |-> zero,
       overlength |-> zero, tokens |-> zero, stream |-> << >>, refused |-> << >>,
       ahead |-> [t \in Tasks(i) |-> Unfetched]]
Filled(i) == Fill(i, Quotas(i), Started(i))
CompileExtension(i) ==
  FoldLeft(LAMBDA s, t : FinishTask(i, Quotas(i), s, t), Filled(i), [t \in Tasks(i) |-> t])

-----------------------------------------------------------------------------
(* What is published: the record manifest, the packed targets, and the     *)
(* accounts of the tasks.                                                  *)
Entry(record) == [task |-> record.task, length |-> record.length, index |-> record.index]
Published(s) ==
  [manifest |-> [k \in DOMAIN s.stream |-> Entry(s.stream[k])],
   packed   |-> FlattenSeq([k \in DOMAIN s.stream |-> Payload(s.stream[k])]),
   stats    |-> [t \in DOMAIN s.tokens |->
                   [records |-> Len(SelectSeq(s.stream, LAMBDA r : r.task = t)),
                    tokens |-> s.tokens[t], examined |-> s.examined[t], cursor |-> s.next[t]]]]

(* _ProcessRecordReplayer.replay: the requests of a task go to one worker, *)
(* and its records back to the places they were asked from.                *)
Replay(i, requests) ==
  LET Group(t)   == SelectSeq([p \in DOMAIN requests |-> p], LAMBDA p : requests[p].task = t)
      Records(t) == [k \in DOMAIN Group(t) |-> Generated(i, t, requests[Group(t)[k]].index)]
      Place(p)   == CHOOSE k \in DOMAIN Group(requests[p].task) : Group(requests[p].task)[k] = p
  IN  [p \in DOMAIN requests |-> Records(requests[p].task)[Place(p)]]

(* _verify_record_manifest: the entries in order, each with its payload;   *)
(* the replays, a queue at a time; then what is left, and the accounts.    *)
EntryFits(i, m, k) ==
  /\ m[k].task \in Tasks(i)
  /\ m[k].length \in 1..i.longest
  /\ m[k].index >= 0
  /\ \A j \in 1..(k - 1) : m[j].task = m[k].task => m[j].index < m[k].index
PayloadOf(m, packed, k) ==
  LET from == Total([j \in 1..(k - 1) |-> m[j].length])
  IN  SubSeq(packed, from + 1, Min({from + m[k].length, Len(packed)}))
EndsWhole(m, payload, k) == Len(payload) = m[k].length /\ Last(payload) = EOT
QueueReplays(i, m, packed, from) ==
  LET queue  == SubSeq(m, from, Min({from + i.queue - 1, Len(m)}))
      again  == Replay(i, queue)
  IN  \A k \in DOMAIN queue :
        /\ again[k].rejection = "none"
        /\ again[k].length = queue[k].length
        /\ Payload(again[k]) = PayloadOf(m, packed, from + k - 1)
Verified(i, p) ==
  LET m == p.manifest
      Of(t) == SelectSeq(m, LAMBDA e : e.task = t)
      Tokens(t) == Total([k \in DOMAIN Of(t) |-> Of(t)[k].length])
  IN  /\ \A k \in DOMAIN m : EntryFits(i, m, k) /\ EndsWhole(m, PayloadOf(m, p.packed, k), k)
      /\ Len(p.packed) = Total([k \in DOMAIN m |-> m[k].length])
      /\ \A k \in DOMAIN m : (k - 1) % i.queue = 0 => QueueReplays(i, m, p.packed, k)
      /\ Cardinality({n \in DOMAIN p.packed : p.packed[n] = EOT}) = Len(m)
      /\ \A t \in Tasks(i) :
           /\ p.stats[t].records = Len(Of(t))
           /\ p.stats[t].tokens = Tokens(t) /\ Tokens(t) = Quotas(i)[t]
           /\ p.stats[t].cursor = p.stats[t].examined
           /\ \A k \in DOMAIN Of(t) : Of(t)[k].index < p.stats[t].cursor

(* One thing changed in what was published.                                *)
Tampered(p) ==
  LET n == Len(p.manifest)
  IN  {[p EXCEPT !.manifest[k].index = @ + d] : k \in 1..n, d \in {-1, 1}}
        \cup {[p EXCEPT !.manifest[k].length = @ + d] : k \in 1..n, d \in {-1, 1}}
        \cup {[p EXCEPT !.packed[k] = EOT] : k \in {j \in DOMAIN p.packed : p.packed[j] # EOT}}
        \cup {[p EXCEPT !.packed = Front(@)], [p EXCEPT !.packed = Append(@, EOT)],
              [p EXCEPT !.manifest = Front(@)]}
        \cup {[p EXCEPT !.stats[t].cursor = @ - 1] : t \in DOMAIN p.stats}

-----------------------------------------------------------------------------
(* A path is the sequence of its names.                                    *)
IsBytecode(path) == "__pycache__" \in Range(path) /\ Last(path) = "x.pyc"
Parents(files) == UNION {{SubSeq(f, 1, k) : k \in 1..(Len(f) - 1)} : f \in files}
ByDepth(paths) == SetToSortSeq(paths, LAMBDA a, b : Len(a) > Len(b))
IsEmpty(tree, path) == \A x \in tree.files \cup tree.directories :
                         Len(x) > Len(path) => SubSeq(x, 1, Len(path)) # path

(* clean_reasoning_gym_bytecode: bytecode that was not received goes, the  *)
(* deepest directory first; then the tree must be the one received.        *)
TreeIsExact(i, tree) ==
  /\ tree.files = i.received /\ tree.directories = Parents(i.received)
  /\ i.intact
CleanBytecode(i) ==
  LET extraFiles == i.tree.files \ i.received
      extraDirectories == i.tree.directories \ Parents(i.received)
      Empty(s, path) ==
        IF s.status = "cleaned" /\ IsEmpty(s.tree, path)
        THEN [s EXCEPT !.tree.directories = @ \ {path}] ELSE [s EXCEPT !.status = "stuck"]
      swept == FoldLeft(Empty,
                 [status |-> "cleaned", tree |-> [i.tree EXCEPT !.files = @ \ extraFiles]],
                 ByDepth(extraDirectories))
  IN  IF \/ ~(i.received \subseteq i.tree.files /\ Parents(i.received) \subseteq i.tree.directories)
         \/ \E f \in extraFiles : ~IsBytecode(f)
         \/ \E d \in extraDirectories : Last(d) # "__pycache__"
      THEN [status |-> "refused", tree |-> i.tree]
      ELSE IF swept.status = "cleaned" /\ ~TreeIsExact(i, swept.tree)
      THEN [swept EXCEPT !.status = "differs"] ELSE swept
-----------------------------------------------------------------------------
(* Each task is given its share to within a token, and no token would be   *)
(* better given to another.                                                *)
QuotasAreFair(i, q) ==
  LET all == Total(i.weights)
      Off(t) == q[t] * all - i.extension * i.weights[t]
  IN  /\ Total(q) = i.extension
      /\ \A t \in Tasks(i) : Off(t) < all /\ -Off(t) < all
      /\ \A t, u \in Tasks(i) : Off(t) - Off(u) <= all
(* No task is ahead of its share by as much as a record.                   *)
Level(i, q, s) ==
  \A k \in DOMAIN s.stream : \A t \in Tasks(i) :
    LET part == SubSeq(s.stream, 1, k)
        own  == SelectSeq(part, LAMBDA r : r.task = t)
        Long(x) == Total([j \in DOMAIN x |-> x[j].length])
    IN  Long(own) * i.extension - q[t] * Long(part) < i.longest * i.extension
Exact(i, q, s) ==
  IF s.status = "compiled"
  THEN /\ s.tokens = q
       /\ Verified(i, Published(s))
       /\ \A p \in Tampered(Published(s)) : ~Verified(i, p)
  ELSE /\ s.status = "unfilled"
       /\ \A set \in SUBSET DOMAIN s.refused[2] :
            FoldSet(LAMBDA k, n : n + s.refused[2][k].length, 0, set) # s.refused[1]
(* Whatever the lengths and the rejections of the rows, the extension is   *)
(* exactly as long as asked and each task has its quota of it, no task     *)
(* runs ahead before the last tokens, the compilation gives up only when   *)
(* none of its candidates fit, and what it publishes, and nothing with a   *)
(* record or a token changed, stands its replay (_compile_extension,       *)
(* _verify_record_manifest).                                               *)
ExtensionIsExact ==
  input.of = "expansion" =>
    /\ QuotasAreFair(input, Quotas(input))
    /\ Level(input, Quotas(input), Filled(input))
    /\ Exact(input, Quotas(input), CompileExtension(input))

(* Cleaning the source tree removes bytecode alone, and all of it or       *)
(* nothing: it ends with the tree that was received, or refuses and leaves *)
(* the tree as it was (clean_reasoning_gym_bytecode, "Remove only          *)
(* unreceipted Python bytecode, then require an exact tree").              *)
SourceIsReceived ==
  input.of = "source" =>
    LET c == CleanBytecode(input)
    IN  /\ c.status = "refused" => c.tree = input.tree
        /\ c.status = "cleaned" => TreeIsExact(input, c.tree)
        /\ c.status = "differs" => ~input.intact
        /\ c.status # "stuck"
        /\ input.tree.files \ c.tree.files \subseteq {f \in input.tree.files : IsBytecode(f)}
=============================================================================
