---------------------------- MODULE RelationalMasks ----------------------------
(***************************************************************************)
(* The target weights of a relational corpus: the writer's sidecars and    *)
(* occurrence spool (corpusgen/relational_build.py CorpusWriter), the      *)
(* choice of the random masks and the independent verification of all of   *)
(* it (mask_ledger.py), against the inventory of payloads                  *)
(* (payload_inventory.py) as the plan counted them (schedule_plan.py).     *)
(*                                                                         *)
(* A record is a sequence of spans, each a role, a fact and its tokens;    *)
(* the text and field of a payload are its tokens.  Positions are counted  *)
(* from 0 as in the files, and a weight file is the sequence of its bits.  *)
(***************************************************************************)
EXTENDS Integers, Sequences, FiniteSets, SequencesExt, FiniteSetsExt

VARIABLE input        \* one of the bounded inputs; input.of names the module it is for

Conditions == {"dense", "split", "random", "selective"}
NoFact     == "none"
Span(role, fact, text) == [role |-> role, fact |-> fact, text |-> text]
Boundary   == Span("boundary", NoFact, <<0>>)
Protected  == {"relation_alias", "payload", "rule", "action", "provisional_answer",
               "final_answer"}

Length(record) == FoldLeft(LAMBDA n, s : n + Len(s.text), 0, record)
Starts(records) == [k \in DOMAIN records |->
                      FoldLeft(LAMBDA n, r : n + Length(r), 0, SubSeq(records, 1, k - 1))]

(* train.bin.                                                              *)
Words(record)  == FlattenSeq([k \in DOMAIN record |-> record[k].text])
Stream(records) == FlattenSeq([k \in DOMAIN records |-> Words(records[k])])

(* _key and relative_position_bin, with Bins for the code's ten.           *)
Bins == 2
BinOf(start, end, length) == Min({Bins - 1, ((start + end) * Bins) \div (2 * length)})

(* serialize_return and _return_segment_blocks: a row's payloads, each     *)
(* between two controls of its length; the texts around them are plain.    *)
Plain(n)   == Span("plain", NoFact, [k \in 1..n |-> 0])
Control(n) == Span("random_control", NoFact, [k \in 1..n |-> 0])
Returned(fact, payloads) ==
  FlattenSeq([k \in DOMAIN payloads |->
                <<Plain(1), Control(Len(payloads[k])), Span("payload", fact, payloads[k]),
                  Control(Len(payloads[k])), Plain(1)>>])

(* OccurrenceSpool.add_record: every span with its place in the stream.    *)
SpooledRecord(record, index, origin) ==
  LET At(k) == Length(SubSeq(record, 1, k - 1))
  IN  {[start |-> origin + At(k), end |-> origin + At(k + 1), record |-> index,
        role |-> record[k].role, fact |-> record[k].fact, text |-> record[k].text,
        key |-> <<Len(record[k].text), BinOf(At(k), At(k + 1), Length(record))>>] :
         k \in DOMAIN record}
Spool(records) ==
  UNION {SpooledRecord(records[k], k, Starts(records)[k]) : k \in DOMAIN records}

Bits(spans) == 0..(Max({s.end : s \in spans}) - 1)
OfRole(spans, role) == {s \in spans : s.role = role}
OfKey(spans, key)   == {s \in spans : s.key = key}
Keys(spans)         == {s.key : s \in spans}
InOrder(spans) == SetToSortSeq({<<s.start, s.end>> : s \in spans},
                               LAMBDA a, b : a[1] < b[1])

(* CorpusWriter.add, SchedulePlanSpool._require_local_supply: a record     *)
(* that does not hold its own random candidates is refused.                *)
KeyCount(spans, role, key) == Cardinality(OfKey(OfRole(spans, role), key))

LocallySupplied(record) ==
  LET spans == SpooledRecord(record, 1, 0)
  IN  \A key \in Keys(OfRole(spans, "payload")) :
        KeyCount(spans, "random_control", key) >= KeyCount(spans, "payload", key)

Balances(segments, padding) ==
  LocallySupplied(segments \o <<Plain(padding + 1)>>)

MaxPadding == 40
Balanced(segments) ==
  LET padding == Min({n \in 0..MaxPadding : Balances(segments, n)})
  IN  segments \o IF padding = 0 THEN << >> ELSE <<Plain(padding)>>

(* _encode_record: neighbours of one role and fact, and of one text when   *)
(* they are payloads, are one span; the end of text is the last.           *)
Encoded(segments) ==
  FoldLeft(LAMBDA spans, s :
             IF /\ spans # << >> /\ Last(spans).role = s.role /\ Last(spans).fact = s.fact
                /\ s.role = "payload" => Last(spans).text = s.text
             THEN Append(Front(spans), [s EXCEPT !.text = Last(spans).text \o @])
             ELSE Append(spans, s),
           << >>, segments)
  \o <<Boundary>>

(* finalize_random: of the candidates of each key, anywhere in the corpus, *)
(* as many as there are payloads, in the order of a hash.                  *)
Selections(spans) ==
  LET demand == OfRole(spans, "payload")
      Picks(key) == kSubset(Cardinality(OfKey(demand, key)),
                            OfKey(OfRole(spans, "random_control"), key))
  IN  {UNION {pick[key] : key \in Keys(demand)} :
         pick \in {f \in [Keys(demand) -> UNION {Picks(key) : key \in Keys(demand)}] :
                     \A key \in Keys(demand) : f[key] \in Picks(key)}}

(* should_mask and _ranges_for_condition.                                  *)
MaskedSpans(condition, spans, selected, external) ==
  CASE condition = "dense"     -> {}
    [] condition = "split"     -> OfRole(spans, "payload")
    [] condition = "random"    -> selected
    [] condition = "selective" -> {s \in OfRole(spans, "payload") : s.fact \in external}

Sidecar(condition, spans, selected, external) ==
  LET masked == UNION {s.start..(s.end - 1) :
                         s \in MaskedSpans(condition, spans, selected, external)}
  IN  [p \in Bits(spans) |-> IF p \in masked THEN 0 ELSE 1]

-----------------------------------------------------------------------------
(* _iter_weight_zero_runs, read bit by bit; a run still open at the end is *)
(* forgotten in the first.                                                 *)
Scanned(weights) ==
  FoldLeft(LAMBDA acc, p :
             IF weights[p] = 0
             THEN IF acc.open = -1 THEN [acc EXCEPT !.open = p] ELSE acc
             ELSE IF acc.open = -1 THEN acc
                  ELSE [open |-> -1, runs |-> Append(acc.runs, <<acc.open, p>>)],
           [open |-> -1, runs |-> << >>],
           [k \in 1..Cardinality(DOMAIN weights) |-> k - 1])

ZeroRunsClosed(weights) == Scanned(weights).runs

ZeroRuns(weights) ==
  LET scan == Scanned(weights)
  IN  IF scan.open = -1 THEN scan.runs
      ELSE Append(scan.runs, <<scan.open, Cardinality(DOMAIN weights)>>)

(* _iter_merged_ranges.                                                    *)
MergedRanges(ranges) ==
  FoldLeft(LAMBDA merged, r :
             IF merged # << >> /\ Last(merged)[2] = r[1]
             THEN Append(Front(merged), <<Last(merged)[1], r[2]>>)
             ELSE Append(merged, r),
           << >>, ranges)

(* _validate_tagged_payload_bytes: a spool without a payload is refused.   *)
HasPayload(spans) == OfRole(spans, "payload") # {}

Histogram(spans) == [key \in Keys(spans) |-> Cardinality(OfKey(spans, key))]
Mass(runs)       == FoldLeft(LAMBDA n, r : n + r[2] - r[1], 0, runs)

(* verify_weight_sidecars, of the weights.                                 *)
Verified(spans, sidecars, selected, external) ==
  LET Expected(c) == MergedRanges(InOrder(MaskedSpans(c, spans, selected, external)))
  IN  /\ \A c \in Conditions : ZeroRuns(sidecars[c]) = Expected(c)
      /\ Histogram(selected) = Histogram(OfRole(spans, "payload"))
      /\ Mass(ZeroRuns(sidecars["random"])) = Mass(ZeroRuns(sidecars["split"]))
      /\ \A s \in spans : s.role \in Protected =>
           \A p \in s.start..(s.end - 1) : sidecars["random"][p] = 1
      /\ HasPayload(spans)

Sidecars(spans, selected, external) ==
  [c \in Conditions |-> Sidecar(c, spans, selected, external)]

-----------------------------------------------------------------------------
(* The matcher of _iter_pattern_matches: its states are the prefixes of    *)
(* the patterns.                                                           *)
Trie(patterns) == {<< >>} \cup UNION {{SubSeq(p, 1, k) : k \in 0..Len(p)} : p \in patterns}

(* The state reached from a state on a token, along the failures.          *)
Step(trie, failures, state, token) ==
  LET go[s \in trie] == IF Append(s, token) \in trie THEN Append(s, token)
                        ELSE IF s = << >> THEN << >> ELSE go[failures[s]]
  IN  go[state]

Failures(trie) ==
  LET fails[s \in trie] ==
        IF Len(s) <= 1 THEN << >>
        ELSE LET go[t \in trie] == IF Append(t, Last(s)) \in trie THEN Append(t, Last(s))
                                   ELSE IF t = << >> THEN << >> ELSE go[fails[t]]
             IN  go[fails[Front(s)]]
  IN  fails

Outputs(patterns, failures) ==
  LET outputs[s \in DOMAIN failures] ==
        (IF s \in patterns THEN <<s>> ELSE << >>)
          \o (IF s = << >> THEN << >> ELSE outputs[failures[s]])
  IN  outputs

(* The matches in the order they are yielded; the matcher starts afresh at *)
(* each record of the schedule.                                            *)
Matches(records, patterns) ==
  LET trie     == Trie(patterns)
      failures == Failures(trie)
      outputs  == Outputs(patterns, failures)
      Found(k) ==
        FoldLeft(LAMBDA acc, token :
                   LET state == Step(trie, failures, acc.state, token)
                       end   == acc.end + 1
                   IN  [state |-> state, end |-> end,
                        found |-> acc.found
                          \o [n \in DOMAIN outputs[state] |->
                                [start |-> end - Len(outputs[state][n]), end |-> end,
                                 pattern |-> outputs[state][n]]]],
                 [state |-> << >>, end |-> Starts(records)[k], found |-> << >>],
                 Words(records[k])).found
  IN  FlattenSeq([k \in DOMAIN records |-> Found(k)])

(* _require_inventory_matches_tagged: the matches and the payload spans    *)
(* are walked together, each span given up once a match starts past it.    *)
TaggedInOrder(records) ==
  SetToSortSeq(OfRole(Spool(records), "payload"), LAMBDA s, t : s.start < t.start)

Walk(records, train) ==
  FoldLeft(LAMBDA acc, m :
             LET left == SelectSeq(acc.left, LAMBDA s : s.end > m.start)
             IN  [left |-> left,
                  ok |-> /\ acc.ok /\ left # << >>
                         /\ left[1].start <= m.start /\ m.end <= left[1].end
                         /\ \E e \in train : e.text = m.pattern /\ e.fact = left[1].fact],
           [left |-> TaggedInOrder(records), ok |-> TRUE],
           Matches(records, {e.text : e \in train})).ok

(* from_rows and bind_expected_occurrences: a train payload is expected as *)
(* often as the sealed plan has it.                                        *)
Occurrences(records, e) ==
  Cardinality({s \in OfRole(Spool(records), "payload") : s.fact = e.fact /\ s.text = e.text})

Bound(train, planned) == {[e EXCEPT !.expected = Occurrences(planned, e)] : e \in train}

(* The rest of verify_weight_sidecars: payloads there and known to the     *)
(* inventory, as many as it expects, none outside its tags, no protected   *)
(* one.                                                                    *)
InventoryAccepts(records, train, protected) ==
  /\ HasPayload(Spool(records))
  /\ \A s \in OfRole(Spool(records), "payload") :
       \E e \in train : e.text = s.text /\ e.fact = s.fact
  /\ \A e \in train : Occurrences(records, e) = e.expected
  /\ Walk(records, train)
  /\ Matches(records, protected) = << >>

-----------------------------------------------------------------------------
(* The plan takes every record that was balanced when it was rendered, and *)
(* whatever candidates the hash picks, the verification accepts the four   *)
(* sidecars the writer made exactly when the corpus has a payload, and     *)
(* refuses them with any one weight of any one of them changed             *)
(* (mask_ledger.py verify_weight_sidecars).                                *)
MasksAreVerified ==
  input.of = "masks" =>
    LET spans == Spool(input.records)
    IN  /\ \A k \in DOMAIN input.records : LocallySupplied(input.records[k])
        /\ \A selected \in Selections(spans) :
             LET sidecars == Sidecars(spans, selected, input.external)
             IN  /\ Verified(spans, sidecars, selected, input.external)
                      <=> \E s \in spans : s.role = "payload"
                 /\ \A c \in Conditions, p \in Bits(spans) :
                      ~ Verified(spans, [sidecars EXCEPT ![c][p] = 1 - @],
                                 selected, input.external)

(* Where a text is in a record, in the positions of the stream.            *)
OccursAt(records, text) ==
  UNION {{Starts(records)[k] + n : n \in {n \in 0..(Length(records[k]) - Len(text)) :
                                            SubSeq(Words(records[k]), n + 1, n + Len(text)) = text}} :
           k \in DOMAIN records}

(* No payload leaks: a corpus is accepted exactly when it has payloads,    *)
(* they are the planned ones, every place where a text of the inventory    *)
(* occurs in a record, nested and overlapping ones too, lies in a payload  *)
(* span of a fact that has the text, and no protected text occurs at all   *)
(* (mask_ledger.py, "untagged direct payload occurrence", "occurrence      *)
(* spool contains no payloads").                                           *)
LeaksAreFound ==
  input.of = "leaks" =>
    LET train == Bound(input.train, input.planned)
        payloads(records) == {<<s.fact, s.text>> : s \in OfRole(Spool(records), "payload")}
    IN  InventoryAccepts(input.records, train, input.protected) <=>
          /\ payloads(input.records) # {}
          /\ payloads(input.records) \subseteq {<<e.fact, e.text>> : e \in train}
          /\ \A e \in train : Occurrences(input.records, e) = Occurrences(input.planned, e)
          /\ \A e \in train : \A at \in OccursAt(input.records, e.text) :
               \E s \in OfRole(Spool(input.records), "payload") :
                 /\ s.start <= at /\ at + Len(e.text) <= s.end
                 /\ \E f \in train : f.text = e.text /\ f.fact = s.fact
          /\ \A text \in input.protected : OccursAt(input.records, text) = {}
=============================================================================
