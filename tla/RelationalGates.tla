--------------------------- MODULE RelationalGates ---------------------------
(***************************************************************************)
(* How the relational study is frozen (evals/relational_gates.py and       *)
(* scripts/freeze_relational_study.py).  One set of development            *)
(* measurements gives the receipts of gates 1 to 4, each with its          *)
(* selection; gate 0 is the smoke test and gate 5 a power analysis of rows *)
(* made at what gates 3 and 4 selected.  A freeze is made of six receipts  *)
(* that lie in files, which come from whatever evaluations there were.     *)
(*                                                                         *)
(* A digest is the value it is a digest of.  Accuracies, recalls and       *)
(* bounds of intervals are percentages, loads are in units of 50 000       *)
(* entities, and tokens in units of a ten-thousandth of the 160m model's   *)
(* parameters.  Of the row evidence, run is all but the seed in which the  *)
(* two arms must agree.                                                    *)
(***************************************************************************)
EXTENDS Integers, FiniteSets, SequencesExt

VARIABLE input        \* one of the bounded inputs; input.of names the module it is for

CoreTasks == {"path_composition", "date_ordering", "balanced_equality"}
Arms      == {"dense", "split"}
OrderedMixtures        == <<"70/15/15", "65/15/20", "65/20/15">>
LoadCandidates         == {1, 4, 16}
ConfirmationCandidates == {16, 36, 64}
D160 == 10000
D360 == 21947
ProtectedSeeds == {1001, 1002, 1003, 1004, 1005}
PairedEvidence == {"seed", "run"}

None == "none"
First(set)   == CHOOSE k \in set : \A j \in set : k <= j
Largest(set) == CHOOSE k \in set : \A j \in set : k >= j

-----------------------------------------------------------------------------
(* Development inputs and what they are normalised to.                     *)

(* Of an arm's rows of a task: the pairs with both items right, and all.   *)
Computed(arm) ==
  [task \in CoreTasks |-> (100 * arm.rows[task].right) \div arm.rows[task].pairs]
RowsAreValid(arm) == arm.evidence.seed \notin ProtectedSeeds /\ arm.reported = Computed(arm)
MixtureArm(arm) == [accuracy |-> Computed(arm), evidence |-> arm.evidence,
                    recognition |-> arm.recognition]
ArmsArePaired(arms) == \A f \in PairedEvidence : arms["dense"].evidence[f] = arms["split"].evidence[f]
MixturesAreValid(mixtures) ==
  /\ [k \in DOMAIN mixtures |-> mixtures[k].mixture] = OrderedMixtures
  /\ \A k \in DOMAIN mixtures :
       ArmsArePaired(mixtures[k].arms) /\ \A a \in Arms : RowsAreValid(mixtures[k].arms[a])
NormalizedMixtures(mixtures) ==
  [k \in DOMAIN mixtures |->
     [mixtures[k] EXCEPT !.arms = [a \in Arms |-> MixtureArm(mixtures[k].arms[a])]]]

LoadsAreValid(loads) ==
  Len(loads) = Cardinality(LoadCandidates) /\ {loads[k].entities : k \in DOMAIN loads} = LoadCandidates
NormalizedLoads(loads) == SortSeq(loads, LAMBDA a, b : a.entities < b.entities)

InputsAreValid(development) ==
  MixturesAreValid(development.mixtures) /\ LoadsAreValid(development.loads)
NormalizedInputs(development) ==
  [development EXCEPT !.mixtures = NormalizedMixtures(@), !.loads = NormalizedLoads(@)]

-----------------------------------------------------------------------------
(* The rules of the gates.                                                 *)

Learnable(mixture) == \A a \in Arms, t \in CoreTasks : mixture.arms[a].accuracy[t] > 75

(* The lower end of the 95 % Wilson interval is above 0.30: the squared    *)
(* excess over 0.30, against 3.84146 times the variance at 0.30.           *)
Recognized(counts) ==
  LET excess == 10 * counts.successes - 3 * counts.total
  IN  excess > 0 /\ 1000 * excess * excess > 80671 * counts.total
MixturePasses(mixture) == Learnable(mixture) /\ Recognized(mixture.arms["dense"].recognition)
FirstWhere(mixtures, Passes(_)) ==
  LET indices == {k \in DOMAIN mixtures : Passes(mixtures[k])}
  IN  IF indices = {} THEN [mixture |-> None, index |-> 0]
      ELSE [mixture |-> mixtures[First(indices)].mixture, index |-> First(indices)]

IsEasy(load) == load.recall >= 80 /\ load.composite >= 75
IsHarder(load, low) ==
  /\ load.entities # low.entities /\ load.recall >= 40 /\ load.composite >= 40
  /\ load.recall <= low.recall - 10 \/ load.composite <= low.composite - 5
Distance(entities, high) ==
  LET d == entities * D160 - high * D360 IN IF d < 0 THEN -d ELSE d
NearestCandidate(high) ==
  First({e \in ConfirmationCandidates :
           \A f \in ConfirmationCandidates : Distance(e, high) <= Distance(f, high)})
NoLoads == [low |-> 0, high |-> 0, confirmation |-> 0]
SelectLoads(loads) ==
  LET Load(e) == CHOOSE load \in Range(loads) : load.entities = e
      easy    == {load.entities : load \in {l \in Range(loads) : IsEasy(l)}}
      low     == Load(First(easy))
      harder  == {load.entities : load \in {l \in Range(loads) : IsHarder(l, low)}}
  IN  IF easy = {} THEN NoLoads ELSE IF harder = {} THEN NoLoads
      ELSE [low |-> low.entities, high |-> Largest(harder),
            confirmation |-> NearestCandidate(Largest(harder))]

TenPasses(ten) ==
  /\ \A a \in Arms, t \in CoreTasks : ten.accuracy[a][t] > 75
  /\ ten.recognized /\ ten.guarded /\ ten.fluent
  /\ \A interval \in ten.changes : interval.low >= -1 /\ interval.high <= 1
SelectBudget(budget) ==
  IF ~budget.available THEN [tokens |-> 0] ELSE [tokens |-> IF TenPasses(budget.ten) THEN 10 ELSE 20]

-----------------------------------------------------------------------------
(* Receipts.  A receipt names the receipts it follows.                     *)

Receipt(gate, hashes, measurements, passed, selection, follows, development) ==
  [gate |-> gate, hashes |-> hashes, measurements |-> measurements, passed |-> passed,
   selection |-> selection, follows |-> follows, development |-> development]

GateSelection(gate, measurements) ==
  CASE gate = 1 -> FirstWhere(measurements, Learnable)
    [] gate = 2 -> FirstWhere(measurements, MixturePasses)
    [] gate = 3 -> SelectLoads(measurements)
    [] gate = 4 -> SelectBudget(measurements)
GatePasses(gate, selection) ==
  CASE gate \in {1, 2} -> selection.mixture # None
    [] gate = 3 -> selection.low # 0
    [] gate = 4 -> selection.tokens # 0
MeasuredFor(gate, normalized) ==
  IF gate \in {1, 2} THEN normalized.mixtures ELSE IF gate = 3 THEN normalized.loads ELSE normalized.budget

EvaluateDevelopmentGates(normalized) ==
  LET issued[gate \in 1..4] ==
        LET chosen == GateSelection(gate, MeasuredFor(gate, normalized))
        IN  Receipt(gate, normalized.hashes, MeasuredFor(gate, normalized), GatePasses(gate, chosen), chosen,
                    IF gate = 1 THEN << >> ELSE <<issued[gate - 1]>>, normalized)
  IN  issued

BuildGate0(smoke, hashes) == Receipt(0, hashes, smoke, smoke.passes, None, << >>, None)

(* What gate 5 asks of the rows that the power analysis was made on.       *)
TokensAreRight(binding) ==
  LET target == D160 * binding.tokens
      d      == binding.raw - target
  IN  binding.tokens \in {10, 20} /\ 5000 * (IF d < 0 THEN -d ELSE d) < target
BindingIsValid(binding, design) ==
  /\ TokensAreRight(binding)
  /\ DOMAIN binding.inputs = DOMAIN design.rows
  /\ \A l \in DOMAIN binding.inputs : binding.inputs[l].rows = design.rows[l]
  /\ \A k, l \in DOMAIN binding.inputs :
       k # l => binding.inputs[k].checkpoint # binding.inputs[l].checkpoint
HighManifests(gate3) ==
  {load.manifest : load \in {l \in Range(gate3.measurements) : l.entities = gate3.selection.high}}
DataOf(binding) == {binding.inputs[l].data : l \in DOMAIN binding.inputs}
UsesSelections(binding, gate3, gate4) ==
  binding.high = gate3.selection.high /\ binding.tokens = gate4.selection.tokens
Gate5IsBuilt(design, gate3, gate4, binding) ==
  /\ gate3.passed /\ gate4.passed /\ BindingIsValid(binding, design)
  /\ UsesSelections(binding, gate3, gate4) /\ DataOf(binding) = HighManifests(gate3)
BuildGate5(design, hashes, gate3, gate4, binding) ==
  Receipt(5, hashes, design.power, design.passed, [design |-> design, binding |-> binding],
          <<gate3, gate4>>, None)

(* Whatever a receipt says is derived again from what it measured.         *)
ValidateGateReceipt(r, gate) ==
  /\ r.gate = gate
  /\ CASE gate = 0 -> r.passed = r.measurements.passes
       [] gate \in 1..4 -> /\ r.selection = GateSelection(gate, r.measurements)
                           /\ r.passed = GatePasses(gate, r.selection)
       [] gate = 5 -> /\ BindingIsValid(r.selection.binding, r.selection.design)
                      /\ r.measurements = r.selection.design.power
                      /\ r.passed = r.selection.design.passed

-----------------------------------------------------------------------------
(* The freeze.                                                             *)

(* A chain that does not say which gate 4 the power analysis followed.     *)
LooseChain(receipts) ==
  /\ receipts[2].follows = <<receipts[1]>>
  /\ receipts[3].follows = <<receipts[2]>>
  /\ receipts[4].follows = <<receipts[3]>>
  /\ receipts[5].follows[1] = receipts[3]
GateChain(receipts) ==
  /\ receipts[2].follows = <<receipts[1]>>
  /\ receipts[3].follows = <<receipts[2]>>
  /\ receipts[4].follows = <<receipts[3]>>
  /\ receipts[5].follows = <<receipts[3], receipts[4]>>

ValidateRealBindings(provenance, receipts) ==
  /\ provenance.clean
  /\ \A gate \in 0..5 : ValidateGateReceipt(receipts[gate], gate) /\ receipts[gate].passed
  /\ Cardinality({receipts[gate].development : gate \in 1..4}) = 1
  /\ \A gate \in 0..5 : receipts[gate].hashes = provenance.hashes
  /\ GateChain(receipts)
  /\ UsesSelections(receipts[5].selection.binding, receipts[3], receipts[4])
  /\ Cardinality(HighManifests(receipts[3])) = 1
  /\ DataOf(receipts[5].selection.binding) = HighManifests(receipts[3])

SelectionsOf(receipts) ==
  [mixture |-> receipts[2].selection.mixture, low |-> receipts[3].selection.low,
   high |-> receipts[3].selection.high, confirmation |-> receipts[3].selection.confirmation,
   tokens |-> receipts[4].selection.tokens]
FinishManifest(status, provenance, receipts, selections) ==
  [status |-> status, launchable |-> status = "frozen", provenance |-> provenance,
   receipts |-> receipts, selections |-> selections]
SelectionsAreInGrid(s) ==
  /\ s.mixture \in Range(OrderedMixtures) /\ s.tokens \in {10, 20}
  /\ s.low \in LoadCandidates /\ s.high \in LoadCandidates /\ s.low # s.high
  /\ s.confirmation \in ConfirmationCandidates
ValidateFreezeManifest(freeze) ==
  /\ freeze.status \in {"fixture", "frozen"} /\ freeze.launchable = (freeze.status = "frozen")
  /\ SelectionsAreInGrid(freeze.selections)
  /\ IF freeze.status = "fixture" THEN freeze.receipts = << >>
     ELSE /\ ValidateRealBindings(freeze.provenance, freeze.receipts)
          /\ freeze.selections = SelectionsOf(freeze.receipts)
RequireLaunchable(freeze) == ValidateFreezeManifest(freeze) /\ freeze.launchable

-----------------------------------------------------------------------------
(* Properties                                                              *)

(* The selections of the frozen rules, said without an order of trying.    *)
FollowRules(s, normalized) ==
  LET Passing == {k \in 1..3 : MixturePasses(normalized.mixtures[k])}
      Of(e)   == CHOOSE load \in Range(normalized.loads) : load.entities = e
  IN  /\ \E k \in Passing : s.mixture = OrderedMixtures[k] /\ \A j \in Passing : k <= j
      /\ IsEasy(Of(s.low)) /\ \A e \in LoadCandidates : IsEasy(Of(e)) => s.low <= e
      /\ IsHarder(Of(s.high), Of(s.low))
      /\ \A e \in LoadCandidates : IsHarder(Of(e), Of(s.low)) => e <= s.high
      /\ \A e \in ConfirmationCandidates : Distance(s.confirmation, s.high) <= Distance(e, s.high)
      /\ normalized.budget.available /\ (s.tokens = 10 <=> TenPasses(normalized.budget.ten))

(* The receipts that lie there: of one evaluation or the other, gate 5     *)
(* made from either's gates 3 and 4, with one selection changed and every  *)
(* digest of that receipt made anew.                                       *)
Unedited == [gate |-> 0, selection |-> None]
Changed(receipts, edit) == [receipts EXCEPT ![edit.gate].selection = edit.selection]
Found(found, hashes, issued, five) ==
  [gate \in 0..5 |->
     IF gate = 0 THEN BuildGate0([passes |-> found.smoke], hashes)
     ELSE IF gate < 5 THEN issued[found.gates[gate]][gate]
     ELSE BuildGate5(five.design, hashes, issued[five.gates[1]][3], issued[five.gates[2]][4], five.binding)]
FiveCanBe(receipts, five) ==
  Gate5IsBuilt(five.design, receipts[5].follows[1], receipts[5].follows[2], five.binding)

(* A freeze that may be launched was made by one evaluation of the gates:  *)
(* its four development receipts and the two that gate 5 followed are what *)
(* one set of valid measurements gives, all passed, and its selections are *)
(* those of the frozen rules on these measurements (which do not say that  *)
(* the high load is the larger one).  And what one evaluation issues, with *)
(* a power analysis of rows at its own selections, is always accepted.     *)
(* (_validate_real_bindings, "predecessor binding does not match",         *)
(* validate_freeze_manifest; the order in which the loads were measured    *)
(* makes no difference.)                                                   *)
FreezeHolds(i, normalized, issued, receipts, selections) ==
  LET freeze == FinishManifest("frozen", i.provenance, receipts, selections)
      IsOf(n) == /\ \A gate \in 1..4 : receipts[gate] = issued[n][gate] /\ issued[n][gate].passed
                 /\ receipts[5].follows = <<issued[n][3], issued[n][4]>>
                 /\ UsesSelections(receipts[5].selection.binding, issued[n][3], issued[n][4])
      sound == \E n \in {1, 2} : IsOf(n) /\ FollowRules(selections, normalized[n])
      fit   == /\ i.provenance.clean /\ i.found.smoke /\ i.five.design.passed
               /\ \A n \in {1, 2} : normalized[n].hashes = i.provenance.hashes
  IN  /\ RequireLaunchable(freeze) => sound
      /\ sound /\ fit => RequireLaunchable(freeze)
FreezeOfFound(i, normalized, issued, found) ==
  FiveCanBe(found, i.five) =>
    LET receipts == Changed(found, i.edit)
    IN  FreezeHolds(i, normalized, issued, receipts, SelectionsOf(receipts))
FreezeOfIssued(i, normalized, issued) ==
  FreezeOfFound(i, normalized, issued, Found(i.found, i.provenance.hashes, issued, i.five))
FreezeIsOneEvaluation ==
  input.of = "freeze" /\ InputsAreValid(input.developments[1]) /\ InputsAreValid(input.developments[2]) =>
    LET one == NormalizedInputs(input.developments[1])
        two == NormalizedInputs(input.developments[2])
    IN  FreezeOfIssued(input, <<one, two>>, <<EvaluateDevelopmentGates(one), EvaluateDevelopmentGates(two)>>)
=============================================================================
