----------------------- MODULE CorpusPublicationProofs -----------------------
(***************************************************************************)
(* Proofs about CorpusPublication for any builders, builds, artifacts and  *)
(* number of kills; about CorpusSchedule for any catalog, lanes and        *)
(* weights; and about PackedShards for any segments and batch shapes.      *)
(* The recursive definitions (sums, FlattenSeq) are reasoned about by      *)
(* induction on a set of numbers, which has a least element (WFMin).       *)
(***************************************************************************)
EXTENDS CorpusPublication, CorpusSchedule, PackedShards, FiniteSetTheorems, SequenceTheorems,
        WellFoundedInduction, TLAPS

(* The inductive invariant.  Whoever is between the flock and its return   *)
(* holds the flock, so that nobody else moves the stages or the output;    *)
(* there is a stage from the moment it was made or found, and it verifies  *)
(* without its mark when it is about to be renamed.                        *)
FlockHeld == \A b \in Builders : pc[b] \in Critical => holder = b

InHand(b) ==
  /\ pc[b] \in Staging => Stage(b) # Nothing
  /\ pc[b] = "rename" => Verifies(Stage(b), FALSE)
  /\ pc[b] \notin {"unmark", "rename"} => at[b] <= Len(Artifacts)

PublicationInv ==
  /\ TypeOK /\ FlockHeld /\ OkIsMine
  /\ \A b \in Builders : InHand(b)

-----------------------------------------------------------------------------
(* The artifacts are a sequence.                                           *)
LEMMA ArtifactsType == Artifacts \in Seq(STRING) /\ Len(Artifacts) \in Nat
  BY PublicationAssumption, ConcatProperties, LenProperties DEF Artifacts

(* What a builder writes next is one of the artifacts or the receipt       *)
(* (publication.py build_parallel_corpus).                                 *)
LEMMA NextFileType ==
  ASSUME NEW b \in Builders, at[b] \in Nat, at[b] <= Len(Artifacts)
  PROVE  NextFile(b) \in Needed \cup {"receipt"}
<1>1. Artifacts \in Seq(STRING) /\ Len(Artifacts) \in Nat
  BY ArtifactsType
<1>2. CASE at[b] < Len(Artifacts)
  <2>1. at[b] + 1 \in 1..Len(Artifacts)
    BY <1>1, <1>2
  <2> QED  BY <1>2, <2>1 DEF NextFile, Needed
<1>3. CASE ~(at[b] < Len(Artifacts))
  BY <1>3 DEF NextFile
<1> QED  BY <1>2, <1>3

(* A stage with one of its parts replaced.                                 *)
LEMMA StageWith ==
  ASSUME NEW s \in StageType, NEW F \in SUBSET (Needed \cup {"receipt"}),
         NEW m \in {"none", "temp", "there"}
  PROVE  /\ [s EXCEPT !.mark = m] \in StageType
         /\ [s EXCEPT !.temps = F] \in StageType
         /\ \A G \in SUBSET (Needed \cup {"receipt"}) :
              [s EXCEPT !.temps = F, !.files = G] \in StageType
  BY DEF StageType

(* The frame of a step of one builder.                                     *)
LEMMA Frame ==
  ASSUME TypeOK, NEW b \in Builders, NEW l \in Critical \cup {"idle", "look", "flock"},
         Goto(b, l)
  PROVE  /\ pc' \in [Builders -> Critical \cup {"idle", "look", "flock"}]
         /\ pc'[b] = l
         /\ \A c \in Builders \ {b} : pc'[c] = pc[c]
  BY DEF TypeOK, Goto

LEMMA BecomeType ==
  ASSUME TypeOK, NEW b \in Builders, NEW s \in StageType \cup {Nothing}, Become(b, s)
  PROVE  /\ stage' \in [Builds -> StageType \cup {Nothing}]
         /\ stage'[BuildOf[b]] = s
         /\ \A d \in Builds \ {BuildOf[b]} : stage'[d] = stage[d]
  BY PublicationAssumption DEF TypeOK, Become
LEMMA ReturnFrame ==
  ASSUME TypeOK, NEW b \in Builders,
         NEW how \in {"none", "ok", "conflict", "error", "orphaned", "killed"},
         Return(b, how)
  PROVE  /\ pc' \in [Builders -> Critical \cup {"idle", "look", "flock"}]
         /\ pc'[b] = "idle" /\ \A c \in Builders \ {b} : pc'[c] = pc[c]
         /\ at' \in [Builders -> 0..Len(Artifacts) + 1]
         /\ at'[b] = 0 /\ \A c \in Builders \ {b} : at'[c] = at[c]
         /\ last' \in [Builders -> {"none", "ok", "conflict", "error", "orphaned", "killed"}]
         /\ last'[b] = how /\ \A c \in Builders \ {b} : last'[c] = last[c]
         /\ holder' \in Builders \cup {Nothing}
         /\ holder # b => holder' = holder
<1>1. Artifacts \in Seq(STRING) /\ Len(Artifacts) \in Nat
  BY ArtifactsType
<1> QED  BY <1>1 DEF TypeOK, Return, Goto

(* Nobody else is between the flock and a return.                          *)
LEMMA Alone ==
  ASSUME PublicationInv, NEW b \in Builders, pc[b] \in Critical,
         NEW c \in Builders \ {b}
  PROVE  pc[c] \notin Critical
  BY DEF PublicationInv, FlockHeld

-----------------------------------------------------------------------------
LEMMA InitEstablishes == ASSUME Init PROVE PublicationInv
<1>1. Artifacts \in Seq(STRING) /\ Len(Artifacts) \in Nat
  BY ArtifactsType
<1> QED
  BY <1>1, PublicationAssumption
  DEF Init, PublicationInv, TypeOK, FlockHeld, OkIsMine, OutputIsWhole, InHand,
      Critical, Staging

(* A step that ends a call with stages and output as they were.            *)
LEMMA ReturnKeeps ==
  ASSUME PublicationInv, NEW b \in Builders,
         NEW how \in {"none", "ok", "conflict", "error", "orphaned", "killed"},
         Return(b, how),
         how = "ok" => output # Nothing /\ output.build = BuildOf[b],
         UNCHANGED <<output, stage>>,
         tomb' \in {"absent", "bare", "ready"}, retained' \in Nat,
         kills' \in 0..MaxKills
  PROVE  PublicationInv'
<1> USE DEF PublicationInv
<1>1. TypeOK'
  BY ReturnFrame DEF TypeOK
<1>2. FlockHeld'
  BY ReturnFrame DEF FlockHeld, Critical, Staging
<1>3. OkIsMine'
  BY ReturnFrame DEF OkIsMine, OutputIsWhole
<1>4. /\ pc'[b] = "idle" /\ at'[b] = 0
      /\ \A c \in Builders \ {b} : pc'[c] = pc[c] /\ at'[c] = at[c]
  BY ReturnFrame
<1>5. ASSUME NEW c \in Builders  PROVE InHand(c)'
  <2>1. CASE c = b
    <3>1. pc'[c] = "idle" /\ at'[c] <= Len(Artifacts)
      BY <1>4, <2>1, ArtifactsType
    <3> QED  BY <3>1 DEF InHand, Staging
  <2>2. CASE c # b
    BY <1>4, <2>2 DEF InHand, Stage, Verifies
  <2> QED  BY <2>1, <2>2
<1> QED  BY <1>1, <1>2, <1>3, <1>5

(* A step within a call that leaves stages and output as they were.  Only  *)
(* Flock makes a builder critical.                                         *)
LEMMA ContinueKeeps ==
  ASSUME PublicationInv, NEW b \in Builders,
         NEW l \in Critical \cup {"idle", "look", "flock"}, Continue(b, l),
         UNCHANGED <<output, stage>>,
         l \in Critical => pc[b] \in Critical,
         l \in Staging => Stage(b) # Nothing,
         l = "rename" => Verifies(Stage(b), FALSE),
         l \notin {"unmark", "rename"} => at[b] <= Len(Artifacts),
         tomb' \in {"absent", "bare", "ready"}, retained' \in Nat,
         kills' \in 0..MaxKills
  PROVE  PublicationInv'
<1> USE DEF PublicationInv
<1>1. Goto(b, l) /\ UNCHANGED <<at, last, holder>>
  BY DEF Continue
<1>2. /\ pc' \in [Builders -> Critical \cup {"idle", "look", "flock"}]
      /\ pc'[b] = l /\ \A c \in Builders \ {b} : pc'[c] = pc[c]
  BY <1>1, Frame
<1>3. TypeOK'
  BY <1>1, <1>2 DEF TypeOK
<1>4. FlockHeld'
  BY <1>1, <1>2 DEF FlockHeld
<1>5. OkIsMine'
  BY <1>1 DEF OkIsMine, OutputIsWhole
<1>6. ASSUME NEW c \in Builders  PROVE InHand(c)'
  BY <1>1, <1>2 DEF InHand, Stage, Verifies
<1> QED  BY <1>3, <1>4, <1>5, <1>6

(* A step that leaves s in place of the builder's own stage.               *)
LEMMA StageKeeps ==
  ASSUME PublicationInv, NEW b \in Builders, NEW l \in Critical, Goto(b, l),
         NEW s \in StageType, Become(b, s),
         UNCHANGED <<output, last, holder>>,
         pc[b] \in Critical,
         l = "rename" => Verifies(s, FALSE),
         at' \in [Builders -> 0..Len(Artifacts) + 1],
         \A c \in Builders \ {b} : at'[c] = at[c],
         l \notin {"unmark", "rename"} => at'[b] <= Len(Artifacts),
         tomb' \in {"absent", "bare", "ready"}, retained' \in Nat,
         kills' \in 0..MaxKills
  PROVE  PublicationInv'
<1> USE DEF PublicationInv
<1>1. /\ pc' \in [Builders -> Critical \cup {"idle", "look", "flock"}]
      /\ pc'[b] = l /\ \A c \in Builders \ {b} : pc'[c] = pc[c]
  BY Frame
<1>2. /\ stage' \in [Builds -> StageType \cup {Nothing}]
      /\ stage'[BuildOf[b]] = s
  BY BecomeType
<1>3. TypeOK'
  BY <1>1, <1>2 DEF TypeOK
<1>4. FlockHeld'
  BY <1>1 DEF FlockHeld
<1>5. OkIsMine'
  BY DEF OkIsMine, OutputIsWhole
<1>6. InHand(b)'
  BY <1>1, <1>2, NothingAssumption DEF InHand, Stage, Verifies
<1>7. ASSUME NEW c \in Builders, c # b  PROVE InHand(c)'
  BY <1>1, <1>7, Alone DEF InHand, Critical, Staging
<1> QED  BY <1>3, <1>4, <1>5, <1>6, <1>7

-----------------------------------------------------------------------------
LEMMA KillKeeps ==
  ASSUME PublicationInv, NEW b \in Builders, Kill(b)
  PROVE  PublicationInv'
<1>1. kills' \in 0..MaxKills
  BY PublicationAssumption DEF Kill, PublicationInv, TypeOK
<1> QED
  BY <1>1, ReturnKeeps DEF Kill, PublicationInv, TypeOK

LEMMA CallKeeps ==
  ASSUME PublicationInv, NEW b \in Builders, Call(b)
  PROVE  PublicationInv'
<1>1. at[b] <= Len(Artifacts)
  BY DEF Call, PublicationInv, InHand
<1> QED
  BY <1>1, ContinueKeeps DEF Call, Critical, Staging, PublicationInv, TypeOK

(* An answer from an output that is there.                                 *)
LEMMA AnswerKeeps ==
  ASSUME PublicationInv, NEW b \in Builders, output # Nothing, Answer(b),
         UNCHANGED <<output, stage, tomb, retained, kills>>
  PROVE  PublicationInv'
<1> DEFINE how == IF output.build = BuildOf[b] /\ Verifies(output, FALSE)
                  THEN "ok" ELSE "conflict"
<1>1. Return(b, how) /\ how \in {"ok", "conflict"}
  BY DEF Answer
<1>2. how = "ok" => output # Nothing /\ output.build = BuildOf[b]
  OBVIOUS
<1> HIDE DEF how
<1> QED
  BY <1>1, <1>2, ReturnKeeps DEF PublicationInv, TypeOK

LEMMA LookKeeps ==
  ASSUME PublicationInv, NEW b \in Builders, Look(b) \/ LookAgain(b)
  PROVE  PublicationInv'
<1>1. CASE output # Nothing /\ Answer(b)
             /\ UNCHANGED <<output, stage, tomb, retained, kills>>
  BY <1>1, AnswerKeeps
<1>2. CASE output = Nothing
  <2>1. at[b] <= Len(Artifacts)
    BY DEF Look, LookAgain, PublicationInv, InHand
  <2>2. UNCHANGED <<output, stage, tomb, retained, kills>>
    BY DEF Look, LookAgain
  <2>3. \/ Continue(b, "flock")
        \/ Continue(b, "tombs") /\ pc[b] \in Critical
    BY <1>2 DEF Look, LookAgain, Critical
  <2> QED
    BY <2>1, <2>2, <2>3, ContinueKeeps
    DEF Critical, Staging, PublicationInv, TypeOK
<1> QED  BY <1>1, <1>2 DEF Look, LookAgain

LEMMA FlockKeeps ==
  ASSUME PublicationInv, NEW b \in Builders, Flock(b)
  PROVE  PublicationInv'
<1> USE DEF PublicationInv
<1>1. /\ pc' \in [Builders -> Critical \cup {"idle", "look", "flock"}]
      /\ pc'[b] = "look again" /\ \A c \in Builders \ {b} : pc'[c] = pc[c]
  BY Frame DEF Flock, Critical
<1>2. TypeOK'
  BY <1>1 DEF Flock, TypeOK
<1>3. FlockHeld'
  BY <1>1, PublicationAssumption DEF Flock, FlockHeld
<1>4. OkIsMine'
  BY DEF Flock, OkIsMine, OutputIsWhole
<1>5. ASSUME NEW c \in Builders  PROVE InHand(c)'
  BY <1>1 DEF Flock, InHand, Staging, Stage, Verifies
<1> QED  BY <1>2, <1>3, <1>4, <1>5

LEMMA OpenTombsKeeps ==
  ASSUME PublicationInv, NEW b \in Builders, OpenTombs(b)
  PROVE  PublicationInv'
<1>1. CASE Return(b, "orphaned") /\ UNCHANGED tomb
  BY <1>1, ReturnKeeps DEF OpenTombs, PublicationInv, TypeOK
<1>2. CASE \E l \in {"fill tombs", "find stage"} : Continue(b, l)
  <2>1. PICK l \in {"fill tombs", "find stage"} : Continue(b, l)
    BY <1>2
  <2>2. at[b] <= Len(Artifacts) /\ pc[b] \in Critical
    BY DEF OpenTombs, PublicationInv, InHand, Critical
  <2>3. /\ tomb' \in {"absent", "bare", "ready"}
        /\ UNCHANGED <<output, stage, retained, kills>>
    BY DEF OpenTombs, PublicationInv, TypeOK
  <2> QED
    BY <2>1, <2>2, <2>3, ContinueKeeps DEF Critical, Staging, PublicationInv, TypeOK
<1> QED  BY <1>1, <1>2 DEF OpenTombs

LEMMA FindStageKeeps ==
  ASSUME PublicationInv, NEW b \in Builders, FindStage(b)
  PROVE  PublicationInv'
<1>1. /\ pc[b] \in Critical /\ at[b] <= Len(Artifacts) /\ TypeOK
      /\ UNCHANGED <<output, tomb, retained, kills>>
  BY DEF FindStage, PublicationInv, InHand, Critical
<1>2. CASE Return(b, "orphaned") /\ UNCHANGED stage
  BY <1>1, <1>2, ReturnKeeps DEF TypeOK
<1>3. CASE Return(b, "error") /\ UNCHANGED stage
  BY <1>1, <1>3, ReturnKeeps DEF TypeOK
<1>4. CASE Become(b, NewStage) /\ Continue(b, "mark")
  <2>1. NewStage \in StageType /\ "mark" \in Critical
    BY DEF NewStage, StageType, Critical, Staging
  <2>2. Goto(b, "mark") /\ UNCHANGED <<at, last, holder>>
    BY <1>4 DEF Continue
  <2> QED
    BY <1>1, <1>4, <2>1, <2>2, StageKeeps DEF TypeOK
<1>5. CASE /\ Stage(b) # Nothing /\ UNCHANGED stage
           /\ \/ Continue(b, "unmark") \/ Continue(b, "clean")
              \/ Continue(b, "rename") /\ Verifies(Stage(b), FALSE)
  BY <1>1, <1>5, ContinueKeeps DEF Critical, Staging, TypeOK
<1> QED  BY <1>2, <1>3, <1>4, <1>5 DEF FindStage, Verifies

(* What is known of a builder that has a stage in hand.                    *)
LEMMA InHandFacts ==
  ASSUME PublicationInv, NEW b \in Builders, pc[b] \in Staging
  PROVE  /\ Stage(b) \in StageType /\ pc[b] \in Critical /\ TypeOK
         /\ Stage(b).temps \in SUBSET (Needed \cup {"receipt"})
         /\ Stage(b).files \in SUBSET (Needed \cup {"receipt"})
<1>1. Stage(b) \in StageType
  BY PublicationAssumption DEF PublicationInv, InHand, Stage, TypeOK
<1> QED  BY <1>1 DEF StageType, Critical, PublicationInv

LEMMA MarkKeeps ==
  ASSUME PublicationInv, NEW b \in Builders, Mark(b)
  PROVE  PublicationInv'
<1>1. /\ pc[b] \in Staging /\ at[b] <= Len(Artifacts)
      /\ UNCHANGED <<output, tomb, retained, kills>>
  BY DEF Mark, PublicationInv, InHand, Staging
<1>2. PICK m \in {"temp", "there"}, l \in {"install mark", "clean"} :
        Become(b, [Stage(b) EXCEPT !.mark = m]) /\ Continue(b, l)
  BY DEF Mark
<1>3. [Stage(b) EXCEPT !.mark = m] \in StageType
  BY <1>1, InHandFacts, StageWith
<1> QED
  BY <1>1, <1>2, <1>3, InHandFacts, StageKeeps DEF Continue, Critical, Staging, TypeOK

LEMMA CleanKeeps ==
  ASSUME PublicationInv, NEW b \in Builders, Clean(b)
  PROVE  PublicationInv'
<1>1. /\ pc[b] \in Staging /\ at[b] <= Len(Artifacts) /\ Stage(b) # Nothing
      /\ UNCHANGED <<output, tomb, kills>>
  BY DEF Clean, PublicationInv, InHand, Staging
<1>2. /\ Stage(b) \in StageType /\ pc[b] \in Critical /\ TypeOK
      /\ Stage(b).temps \in SUBSET (Needed \cup {"receipt"})
  BY <1>1, InHandFacts
<1>3. CASE Continue(b, "write") /\ UNCHANGED <<stage, retained>>
  BY <1>1, <1>2, <1>3, ContinueKeeps DEF Critical, Staging, TypeOK
<1>4. CASE \E t \in Stage(b).temps :
             /\ Become(b, [Stage(b) EXCEPT !.temps = @ \ {t}])
             /\ retained' = retained + 1
             /\ Continue(b, "clean")
  <2>1. PICK t \in Stage(b).temps :
             /\ Become(b, [Stage(b) EXCEPT !.temps = @ \ {t}])
             /\ retained' = retained + 1
             /\ Continue(b, "clean")
    BY <1>4
  <2> DEFINE s == [Stage(b) EXCEPT !.temps = @ \ {t}]
  <2>2. s \in StageType
    BY <1>2, StageWith
  <2>3. Become(b, s) /\ "clean" \in Critical
    BY <2>1 DEF Critical, Staging
  <2>4. /\ Goto(b, "clean") /\ UNCHANGED <<at, last, holder>>
        /\ retained' \in Nat
    BY <1>2, <2>1 DEF Continue, TypeOK
  <2> HIDE DEF s
  <2> QED
    BY <1>1, <1>2, <2>2, <2>3, <2>4, StageKeeps DEF TypeOK
<1> QED  BY <1>3, <1>4 DEF Clean

(* What Write and Install do to the count of artifacts done.               *)
LEMMA AdvanceFrame ==
  ASSUME TypeOK, NEW b \in Builders, at[b] <= Len(Artifacts),
         at' = [at EXCEPT ![b] = @ + 1]
  PROVE  /\ at' \in [Builders -> 0..Len(Artifacts) + 1]
         /\ \A c \in Builders \ {b} : at'[c] = at[c]
         /\ Advance(b) \in {"write", "unmark"}
         /\ Advance(b) = "write" => at'[b] <= Len(Artifacts)
  BY ArtifactsType DEF TypeOK, Advance

LEMMA WriteKeeps ==
  ASSUME PublicationInv, NEW b \in Builders, Write(b)
  PROVE  PublicationInv'
<1> DEFINE f == NextFile(b)
<1>1. /\ pc[b] \in Staging /\ at[b] <= Len(Artifacts) /\ Stage(b) # Nothing
      /\ UNCHANGED <<output, tomb, retained, kills>>
  BY DEF Write, PublicationInv, InHand, Staging
<1>2. /\ Stage(b) \in StageType /\ pc[b] \in Critical /\ TypeOK
      /\ Stage(b).temps \in SUBSET (Needed \cup {"receipt"})
  BY <1>1, InHandFacts
<1>3. f \in Needed \cup {"receipt"}
  BY <1>1, <1>2, NextFileType, ArtifactsType DEF TypeOK
<1>4. CASE /\ Goto(b, Advance(b)) /\ at' = [at EXCEPT ![b] = @ + 1]
           /\ UNCHANGED <<stage, last, holder>>
  <2>1. /\ at' \in [Builders -> 0..Len(Artifacts) + 1]
        /\ \A c \in Builders \ {b} : at'[c] = at[c]
        /\ Advance(b) \in {"write", "unmark"}
        /\ Advance(b) = "write" => at'[b] <= Len(Artifacts)
    BY <1>1, <1>2, <1>4, AdvanceFrame
  <2>2. Become(b, Stage(b)) /\ Advance(b) \in Critical
    BY <1>2, <1>4, <2>1 DEF Become, Stage, Critical, Staging, TypeOK
  <2> QED
    BY <1>1, <1>2, <1>4, <2>1, <2>2, StageKeeps DEF TypeOK
<1>5. CASE Return(b, "error") /\ UNCHANGED stage
  BY <1>1, <1>2, <1>5, ReturnKeeps DEF TypeOK
<1>6. CASE /\ Become(b, [Stage(b) EXCEPT !.temps = @ \cup {f}])
           /\ Continue(b, "install")
  <2> DEFINE s == [Stage(b) EXCEPT !.temps = @ \cup {f}]
  <2>1. s \in StageType /\ Become(b, s) /\ "install" \in Critical
    BY <1>2, <1>3, <1>6, StageWith DEF Critical, Staging
  <2>2. Goto(b, "install") /\ UNCHANGED <<at, last, holder>>
    BY <1>6 DEF Continue
  <2> HIDE DEF s
  <2> QED
    BY <1>1, <1>2, <2>1, <2>2, StageKeeps DEF TypeOK
<1> QED  BY <1>4, <1>5, <1>6 DEF Write

LEMMA InstallKeeps ==
  ASSUME PublicationInv, NEW b \in Builders, Install(b)
  PROVE  PublicationInv'
<1> DEFINE f == NextFile(b)
           s == [Stage(b) EXCEPT !.temps = @ \ {f}, !.files = @ \cup {f}]
<1>1. /\ pc[b] \in Staging /\ at[b] <= Len(Artifacts)
      /\ UNCHANGED <<output, tomb, last, holder, kills>>
      /\ Goto(b, Advance(b)) /\ at' = [at EXCEPT ![b] = @ + 1] /\ Become(b, s)
  BY DEF Install, PublicationInv, InHand, Staging
<1>2. /\ Stage(b) \in StageType /\ pc[b] \in Critical /\ TypeOK
      /\ Stage(b).temps \in SUBSET (Needed \cup {"receipt"})
      /\ Stage(b).files \in SUBSET (Needed \cup {"receipt"})
  BY <1>1, InHandFacts
<1>3. f \in Needed \cup {"receipt"}
  BY <1>1, <1>2, NextFileType, ArtifactsType DEF TypeOK
<1>4. s \in StageType
  BY <1>2, <1>3, StageWith
<1>5. retained' \in Nat
  BY <1>2 DEF Install, TypeOK
<1>6. /\ at' \in [Builders -> 0..Len(Artifacts) + 1]
      /\ \A c \in Builders \ {b} : at'[c] = at[c]
      /\ Advance(b) \in {"write", "unmark"}
      /\ Advance(b) = "write" => at'[b] <= Len(Artifacts)
  BY <1>1, <1>2, AdvanceFrame
<1>7. Advance(b) \in Critical
  BY <1>6 DEF Critical, Staging
<1> HIDE DEF f, s
<1> QED
  BY <1>1, <1>2, <1>4, <1>5, <1>6, <1>7, StageKeeps DEF TypeOK

LEMMA UnmarkKeeps ==
  ASSUME PublicationInv, NEW b \in Builders, Unmark(b)
  PROVE  PublicationInv'
<1> DEFINE s == [Stage(b) EXCEPT !.mark = "none"]
<1>1. pc[b] \in Staging /\ UNCHANGED <<output, tomb, kills>>
  BY DEF Unmark, Staging
<1>2. Stage(b) \in StageType /\ pc[b] \in Critical /\ TypeOK
  BY <1>1, InHandFacts
<1>3. CASE /\ Verifies(Stage(b), TRUE) /\ Become(b, s)
           /\ retained' = retained + 1 /\ Continue(b, "rename")
  <2>1. s \in StageType /\ "rename" \in Critical
    BY <1>2, StageWith DEF Critical, Staging
  <2>2. Verifies(s, FALSE)
    BY <1>2, <1>3 DEF Verifies, StageType
  <2>3. Goto(b, "rename") /\ UNCHANGED <<at, last, holder>>
    BY <1>3 DEF Continue
  <2>4. Become(b, s) /\ retained' \in Nat
    BY <1>2, <1>3 DEF TypeOK
  <2> HIDE DEF s
  <2> QED
    BY <1>1, <1>2, <2>1, <2>2, <2>3, <2>4, StageKeeps DEF TypeOK
<1>4. CASE Return(b, "error") /\ UNCHANGED <<stage, retained>>
  BY <1>1, <1>2, <1>4, ReturnKeeps DEF TypeOK
<1> QED  BY <1>3, <1>4 DEF Unmark

(* A critical builder that returns leaves the flock free and nobody near   *)
(* the stages.                                                             *)
LEMMA CriticalReturn ==
  ASSUME PublicationInv, NEW b \in Builders, pc[b] \in Critical,
         NEW how \in {"none", "ok", "conflict", "error", "orphaned", "killed"},
         Return(b, how)
  PROVE  FlockHeld' /\ \A c \in Builders : InHand(c)'
<1> USE DEF PublicationInv
<1>1. /\ pc'[b] = "idle" /\ at'[b] = 0
      /\ \A c \in Builders \ {b} : pc'[c] = pc[c] /\ at'[c] = at[c]
  BY ReturnFrame
<1>2. ASSUME NEW c \in Builders
      PROVE  pc'[c] \notin Critical /\ at'[c] <= Len(Artifacts)
  <2>1. CASE c = b
    <3>1. "idle" \notin Critical
      BY DEF Critical, Staging
    <3>2. 0 <= Len(Artifacts)
      BY ArtifactsType
    <3> QED  BY <1>1, <2>1, <3>1, <3>2
  <2>2. CASE c # b
    <3>1. pc[c] \notin Critical
      BY <2>2, Alone
    <3>2. InHand(c) /\ pc[c] \notin {"unmark", "rename"}
      BY <3>1 DEF Critical, Staging
    <3>3. at[c] <= Len(Artifacts)
      BY <3>2 DEF InHand
    <3> QED  BY <1>1, <2>2, <3>1, <3>3
  <2> QED  BY <2>1, <2>2
<1> QED  BY <1>2 DEF FlockHeld, InHand, Critical, Staging

LEMMA PublishKeeps ==
  ASSUME PublicationInv, NEW b \in Builders, Publish(b)
  PROVE  PublicationInv'
<1> USE DEF PublicationInv
<1>1. /\ pc[b] \in Staging /\ Verifies(Stage(b), FALSE) /\ pc[b] \in Critical
      /\ UNCHANGED <<tomb, retained, kills>>
  BY DEF Publish, InHand, Staging, Critical
<1>2. /\ Stage(b) \in StageType /\ TypeOK
  BY <1>1, InHandFacts
<1>3. BuildOf[b] \in Builds
  BY PublicationAssumption
<1>4. CASE output = Nothing
  <2> DEFINE o == [build |-> BuildOf[b], files |-> Stage(b).files,
                   temps |-> Stage(b).temps, mark |-> Stage(b).mark]
  <2>1. output' = o /\ Become(b, Nothing) /\ Return(b, "ok")
    BY <1>4 DEF Publish
  <2>2. o \in OutputType /\ o # Nothing
    BY <1>2, <1>3, NothingAssumption DEF StageType, OutputType
  <2>3. /\ pc' \in [Builders -> Critical \cup {"idle", "look", "flock"}]
        /\ pc'[b] = "idle" /\ \A c \in Builders \ {b} : pc'[c] = pc[c]
        /\ at' \in [Builders -> 0..Len(Artifacts) + 1]
        /\ at'[b] = 0 /\ \A c \in Builders \ {b} : at'[c] = at[c]
        /\ last' \in [Builders -> {"none", "ok", "conflict", "error", "orphaned", "killed"}]
        /\ last'[b] = "ok" /\ \A c \in Builders \ {b} : last'[c] = last[c]
        /\ holder' \in Builders \cup {Nothing}
    BY <1>2, <2>1, ReturnFrame
  <2>4. stage' \in [Builds -> StageType \cup {Nothing}]
    BY <1>2, <2>1, BecomeType
  <2>5. TypeOK'
    BY <1>1, <1>2, <2>1, <2>2, <2>3, <2>4 DEF TypeOK
  <2>6. FlockHeld' /\ \A c \in Builders : InHand(c)'
    BY <1>1, <2>1, CriticalReturn
  <2>7. OutputIsWhole'
    BY <1>1, <2>1 DEF OutputIsWhole, Verifies
  <2>8. \A c \in Builders : last'[c] = "ok" => output'.build = BuildOf[c]
    BY <1>4, <2>1, <2>3 DEF OkIsMine
  <2>9. OkIsMine'
    BY <2>1, <2>2, <2>7, <2>8 DEF OkIsMine
  <2> QED  BY <2>5, <2>6, <2>9
<1>5. CASE output # Nothing
  <2> DEFINE s == [Stage(b) EXCEPT !.mark = "there"]
             how == IF output.build = BuildOf[b] /\ Verifies(output, FALSE)
                    THEN "ok" ELSE "conflict"
  <2>1. Become(b, s) /\ Return(b, how) /\ output' = output
    BY <1>5 DEF Publish, Answer
  <2>2. how \in {"ok", "conflict"} /\ (how = "ok" => output.build = BuildOf[b])
    OBVIOUS
  <2>3. s \in StageType
    BY <1>2, StageWith
  <2> HIDE DEF s, how
  <2>4. /\ pc' \in [Builders -> Critical \cup {"idle", "look", "flock"}]
        /\ pc'[b] = "idle" /\ \A c \in Builders \ {b} : pc'[c] = pc[c]
        /\ at' \in [Builders -> 0..Len(Artifacts) + 1]
        /\ at'[b] = 0 /\ \A c \in Builders \ {b} : at'[c] = at[c]
        /\ last' \in [Builders -> {"none", "ok", "conflict", "error", "orphaned", "killed"}]
        /\ last'[b] = how /\ \A c \in Builders \ {b} : last'[c] = last[c]
        /\ holder' \in Builders \cup {Nothing}
    BY <1>2, <2>1, <2>2, ReturnFrame
  <2>5. stage' \in [Builds -> StageType \cup {Nothing}]
    BY <1>2, <2>1, <2>3, BecomeType
  <2>6. TypeOK'
    BY <1>1, <1>2, <2>1, <2>4, <2>5 DEF TypeOK
  <2>7. FlockHeld' /\ \A c \in Builders : InHand(c)'
    BY <1>1, <2>1, <2>2, CriticalReturn
  <2>8. OkIsMine'
    BY <1>5, <2>1, <2>2, <2>4 DEF OkIsMine, OutputIsWhole
  <2> QED  BY <2>6, <2>7, <2>8
<1> QED  BY <1>4, <1>5

LEMMA NextKeeps == PublicationInv /\ [Next]_vars => PublicationInv'
<1> SUFFICES ASSUME PublicationInv, [Next]_vars  PROVE PublicationInv'
  OBVIOUS
<1>1. ASSUME NEW b \in Builders, Step(b) \/ Kill(b)  PROVE PublicationInv'
  BY <1>1, KillKeeps, CallKeeps, LookKeeps, FlockKeeps, OpenTombsKeeps,
     FindStageKeeps, MarkKeeps, CleanKeeps, WriteKeeps, InstallKeeps, UnmarkKeeps,
     PublishKeeps DEF Step
<1>2. ASSUME UNCHANGED vars  PROVE PublicationInv'
  BY <1>2 DEF vars, PublicationInv, TypeOK, FlockHeld, OkIsMine, OutputIsWhole,
              InHand, Stage, Verifies
<1> QED  BY <1>1, <1>2 DEF Next

-----------------------------------------------------------------------------
(* Every variable holds a value of its kind.                               *)
THEOREM TypeCorrect == Spec => []TypeOK
<1>1. PublicationInv => TypeOK
  BY DEF PublicationInv
<1> QED  BY <1>1, InitEstablishes, NextKeeps, PTL DEF Spec

(* Whoever was told ok can read a whole corpus of its own build, however   *)
(* many builders raced for the destination, with whatever builds, and      *)
(* wherever they were killed (publication.py build_parallel_corpus).       *)
THEOREM OkAlwaysMine == Spec => []OkIsMine
<1>1. PublicationInv => OkIsMine
  BY DEF PublicationInv
<1> QED  BY <1>1, InitEstablishes, NextKeeps, PTL DEF Spec

(* Only a rename onto an absent output publishes.                          *)
LEMMA StepMaps == PublicationInv /\ [Next]_vars => [Abstract!Next]_Published
<1> SUFFICES ASSUME PublicationInv, [Next]_vars
             PROVE  Abstract!Next \/ UNCHANGED Published
  OBVIOUS
<1>1. ASSUME NEW b \in Builders, Publish(b), output = Nothing
      PROVE  Abstract!Next
  <2> DEFINE o == [build |-> BuildOf[b], files |-> Stage(b).files,
                   temps |-> Stage(b).temps, mark |-> Stage(b).mark]
  <2>1. output' = o /\ BuildOf[b] \in Builds /\ Stage(b) \in StageType
    BY <1>1, InHandFacts, PublicationAssumption DEF Publish, Staging
  <2>2. o # Nothing
    BY <2>1, NothingAssumption DEF StageType, OutputType
  <2>3. Published = Nothing /\ Published' = BuildOf[b]
    BY <1>1, <2>1, <2>2 DEF Published
  <2> QED  BY <2>1, <2>3 DEF Abstract!Next, Abstract!Publish
<1>2. ASSUME NEW b \in Builders, Step(b) \/ Kill(b),
             ~(Publish(b) /\ output = Nothing)
      PROVE  UNCHANGED output
  BY <1>2 DEF Step, Kill, Call, Look, Flock, LookAgain, OpenTombs, FindStage,
              Mark, Clean, Write, Install, Unmark, Publish
<1>3. CASE UNCHANGED vars
  BY <1>3 DEF vars, Published
<1> QED  BY <1>1, <1>2, <1>3 DEF Next, Published

(* The output path receives one corpus and keeps it: only the rename sets  *)
(* it, and only when nothing is there (publication.py _publish_staging).   *)
THEOREM PublicationImplementsAbstract == Spec => ImplementsAbstractPublication
<1>1. Init => Abstract!Init
  BY DEF Init, Abstract!Init, Published
<1>2. Spec => []PublicationInv
  BY InitEstablishes, NextKeeps, PTL DEF Spec
<1> QED  BY <1>1, <1>2, StepMaps, PTL
         DEF Spec, ImplementsAbstractPublication, Abstract!Spec

-----------------------------------------------------------------------------
(* Induction over the natural numbers, for a set instead of a predicate:   *)
(* a number out of the set would have a least one.                         *)
LEMMA Induct ==
  ASSUME NEW S, 0 \in S, \A n \in Nat : n \in S => n + 1 \in S
  PROVE  Nat \subseteq S
<1> DEFINE T == Nat \ S
<1> SUFFICES ASSUME T # {} PROVE FALSE OBVIOUS
<1>1. PICK x \in T : \A y \in T : <<y, x>> \notin OpToRel(<, Nat)
  <2>1. T \subseteq Nat OBVIOUS
  <2>2. IsWellFoundedOn(OpToRel(<, Nat), Nat) BY NatLessThanWellFounded
  <2> HIDE DEF T
  <2> QED BY <2>1, <2>2, WFMin
<1>2. \A y \in T : ~ (y < x)
  BY <1>1 DEF OpToRel
<1>3. x \in Nat /\ x \notin S
  OBVIOUS
<1>4. x = 0 \/ (x - 1 \in Nat /\ x - 1 < x)
  BY <1>3
<1>5. x - 1 \in Nat => x - 1 \in S
  BY <1>2, <1>3
<1>6. x = (x - 1) + 1 BY <1>3
<1>7. x - 1 \in Nat => x \in S
  BY <1>5, <1>6
<1> QED BY <1>3, <1>4, <1>7

(* Induction over the subsets of a finite set: a subset is in as soon as   *)
(* it is with any one element taken away.                                  *)
LEMMA SetInduct ==
  ASSUME NEW S, IsFiniteSet(S), NEW P, {} \in P,
         \A s \in SUBSET S : s # {} /\ (\A y \in s : s \ {y} \in P) => s \in P
  PROVE  S \in P
<1> DEFINE Good == {n \in Nat : \A s \in SUBSET S : Cardinality(s) = n => s \in P}
<1>1. ASSUME NEW s \in SUBSET S
      PROVE  /\ Cardinality(s) \in Nat
             /\ (Cardinality(s) = 0) = (s = {})
             /\ \A y \in s : Cardinality(s \ {y}) = Cardinality(s) - 1
  BY FS_Subset, FS_CardinalityType, FS_EmptySet, FS_RemoveElement
<1>2. 0 \in Good BY <1>1
<1>3. ASSUME NEW n \in Nat, n \in Good PROVE n + 1 \in Good
  <2>1. ASSUME NEW s \in SUBSET S, Cardinality(s) = n + 1 PROVE s \in P
    <3>1. s # {}
      <4>1. Cardinality(s) # 0 BY <2>1
      <4> QED BY <4>1, <1>1
    <3>2. ASSUME NEW y \in s PROVE s \ {y} \in P
      <4>1. s \ {y} \in SUBSET S /\ Cardinality(s \ {y}) = n BY <1>1, <2>1
      <4> QED BY <4>1, <1>3
    <3> QED BY <3>1, <3>2
  <2> QED BY <2>1
<1>4. Nat \subseteq Good
  <2> HIDE DEF Good
  <2> QED BY <1>2, <1>3, Induct
<1> QED BY <1>4, <1>1

(* The recursion of the sums (FoldFunctionOnSet takes away one element,    *)
(* the same for the same set), as a table over the subsets.                *)
One(s) == CHOOSE x \in s : TRUE
IsSum(f, S, g) == g = [s \in SUBSET S |-> IF s = {} THEN 0 ELSE f[One(s)] + g[s \ {One(s)}]]
SumTo(f, S) == CHOOSE g : IsSum(f, S, g)

(* The element taken away is of the set.                                   *)
LEMMA OneIsIn == \A s : s # {} => One(s) \in s
BY DEF One

(* The table exists: there is one that is right up to each size.           *)
LEMMA SumExists ==
  ASSUME NEW S, IsFiniteSet(S), NEW f
  PROVE  \E g : IsSum(f, S, g)
<1> DEFINE TableStep(g, s) == IF s = {} THEN 0 ELSE f[One(s)] + g[s \ {One(s)}]
           Upto(n, g) == \A s \in SUBSET S : Cardinality(s) <= n => g[s] = TableStep(g, s)
           Good == {n \in Nat : \E g : g = [s \in SUBSET S |-> g[s]] /\ Upto(n, g)}
<1>1. ASSUME NEW s \in SUBSET S
      PROVE  /\ Cardinality(s) \in Nat /\ Cardinality(s) <= Cardinality(S)
             /\ Cardinality(s) <= 0 => s = {}
             /\ s # {} => s \ {One(s)} \in SUBSET S /\ Cardinality(s \ {One(s)}) = Cardinality(s) - 1
  BY OneIsIn, FS_Subset, FS_CardinalityType, FS_EmptySet, FS_RemoveElement
<1>2. 0 \in Good
  <2> DEFINE g == [s \in SUBSET S |-> 0]
  <2>1. Upto(0, g) BY <1>1
  <2> QED BY <2>1
<1>3. ASSUME NEW n \in Nat, n \in Good PROVE n + 1 \in Good
  <2>1. PICK g : Upto(n, g) BY <1>3
  <2> DEFINE h == [s \in SUBSET S |-> TableStep(g, s)]
  <2>2. \A s \in SUBSET S : Cardinality(s) <= n => h[s] = g[s] BY <2>1
  <2>3. ASSUME NEW s \in SUBSET S, Cardinality(s) <= n + 1
        PROVE  h[s] = TableStep(h, s)
    <3>1. CASE s = {} BY <3>1
    <3>2. CASE s # {}
      <4>1. s \ {One(s)} \in SUBSET S /\ Cardinality(s \ {One(s)}) <= n BY <1>1, <2>3, <3>2
      <4>2. h[s \ {One(s)}] = g[s \ {One(s)}] BY <4>1, <2>2
      <4>3. h[s] = f[One(s)] + g[s \ {One(s)}] BY <3>2
      <4> HIDE DEF h
      <4> QED BY <3>2, <4>2, <4>3
    <3> QED BY <3>1, <3>2
  <2>4. Upto(n + 1, h)
    <3> HIDE DEF h, TableStep
    <3> QED BY <2>3
  <2>5. h = [s \in SUBSET S |-> h[s]] OBVIOUS
  <2> HIDE DEF h, Upto
  <2> QED BY <2>4, <2>5
<1>4. Nat \subseteq Good
  <2> HIDE DEF Good
  <2> QED BY <1>2, <1>3, Induct
<1>5. Cardinality(S) \in Good BY <1>4, FS_CardinalityType
<1>6. PICK g : g = [s \in SUBSET S |-> g[s]] /\ Upto(Cardinality(S), g) BY <1>5
<1>7. \A s \in SUBSET S : g[s] = TableStep(g, s) BY <1>1, <1>6
<1>8. IsSum(f, S, g)
  <2>1. [s \in SUBSET S |-> g[s]] = [s \in SUBSET S |-> TableStep(g, s)] BY <1>7
  <2> QED BY <1>6, <2>1 DEF IsSum
<1> QED BY <1>8

(* What the table of a sum holds.                                          *)
LEMMA SumTable ==
  ASSUME NEW S, IsFiniteSet(S), NEW f, NEW s \in SUBSET S
  PROVE  SumTo(f, S)[s] = IF s = {} THEN 0 ELSE f[One(s)] + SumTo(f, S)[s \ {One(s)}]
<1>1. IsSum(f, S, SumTo(f, S)) BY SumExists DEF SumTo
<1> DEFINE g == SumTo(f, S)
<1>2. g = [t \in SUBSET S |-> IF t = {} THEN 0 ELSE f[One(t)] + g[t \ {One(t)}]]
  BY <1>1 DEF IsSum
<1> HIDE DEF g
<1>3. g[s] = IF s = {} THEN 0 ELSE f[One(s)] + g[s \ {One(s)}]
  BY <1>2
<1> QED BY <1>3 DEF g

(* The entry of a subset is the same in the table of any larger set.       *)
LEMMA SumUnique ==
  ASSUME NEW S, IsFiniteSet(S), NEW T, T \subseteq S, NEW f
  PROVE  SumTo(f, S)[T] = SumTo(f, T)[T]
<1> DEFINE P == {s \in SUBSET T : SumTo(f, S)[s] = SumTo(f, T)[s]}
<1>1. IsFiniteSet(T) BY FS_Subset
<1>2. {} \in P BY <1>1, SumTable
<1>3. ASSUME NEW s \in SUBSET T, s # {}, \A y \in s : s \ {y} \in P PROVE s \in P
  <2>1. s \ {One(s)} \in P BY <1>3, OneIsIn
  <2>2. SumTo(f, S)[s] = f[One(s)] + SumTo(f, S)[s \ {One(s)}]
    BY <1>3, SumTable
  <2>3. SumTo(f, T)[s] = f[One(s)] + SumTo(f, T)[s \ {One(s)}]
    BY <1>1, <1>3, SumTable
  <2> QED BY <2>1, <2>2, <2>3
<1>4. T \in P
  <2> HIDE DEF P
  <2> QED BY <1>1, <1>2, <1>3, SetInduct
<1> QED BY <1>4

(* A sum over a set is an entry of its own table.                          *)
LEMMA SumIs == \A f, S : SumFunctionOnSet(f, S) = SumTo(f, S)[S]
BY DEF SumFunctionOnSet, FoldFunctionOnSet, MapThenFoldSet, SumTo, IsSum, One

(* The sum over nothing is zero.                                           *)
LEMMA SumOfNone == \A f : SumFunctionOnSet(f, {}) = 0
BY SumIs, SumTable, FS_EmptySet

(* A sum is one of its terms and the sum of the others.                    *)
LEMMA SumOfSome ==
  ASSUME NEW S, IsFiniteSet(S), S # {}, NEW f
  PROVE  SumFunctionOnSet(f, S) = f[One(S)] + SumFunctionOnSet(f, S \ {One(S)})
<1>1. SumTo(f, S)[S] = f[One(S)] + SumTo(f, S)[S \ {One(S)}]
  BY SumTable
<1>2. SumTo(f, S)[S \ {One(S)}] = SumTo(f, S \ {One(S)})[S \ {One(S)}]
  BY SumUnique
<1> QED BY <1>1, <1>2, SumIs

(* A sum of natural numbers is one.                                        *)
LEMMA SumType ==
  ASSUME NEW f, NEW S, IsFiniteSet(S), \A x \in S : f[x] \in Nat
  PROVE  SumFunctionOnSet(f, S) \in Nat
<1> DEFINE P == {s \in SUBSET S : SumFunctionOnSet(f, s) \in Nat}
<1>1. {} \in P BY SumOfNone
<1>2. ASSUME NEW s \in SUBSET S, s # {}, \A y \in s : s \ {y} \in P PROVE s \in P
  <2>1. One(s) \in s /\ IsFiniteSet(s) BY <1>2, OneIsIn, FS_Subset
  <2>2. SumFunctionOnSet(f, s) = f[One(s)] + SumFunctionOnSet(f, s \ {One(s)})
    BY <1>2, <2>1, SumOfSome
  <2>3. f[One(s)] \in Nat /\ SumFunctionOnSet(f, s \ {One(s)}) \in Nat BY <1>2, <2>1
  <2> QED BY <2>2, <2>3
<1> HIDE DEF P
<1>3. S \in P BY <1>1, <1>2, SetInduct
<1> QED BY <1>3 DEF P

(* A sum depends on its terms alone.                                       *)
LEMMA SumCongruent ==
  ASSUME NEW f, NEW g, NEW S, IsFiniteSet(S), \A x \in S : f[x] = g[x]
  PROVE  SumFunctionOnSet(f, S) = SumFunctionOnSet(g, S)
<1> DEFINE P == {s \in SUBSET S : SumFunctionOnSet(f, s) = SumFunctionOnSet(g, s)}
<1>1. {} \in P BY SumOfNone
<1>2. ASSUME NEW s \in SUBSET S, s # {}, \A y \in s : s \ {y} \in P PROVE s \in P
  <2>1. One(s) \in s /\ IsFiniteSet(s) BY <1>2, OneIsIn, FS_Subset
  <2>2. /\ SumFunctionOnSet(f, s) = f[One(s)] + SumFunctionOnSet(f, s \ {One(s)})
        /\ SumFunctionOnSet(g, s) = g[One(s)] + SumFunctionOnSet(g, s \ {One(s)})
    BY <1>2, <2>1, SumOfSome
  <2>3. f[One(s)] = g[One(s)] BY <2>1
  <2>4. SumFunctionOnSet(f, s \ {One(s)}) = SumFunctionOnSet(g, s \ {One(s)}) BY <1>2, <2>1
  <2> QED BY <2>2, <2>3, <2>4
<1> HIDE DEF P
<1>3. S \in P BY <1>1, <1>2, SetInduct
<1> QED BY <1>3 DEF P

(* Any term can be taken out of a sum, whichever the fold takes first.     *)
LEMMA SumWith ==
  ASSUME NEW f, NEW S, IsFiniteSet(S), NEW x \in S, \A y \in S : f[y] \in Nat
  PROVE  SumFunctionOnSet(f, S) = SumFunctionOnSet(f, S \ {x}) + f[x]
<1> DEFINE Holds(s) == \A y \in s : SumFunctionOnSet(f, s) = SumFunctionOnSet(f, s \ {y}) + f[y]
           P == {s \in SUBSET S : Holds(s)}
<1>1. {} \in P OBVIOUS
<1>2. ASSUME NEW s \in SUBSET S, s # {}, \A y \in s : s \ {y} \in P PROVE s \in P
  <2> DEFINE z == One(s)
  <2>1. z \in s /\ IsFiniteSet(s) BY <1>2, OneIsIn, FS_Subset
  <2>2. SumFunctionOnSet(f, s) = f[z] + SumFunctionOnSet(f, s \ {z})
    BY <1>2, <2>1, SumOfSome
  <2> HIDE DEF z
  <2>3. ASSUME NEW y \in s PROVE SumFunctionOnSet(f, s) = SumFunctionOnSet(f, s \ {y}) + f[y]
    <3>0. IsFiniteSet(s \ {z}) /\ IsFiniteSet(s \ {y}) /\ IsFiniteSet((s \ {y}) \ {z})
      BY <2>1, FS_Subset
    <3>1. SumFunctionOnSet(f, s \ {z}) \in Nat BY <3>0, SumType
    <3>2. SumFunctionOnSet(f, s \ {y}) \in Nat BY <3>0, SumType
    <3>3. SumFunctionOnSet(f, (s \ {y}) \ {z}) \in Nat BY <3>0, SumType
    <3>4. f[y] \in Nat /\ f[z] \in Nat BY <2>1
    <3>5. CASE y = z BY <2>2, <3>1, <3>4, <3>5
    <3>6. CASE y # z
      <4>1. y \in s \ {z} /\ z \in s \ {y} BY <2>1, <3>6
      <4>2. Holds(s \ {z}) /\ Holds(s \ {y}) BY <1>2, <2>1
      <4>3. SumFunctionOnSet(f, s \ {z}) = SumFunctionOnSet(f, (s \ {z}) \ {y}) + f[y]
        BY <4>1, <4>2
      <4>4. SumFunctionOnSet(f, s \ {y}) = SumFunctionOnSet(f, (s \ {y}) \ {z}) + f[z]
        BY <4>1, <4>2
      <4>5. (s \ {z}) \ {y} = (s \ {y}) \ {z} OBVIOUS
      <4>6. SumFunctionOnSet(f, (s \ {z}) \ {y}) = SumFunctionOnSet(f, (s \ {y}) \ {z}) BY <4>5
      <4> QED BY <2>2, <3>1, <3>2, <3>3, <3>4, <4>3, <4>4, <4>6
    <3> QED BY <3>5, <3>6
  <2> QED BY <2>3
<1>3. S \in P
  <2> HIDE DEF P
  <2> QED BY <1>1, <1>2, SetInduct
<1> QED BY <1>3

-----------------------------------------------------------------------------
(* Quotient and remainder.                                                 *)
LEMMA DivMod ==
  ASSUME NEW a \in Nat, NEW d \in Nat \ {0}
  PROVE  /\ a \div d \in Nat /\ a % d \in Nat /\ a % d < d
         /\ a = d * (a \div d) + (a % d)
OBVIOUS

(* The quotient and the remainder are the only such numbers.               *)
LEMMA DivModUnique ==
  ASSUME NEW d \in Nat \ {0}, NEW q \in Nat, NEW r \in Nat, r < d
  PROVE  (d * q + r) \div d = q /\ (d * q + r) % d = r
OBVIOUS

(* A product grows with its first factor.                                  *)
LEMMA ProductUp ==
  ASSUME NEW a \in Nat, NEW b \in Nat, NEW c \in Nat, a <= b
  PROVE  a * c <= b * c /\ a * c \in Nat /\ c * a = a * c
OBVIOUS

(* A smaller product by the same number has the smaller factor.            *)
LEMMA ProductDown ==
  ASSUME NEW a \in Nat, NEW b \in Nat, NEW c \in Nat, a * c < b * c
  PROVE  a < b
OBVIOUS

(* Two sequences, one after the other.                                     *)
LEMMA Joined ==
  ASSUME NEW n \in Nat, NEW k \in Nat, NEW s, NEW t,
         s = [i \in 1..n |-> s[i]], t = [i \in 1..k |-> t[i]]
  PROVE  s \o t = [i \in 1..(n + k) |-> IF i <= n THEN s[i] ELSE t[i - n]]
<1> DEFINE T == {s[i] : i \in 1..n} \cup {t[i] : i \in 1..k}
<1>1. [i \in 1..n |-> s[i]] \in [1..n -> T] /\ [i \in 1..k |-> t[i]] \in [1..k -> T]
  OBVIOUS
<1>0. s \in [1..n -> T] /\ t \in [1..k -> T]
  <2> HIDE DEF T
  <2> QED BY <1>1, Zenon
<1>2. s \in Seq(T) /\ t \in Seq(T) /\ Len(s) = n /\ Len(t) = k
  <2> HIDE DEF T
  <2> QED BY <1>0, LenProperties, SeqDef
<1> HIDE DEF T
<1>3. /\ s \o t \in Seq(T) /\ Len(s \o t) = n + k
      /\ \A i \in 1..(n + k) : (s \o t)[i] = IF i <= n THEN s[i] ELSE t[i - n]
  BY <1>2, ConcatProperties
<1>4. s \o t = [i \in 1..(n + k) |-> (s \o t)[i]]
  BY <1>3, LenProperties
<1> QED BY <1>3, <1>4

(* The length of a sequence given by its elements.                         *)
LEMMA LenIs ==
  ASSUME NEW n \in Nat, NEW s, s = [i \in 1..n |-> s[i]]
  PROVE  Len(s) = n /\ DOMAIN s = 1..n
<1> DEFINE T == {s[i] : i \in 1..n}
<1>1. s \in [1..n -> T] OBVIOUS
<1> HIDE DEF T
<1> QED BY <1>1, LenProperties, SeqDef

(* The recursion of FlattenSeq, as a table over the sequences joined so    *)
(* far.                                                                    *)
IsFlat(s, f) == f = [i \in 1..Len(s) |-> IF i = 1 THEN s[i] ELSE f[i-1] \o s[i]]
Flat(s) == CHOOSE f : IsFlat(s, f)

(* FlattenSeq is the last entry of the table.                              *)
LEMMA FlattenIs == \A s : FlattenSeq(s) = IF Len(s) = 0 THEN s ELSE Flat(s)[Len(s)]
BY DEF FlattenSeq, Flat, IsFlat

(* The table exists: there is one that is right up to each index.          *)
LEMMA FlatExists ==
  ASSUME NEW s, Len(s) \in Nat
  PROVE  \E f : IsFlat(s, f)
<1> DEFINE N == 1..Len(s)
           TableStep(f, i) == IF i = 1 THEN s[i] ELSE f[i - 1] \o s[i]
           Upto(n, f) == \A i \in N : i <= n => f[i] = TableStep(f, i)
           Good == {n \in Nat : \E f : f = [i \in N |-> f[i]] /\ Upto(n, f)}
<1>1. 0 \in Good
  <2> DEFINE f == [i \in N |-> 0]
  <2>1. Upto(0, f) OBVIOUS
  <2>2. f = [i \in N |-> f[i]] OBVIOUS
  <2> HIDE DEF f, Upto
  <2> QED BY <2>1, <2>2
<1>2. ASSUME NEW n \in Nat, n \in Good PROVE n + 1 \in Good
  <2>1. PICK f : Upto(n, f) BY <1>2
  <2> DEFINE h == [i \in N |-> TableStep(f, i)]
  <2>2. \A i \in N : i <= n => h[i] = f[i] BY <2>1
  <2>3. ASSUME NEW i \in N, i <= n + 1 PROVE h[i] = TableStep(h, i)
    <3>1. CASE i = 1 BY <3>1
    <3>2. CASE i # 1
      <4>1. i - 1 \in N /\ i - 1 <= n BY <2>3, <3>2
      <4>2. h[i - 1] = f[i - 1] BY <4>1, <2>2
      <4>3. h[i] = f[i - 1] \o s[i] BY <3>2
      <4> HIDE DEF h
      <4> QED BY <3>2, <4>2, <4>3
    <3> QED BY <3>1, <3>2
  <2>4. Upto(n + 1, h)
    <3> HIDE DEF h, TableStep
    <3> QED BY <2>3
  <2>5. h = [i \in N |-> h[i]] OBVIOUS
  <2> HIDE DEF h, Upto
  <2> QED BY <2>4, <2>5
<1>3. Nat \subseteq Good
  <2> HIDE DEF Good
  <2> QED BY <1>1, <1>2, Induct
<1>4. PICK f : f = [i \in N |-> f[i]] /\ Upto(Len(s), f) BY <1>3
<1>5. \A i \in N : f[i] = TableStep(f, i)
  <2> HIDE DEF TableStep
  <2>1. \A i \in N : i <= Len(s) OBVIOUS
  <2>2. \A i \in N : i <= Len(s) => f[i] = TableStep(f, i) BY <1>4
  <2> QED BY <2>1, <2>2
<1>6. [i \in N |-> f[i]] = [i \in N |-> TableStep(f, i)] BY <1>5
<1> QED BY <1>4, <1>6 DEF IsFlat

(* What the table of FlattenSeq holds.                                     *)
LEMMA FlatStep ==
  ASSUME NEW s, Len(s) \in Nat, NEW i \in 1..Len(s)
  PROVE  Flat(s)[i] = IF i = 1 THEN s[1] ELSE Flat(s)[i - 1] \o s[i]
<1> DEFINE f == Flat(s)
<1>1. IsFlat(s, f) BY FlatExists DEF Flat
<1>2. f = [j \in 1..Len(s) |-> IF j = 1 THEN s[j] ELSE f[j-1] \o s[j]] BY <1>1 DEF IsFlat
<1> HIDE DEF f
<1>3. f[i] = IF i = 1 THEN s[i] ELSE f[i-1] \o s[i] BY <1>2
<1> QED BY <1>3 DEF f

(* Sequences that are a content cut at some places.                        *)
IsCut(n, s, start, c) ==
  /\ n \in Nat \ {0} /\ Len(s) = n /\ start \in [0..n -> Nat] /\ start[0] = 0
  /\ \A i \in 1..n : /\ start[i - 1] <= start[i]
                     /\ s[i] = [j \in 1..(start[i] - start[i - 1]) |-> s[i][j]]
                     /\ \A j \in 1..(start[i] - start[i - 1]) : s[i][j] = c[start[i - 1] + j]

(* Joining the pieces of a content gives the content.                      *)
LEMMA FlattenContent ==
  ASSUME NEW n, NEW s, NEW start, NEW c, IsCut(n, s, start, c)
  PROVE  /\ FlattenSeq(s) = [p \in 1..start[n] |-> FlattenSeq(s)[p]]
         /\ \A p \in 1..start[n] : FlattenSeq(s)[p] = c[p]
<1> USE DEF IsCut
<1> DEFINE Upto(i) == Flat(s)[i] = [p \in 1..start[i] |-> c[p]]
           Good == {i \in Nat : i \in 1..n => Upto(i)}
<1>1. 0 \in Good OBVIOUS
<1>2. ASSUME NEW i \in Nat, i \in Good PROVE i + 1 \in Good
  <2>1. SUFFICES ASSUME i + 1 \in 1..n PROVE Upto(i + 1) OBVIOUS
  <2>2. Flat(s)[i + 1] = IF i + 1 = 1 THEN s[1] ELSE Flat(s)[(i + 1) - 1] \o s[i + 1]
    BY <2>1, FlatStep
  <2> DEFINE a == start[i]
             b == start[i + 1]
  <2>3. i \in 0..n /\ (i + 1) - 1 = i BY <2>1
  <2>7. start[(i + 1) - 1] = a BY <2>3
  <2>8. /\ start[(i + 1) - 1] <= b
        /\ s[i + 1] = [j \in 1..(b - start[(i + 1) - 1]) |-> s[i + 1][j]]
        /\ \A j \in 1..(b - start[(i + 1) - 1]) : s[i + 1][j] = c[start[(i + 1) - 1] + j]
    BY <2>1
  <2>4. a \in Nat /\ b \in Nat /\ a <= b /\ s[i + 1] = [j \in 1..(b - a) |-> c[a + j]]
    BY <2>1, <2>3, <2>7, <2>8
  <2>5. CASE i = 0
    <3>1. a = 0 /\ Flat(s)[i + 1] = s[i + 1] BY <2>2, <2>5
    <3>2. s[i + 1] = [j \in 1..b |-> c[j]] BY <2>4, <3>1
    <3> QED BY <3>1, <3>2
  <2>6. CASE i # 0
    <3>1. Flat(s)[i + 1] = Flat(s)[i] \o s[i + 1]
      <4>1. i + 1 # 1 BY <2>6
      <4>2. Flat(s)[i + 1] = Flat(s)[(i + 1) - 1] \o s[i + 1] BY <2>2, <4>1
      <4> QED BY <2>3, <4>2
    <3>2. Flat(s)[i] = [p \in 1..a |-> c[p]] BY <1>2, <2>1, <2>6
    <3> DEFINE u == Flat(s)[i]
               v == s[i + 1]
    <3>3. u = [p \in 1..a |-> u[p]] /\ v = [p \in 1..(b - a) |-> v[p]] BY <3>2, <2>4
    <3>4. b - a \in Nat /\ a + (b - a) = b BY <2>4
    <3>5. /\ \A p \in 1..a : u[p] = c[p]
          /\ \A p \in 1..(b - a) : v[p] = c[a + p]
      BY <3>2, <2>4
    <3> HIDE DEF u, v, a, b
    <3>6. u \o v = [p \in 1..b |-> IF p <= a THEN u[p] ELSE v[p - a]]
      BY <2>4, <3>3, <3>4, Joined
    <3>7. ASSUME NEW p \in 1..b PROVE (IF p <= a THEN u[p] ELSE v[p - a]) = c[p]
      <4>1. CASE p <= a BY <2>4, <3>5, <4>1
      <4>2. CASE ~(p <= a)
        <5>1. p - a \in 1..(b - a) /\ a + (p - a) = p BY <2>4, <4>2
        <5> QED BY <3>5, <4>2, <5>1
      <4> QED BY <4>1, <4>2
    <3>8. u \o v = [p \in 1..b |-> c[p]] BY <3>6, <3>7
    <3> QED BY <3>1, <3>8 DEF u, v, b
  <2> QED BY <2>5, <2>6
<1>3. Nat \subseteq Good
  <2> HIDE DEF Good
  <2> QED BY <1>1, <1>2, Induct
<1>4. Upto(n) BY <1>3
<1>5. FlattenSeq(s) = [p \in 1..start[n] |-> c[p]] BY <1>4, FlattenIs
<1> QED BY <1>5

(* Joining sequences of known lengths gives one of the summed length.      *)
LEMMA FlattenLength ==
  ASSUME NEW n \in Nat \ {0}, NEW s, Len(s) = n, NEW start \in [0..n -> Nat], start[0] = 0,
         \A i \in 1..n : /\ start[i - 1] <= start[i]
                         /\ s[i] = [j \in 1..(start[i] - start[i - 1]) |-> s[i][j]]
  PROVE  FlattenSeq(s) = [p \in 1..start[n] |-> FlattenSeq(s)[p]]
<1> DEFINE Upto(i) == Flat(s)[i] = [p \in 1..start[i] |-> Flat(s)[i][p]]
           Good == {i \in Nat : i \in 1..n => Upto(i)}
<1>1. 0 \in Good OBVIOUS
<1>2. ASSUME NEW i \in Nat, i \in Good PROVE i + 1 \in Good
  <2>1. SUFFICES ASSUME i + 1 \in 1..n PROVE Upto(i + 1) OBVIOUS
  <2>2. Flat(s)[i + 1] = IF i + 1 = 1 THEN s[1] ELSE Flat(s)[(i + 1) - 1] \o s[i + 1]
    BY <2>1, FlatStep
  <2> DEFINE a == start[i]
             b == start[i + 1]
             u == Flat(s)[i]
             v == s[i + 1]
             w == Flat(s)[i + 1]
  <2>3. i \in 0..n /\ (i + 1) - 1 = i BY <2>1
  <2>4. a \in Nat /\ b \in Nat /\ a <= b /\ v = [j \in 1..(b - a) |-> v[j]]
    BY <2>1, <2>3
  <2>5. CASE i = 0
    <3>1. a = 0 /\ w = v BY <2>2, <2>5
    <3> HIDE DEF a, b, v, w
    <3>2. b - a = b BY <2>4, <3>1
    <3>3. w = [j \in 1..b |-> w[j]] BY <2>4, <3>1, <3>2
    <3> QED BY <3>3 DEF w, b
  <2>6. CASE i # 0
    <3>1. w = u \o v
      <4>1. i + 1 # 1 BY <2>6
      <4>2. Flat(s)[i + 1] = Flat(s)[(i + 1) - 1] \o s[i + 1] BY <2>2, <4>1
      <4> QED BY <2>3, <4>2
    <3>2. u = [p \in 1..a |-> u[p]] BY <1>2, <2>1, <2>6
    <3>4. b - a \in Nat /\ a + (b - a) = b BY <2>4
    <3> HIDE DEF u, v, a, b, w
    <3>6. u \o v = [p \in 1..b |-> IF p <= a THEN u[p] ELSE v[p - a]]
      BY <2>4, <3>2, <3>4, Joined
    <3>8. w = [p \in 1..b |-> w[p]] BY <3>1, <3>6
    <3> QED BY <3>8 DEF w, b
  <2> QED BY <2>5, <2>6
<1>3. Nat \subseteq Good
  <2> HIDE DEF Good
  <2> QED BY <1>1, <1>2, Induct
<1>4. Upto(n) BY <1>3
<1> QED BY <1>4, FlattenIs

-----------------------------------------------------------------------------
(* What is given with a catalog: at least one record, none of them empty,  *)
(* each in a lane that has a weight.                                       *)
CatalogOK ==
  /\ \E n \in Nat \ {0} : lane \in [1..n -> LaneIds] /\ length \in [1..n -> 1..MaxRecordLength]
  /\ weight \in [LaneIds -> Nat]
  /\ tasks \in Nat \ {0} /\ update \in Nat \ {0} /\ shards \in Nat \ {0}

(* The schedule draws records of the catalog, none twice; what it has      *)
(* drawn is as long as the records drawn.                                  *)
OrderInv ==
  /\ order \in Seq(Records)
  /\ \A j, k \in DOMAIN order : order[j] = order[k] => j = k
  /\ SumFunctionOnSet(Lengths, DOMAIN order) = SumFunctionOnSet(length, Range(order))

(* What belongs at a place of the padded stream.                           *)
Padded(p) == IF p <= Total THEN Stream[p] ELSE Pad

(* How much of a shard is written, and what is in it.                      *)
Filled(k) == IF k < sink THEN TokenEnd(k) - TokenStart(k)
             ELSE IF k = sink THEN position - TokenStart(k) ELSE 0

Content(k) == [i \in 1..Filled(k) |-> Padded(TokenStart(k) + i)]

(* While the shards are written: those before the open one are full, the   *)
(* open one holds what lies between its start and token_position, and the  *)
(* others are empty.                                                       *)
PackInv ==
  /\ Range(order) = Records
  /\ sink \in Nat /\ sink < ShardCount /\ position \in Nat
  /\ TokenStart(sink) <= position /\ position <= TokenEnd(sink)
  /\ packed = [k \in 1..ShardCount |-> Content(k - 1)]
  /\ phase = "packed" => sink + 1 = ShardCount /\ position = TokenEnd(sink)

(* The inductive invariant.  LanesAreLevel is inductive as it stands.      *)
ScheduleInv ==
  /\ CatalogOK /\ OrderInv /\ LanesAreLevel
  /\ phase \in {"reduce", "schedule", "pack", "packed"}
  /\ done \subseteq 0..(tasks - 1)
  /\ phase = "reduce" => order = << >>
  /\ IF phase \in {"pack", "packed"} THEN PackInv ELSE position = 0 /\ sink = 0

(* The least of some natural numbers.                                      *)
LEMMA LeastOf ==
  ASSUME NEW S, S \subseteq Nat, S # {}
  PROVE  Min(S) \in S /\ \A y \in S : Min(S) <= y
<1>1. PICK x \in S : \A y \in S : <<y, x>> \notin OpToRel(<, Nat)
  BY NatLessThanWellFounded, WFMin
<1>2. \A y \in S : ~ (y < x)
  BY <1>1 DEF OpToRel
<1>3. \A y \in S : x <= y BY <1>2
<1> QED BY <1>3 DEF Min

(* The facts about a catalog that the steps need.                          *)
LEMMA CatalogFacts ==
  ASSUME CatalogOK
  PROVE  /\ Records \subseteq Nat \ {0} /\ IsFiniteSet(Records) /\ Records # {}
         /\ \A r \in Records : /\ length[r] \in Nat \ {0} /\ length[r] <= MaxRecordLength
                               /\ lane[r] \in LaneIds
         /\ MaxRecordLength \in Nat
         /\ Total \in Nat \ {0} /\ TotalWeight \in Nat
         /\ LaneIds \subseteq Nat /\ IsFiniteSet(LaneIds)
         /\ \A l \in LaneIds : weight[l] \in Nat
         /\ tasks \in Nat \ {0} /\ update \in Nat \ {0} /\ shards \in Nat \ {0}
<1>1. PICK n \in Nat \ {0} : lane \in [1..n -> LaneIds] /\ length \in [1..n -> 1..MaxRecordLength]
  BY DEF CatalogOK
<1>2. Records = 1..n /\ MaxRecordLength \in Nat /\ Len(Lanes) \in Nat
  BY <1>1, ScheduleAssumption, LenProperties DEF Records
<1>3. Records \subseteq Nat \ {0} /\ IsFiniteSet(Records) /\ Records # {}
  <2>1. 1 \in 1..n BY <1>1
  <2>2. IsFiniteSet(1..n) BY FS_Interval
  <2>3. 1..n \subseteq Nat \ {0} BY <1>1
  <2>4. Records = 1..n BY <1>2
  <2> QED BY <2>1, <2>2, <2>3, <2>4
<1>4. \A r \in Records : /\ length[r] \in Nat \ {0} /\ length[r] <= MaxRecordLength
                         /\ lane[r] \in LaneIds
  BY <1>1, <1>2
<1>5. LaneIds \subseteq Nat /\ IsFiniteSet(LaneIds)
  BY <1>2, FS_Interval DEF LaneIds
<1>6. \A l \in LaneIds : weight[l] \in Nat BY DEF CatalogOK
<1>7. TotalWeight \in Nat
  <2>1. DOMAIN weight = LaneIds BY DEF CatalogOK
  <2> QED BY <1>5, <1>6, <2>1, SumType DEF TotalWeight, SumFunction
<1>8. Total \in Nat \ {0}
  <2>1. 1 \in Records /\ DOMAIN length = Records BY <1>1, <1>2
  <2>2. Total = SumFunctionOnSet(length, Records) BY <2>1 DEF Total, SumFunction
  <2>3. Total = SumFunctionOnSet(length, Records \ {1}) + length[1]
    BY <1>3, <1>4, <2>1, <2>2, SumWith
  <2>4. SumFunctionOnSet(length, Records \ {1}) \in Nat
    <3>1. IsFiniteSet(Records \ {1}) BY <1>3, FS_Subset
    <3> QED BY <1>4, <3>1, SumType
  <2> QED BY <1>4, <2>1, <2>3, <2>4
<1> QED BY <1>2, <1>3, <1>4, <1>5, <1>6, <1>7, <1>8 DEF CatalogOK

(* The updates hold every token, the last of them at least one, and there  *)
(* are not fewer updates than shards (schedule.py                          *)
(* assign_update_aligned_shards).                                          *)
LEMMA UpdateFacts ==
  ASSUME CatalogOK
  PROVE  /\ Updates \in Nat \ {0}
         /\ Updates * update \in Nat
         /\ Total <= Updates * update /\ Updates * update - Total < update
         /\ ShardCount \in Nat \ {0} /\ ShardCount <= Updates
<1>1. Total \in Nat \ {0} /\ update \in Nat \ {0} /\ shards \in Nat \ {0} BY CatalogFacts
<1> DEFINE d == Total + update - 1
           r == d % update
           U == Updates
<1>2. d \in Nat /\ U = d \div update BY <1>1 DEF Updates
<1>3. U \in Nat /\ r \in Nat /\ r < update /\ d = update * U + r BY <1>1, <1>2, DivMod
<1>4. d = Total + update - 1 OBVIOUS
<1> HIDE DEF d, r, U
<1>5. U # 0
  <2>1. update * 0 = 0 BY <1>1
  <2> QED BY <1>1, <1>3, <1>4, <2>1
<1>6. U * update = update * U /\ U * update \in Nat BY <1>1, <1>3
<1>7. Total <= U * update /\ U * update - Total < update
  BY <1>1, <1>3, <1>4, <1>6
<1> QED BY <1>1, <1>3, <1>5, <1>6, <1>7 DEF ShardCount, U

(* The shards lie next to each other, from 0 to the end of the updates,    *)
(* each of one of two lengths that differ by an update (schedule.py        *)
(* assign_update_aligned_shards).                                          *)
LEMMA ShardFacts ==
  ASSUME CatalogOK
  PROVE  /\ TokenStart(0) = 0 /\ TokenEnd(ShardCount - 1) = Updates * update
         /\ \A k \in Nat : TokenStart(k) \in Nat /\ TokenEnd(k) = TokenStart(k + 1)
         /\ \A k \in Nat : TokenEnd(k) - TokenStart(k)
                             \in {(Updates \div ShardCount) * update,
                                  ((Updates \div ShardCount) + 1) * update}
         /\ Updates \div ShardCount \in Nat \ {0}
         /\ update \in Nat \ {0}
         /\ \A k \in Nat : TokenStart(k) < TokenEnd(k)
<1> DEFINE U == Updates
           S == ShardCount
           a == U \div S
           b == U % S
<1>1. U \in Nat \ {0} /\ S \in Nat \ {0} /\ S <= U /\ update \in Nat \ {0}
  BY UpdateFacts, CatalogFacts
<1>2. a \in Nat /\ b \in Nat /\ b < S /\ U = S * a + b BY <1>1, DivMod
<1>3. a # 0
  <2> HIDE DEF a, b, U, S
  <2>1. S * 0 = 0 BY <1>1
  <2> QED BY <1>1, <1>2, <2>1
<1>4. \A k : UpdateStart(k) = k * a + (IF k < b THEN k ELSE b) BY DEF UpdateStart
<1> HIDE DEF a, b, U, S
<1>5. ASSUME NEW k \in Nat
      PROVE  /\ UpdateStart(k) \in Nat
             /\ UpdateStart(k + 1) - UpdateStart(k) \in {a, a + 1}
             /\ UpdateStart(k + 1) \in Nat
  <2>1. k * a \in Nat /\ (k + 1) * a = k * a + a BY <1>2
  <2>2. UpdateStart(k) = k * a + (IF k < b THEN k ELSE b) BY <1>4
  <2>3. UpdateStart(k + 1) = k * a + a + (IF k + 1 < b THEN k + 1 ELSE b) BY <1>4, <2>1
  <2> DEFINE e == k * a
  <2>4. e \in Nat /\ UpdateStart(k) = e + (IF k < b THEN k ELSE b)
        /\ UpdateStart(k + 1) = e + a + (IF k + 1 < b THEN k + 1 ELSE b)
    BY <2>1, <2>2, <2>3
  <2> HIDE DEF e
  <2> QED BY <1>2, <2>4
<1>6. TokenStart(0) = 0
  <2>1. 0 * a = 0 BY <1>2
  <2>2. UpdateStart(0) = 0 BY <1>2, <1>4, <2>1
  <2> QED BY <1>1, <2>2 DEF TokenStart
<1>7. TokenEnd(S - 1) = U * update
  <2>1. UpdateStart((S - 1) + 1) = U
    <3>1. (S - 1) + 1 = S BY <1>1
    <3>2. UpdateStart(S) = S * a + b BY <1>1, <1>2, <1>4
    <3> QED BY <1>2, <3>1, <3>2
  <2> QED BY <2>1 DEF TokenEnd
<1>8. ASSUME NEW k \in Nat
      PROVE  /\ TokenStart(k) \in Nat /\ TokenEnd(k) = TokenStart(k + 1)
             /\ TokenEnd(k) - TokenStart(k) \in {a * update, (a + 1) * update}
             /\ TokenStart(k) < TokenEnd(k)
  <2> DEFINE u == UpdateStart(k)
             v == UpdateStart(k + 1)
  <2>1. u \in Nat /\ v \in Nat /\ v - u \in {a, a + 1} BY <1>5
  <2>2. TokenStart(k) = u * update /\ TokenEnd(k) = v * update /\ TokenStart(k + 1) = v * update
    BY DEF TokenStart, TokenEnd
  <2> HIDE DEF u, v
  <2>3. u * update \in Nat /\ v * update \in Nat BY <1>1, <2>1
  <2>4. v * update - u * update = (v - u) * update BY <1>1, <2>1
  <2>5. a * update > 0 /\ (a + 1) * update > 0 BY <1>1, <1>2, <1>3
  <2>6. a * update \in Nat /\ (a + 1) * update \in Nat BY <1>1, <1>2
  <2>7. (v - u) * update \in {a * update, (a + 1) * update} BY <2>1
  <2> QED BY <2>2, <2>3, <2>4, <2>5, <2>6, <2>7
<1> QED BY <1>1, <1>2, <1>3, <1>6, <1>7, <1>8 DEF a, U, S

(* No shard ends after the last.                                           *)
LEMMA ShardOrder ==
  ASSUME CatalogOK, NEW k \in Nat, k < ShardCount
  PROVE  TokenEnd(k) <= Updates * update
<1> DEFINE Good == {d \in Nat : d < ShardCount =>
                       TokenEnd((ShardCount - 1) - d) <= Updates * update}
<1>1. ShardCount \in Nat \ {0} /\ Updates * update \in Nat /\ TokenEnd(ShardCount - 1) = Updates * update
  BY UpdateFacts, ShardFacts
<1>2. 0 \in Good
  <2>1. (ShardCount - 1) - 0 = ShardCount - 1 BY <1>1
  <2> QED BY <1>1, <2>1
<1>3. ASSUME NEW d \in Nat, d \in Good PROVE d + 1 \in Good
  <2>1. SUFFICES ASSUME d + 1 < ShardCount
                 PROVE  TokenEnd((ShardCount - 1) - (d + 1)) <= Updates * update
    OBVIOUS
  <2> DEFINE i == (ShardCount - 1) - d
             j == (ShardCount - 1) - (d + 1)
  <2>2. i \in Nat /\ j \in Nat /\ i = j + 1 BY <1>1, <2>1
  <2>3. TokenEnd(i) <= Updates * update BY <1>1, <1>3, <2>1
  <2> HIDE DEF i, j
  <2>4. TokenEnd(j) = TokenStart(i) /\ TokenStart(i) < TokenEnd(i) /\ TokenStart(i) \in Nat
        /\ TokenEnd(i) \in Nat
    <3>1. i + 1 \in Nat BY <2>2
    <3> QED BY <2>2, <3>1, ShardFacts
  <2>5. TokenEnd(j) <= Updates * update BY <1>1, <2>3, <2>4
  <2> QED BY <2>5 DEF j
<1>4. Nat \subseteq Good
  <2> HIDE DEF Good
  <2> QED BY <1>2, <1>3, Induct
<1>5. (ShardCount - 1) - k \in Nat /\ (ShardCount - 1) - k < ShardCount
      /\ (ShardCount - 1) - ((ShardCount - 1) - k) = k
  BY <1>1
<1>6. (ShardCount - 1) - k \in Good BY <1>4, <1>5
<1> QED BY <1>5, <1>6

(* A catalog before its first task has run.                                *)
LEMMA ScheduleStarts == ASSUME ScheduleInit PROVE ScheduleInv
<1>1. CatalogOK
  <2>1. PICK n \in 1..MaxRecords :
          /\ lane \in [1..n -> LaneIds] /\ length \in [1..n -> 1..MaxRecordLength]
    BY DEF ScheduleInit
  <2>2. n \in Nat \ {0} BY ScheduleAssumption
  <2>3. weight \in [LaneIds -> Nat] BY ScheduleAssumption DEF ScheduleInit
  <2>4. tasks \in Nat \ {0} /\ update \in Nat \ {0} /\ shards \in Nat \ {0}
    BY ScheduleAssumption DEF ScheduleInit
  <2> QED BY <2>1, <2>2, <2>3, <2>4 DEF CatalogOK
<1>2. OrderInv
  <2>1. order = << >> /\ DOMAIN order = {} /\ Range(order) = {} BY DEF ScheduleInit, Range
  <2>2. order \in Seq(Records) BY <2>1
  <2> QED BY <2>1, <2>2, SumOfNone DEF OrderInv
<1>3. phase = "reduce" BY DEF ScheduleInit
<1> QED BY <1>1, <1>2, <1>3 DEF ScheduleInv, ScheduleInit, LanesAreLevel

(* What depends on the inputs and the schedule only.                       *)
LEMMA InputsStay ==
  ASSUME UNCHANGED <<inputs, order>>
  PROVE  /\ CatalogOK' = CatalogOK /\ OrderInv' = OrderInv
         /\ UNCHANGED <<Records, Total, TotalWeight, Updates, ShardCount, Active, Stream,
                        Range(order)>>
         /\ \A k : TokenStart(k)' = TokenStart(k) /\ TokenEnd(k)' = TokenEnd(k)
         /\ \A l : Deficit(l)' = Deficit(l) /\ Emitted(l)' = Emitted(l)
         /\ \A p : Padded(p)' = Padded(p)
BY DEF inputs, CatalogOK, OrderInv, Records, Total, TotalWeight, Updates, ShardCount,
       Active, Queue, Stream, Tokens, TokenStart, TokenEnd, UpdateStart, Deficit, Emitted, Lengths,
       Padded, Range

(* A task's result comes in.                                               *)
LEMMA TaskResultKeeps == ASSUME ScheduleInv, TaskResult PROVE ScheduleInv'
<1>1. UNCHANGED <<inputs, order>> /\ phase = "reduce" /\ phase' = "reduce" /\ tasks' = tasks
  BY DEF TaskResult, inputs
<1>2. CatalogOK' /\ OrderInv' BY <1>1, InputsStay DEF ScheduleInv
<1>3. done' \subseteq 0..(tasks' - 1) BY <1>1 DEF ScheduleInv, TaskResult
<1> QED BY <1>1, <1>2, <1>3 DEF ScheduleInv, TaskResult, LanesAreLevel

(* The partitions of all the tasks are the catalog: reduce_task_results    *)
(* does not refuse a complete set of results.                              *)
LEMMA ReduceKeeps == ASSUME ScheduleInv, Reduce PROVE ScheduleInv'
<1>1. UNCHANGED <<inputs, order, done>> /\ phase = "reduce" /\ tasks' = tasks /\ CatalogOK
  BY DEF Reduce, inputs, ScheduleInv
<1>2. CatalogOK' /\ OrderInv' BY <1>1, InputsStay DEF ScheduleInv
<1>3. UNION {Partition(k, tasks) : k \in done} = Records
  <2>1. ASSUME NEW r \in Records PROVE r \in UNION {Partition(k, tasks) : k \in done}
    <3>1. r - 1 \in Nat /\ tasks \in Nat \ {0} BY <1>1, CatalogFacts
    <3>2. (r - 1) % tasks \in 0..(tasks - 1) BY <3>1, DivMod
    <3>3. (r - 1) % tasks \in done BY <3>2 DEF Reduce
    <3>4. r \in Partition((r - 1) % tasks, tasks) BY DEF Partition
    <3> QED BY <3>3, <3>4
  <2> QED BY <2>1 DEF Partition
<1>4. phase' = "schedule" BY <1>3 DEF Reduce
<1>5. LanesAreLevel'
  <2>1. order = << >> BY <1>1 DEF ScheduleInv
  <2>2. \A l : Emitted(l) = 0
    <3>1. \A l : {k \in DOMAIN order : lane[order[k]] = l} = {} BY <2>1
    <3> QED BY <3>1, SumOfNone DEF Emitted
  <2>3. \A l : Emitted(l)' = 0 BY <1>1, <2>2, InputsStay
  <2> QED BY <2>3 DEF LanesAreLevel
<1> QED BY <1>1, <1>2, <1>4, <1>5 DEF ScheduleInv, Reduce

(* Some lane has the largest deficit of all, the lowest such lane;         *)
(* ChosenLane is that lane.                                                *)
LEMMA ChosenIsLargest ==
  ASSUME CatalogOK, Active # {}, \A l \in LaneIds : Deficit(l) \in Int
  PROVE  ChosenLane \in Active /\ \A m \in Active : Deficit(m) <= Deficit(ChosenLane)
<1> DEFINE Best(s, l) == \A m \in s \ {l} :
                 Deficit(l) > Deficit(m) \/ (Deficit(l) = Deficit(m) /\ l < m)
           P == {s \in SUBSET Active : s # {} => \E l \in s : Best(s, l)}
<1>1. Active \subseteq LaneIds /\ LaneIds \subseteq Nat /\ IsFiniteSet(LaneIds)
  BY CatalogFacts DEF Active
<1>2. IsFiniteSet(Active) BY <1>1, FS_Subset
<1>3. {} \in P OBVIOUS
<1>4. ASSUME NEW s \in SUBSET Active, s # {}, \A y \in s : s \ {y} \in P PROVE s \in P
  <2>1. PICK y \in s : TRUE BY <1>4
  <2>2. CASE s \ {y} = {}
    <3>1. Best(s, y) BY <2>2
    <3> QED BY <2>1, <3>1
  <2>3. CASE s \ {y} # {}
    <3>1. PICK l \in s \ {y} : Best(s \ {y}, l) BY <1>4, <2>1, <2>3
    <3>2. /\ \A m \in s : m \in Nat /\ Deficit(m) \in Int
      BY <1>1
    <3>3. l \in s /\ y \in s /\ l # y BY <2>1, <3>1
    <3>4. CASE Deficit(l) > Deficit(y) \/ (Deficit(l) = Deficit(y) /\ l < y)
      <4>1. Best(s, l) BY <3>1, <3>4
      <4> QED BY <3>3, <4>1
    <3>5. CASE ~(Deficit(l) > Deficit(y) \/ (Deficit(l) = Deficit(y) /\ l < y))
      <4>1. Deficit(y) > Deficit(l) \/ (Deficit(y) = Deficit(l) /\ y < l)
        BY <3>2, <3>3, <3>5
      <4>2. ASSUME NEW m \in s \ {y}
            PROVE  Deficit(y) > Deficit(m) \/ (Deficit(y) = Deficit(m) /\ y < m)
        <5>1. CASE m = l BY <4>1, <5>1
        <5>2. CASE m # l
          <6>1. Deficit(l) > Deficit(m) \/ (Deficit(l) = Deficit(m) /\ l < m)
            BY <3>1, <5>2
          <6> QED BY <3>2, <3>3, <4>1, <6>1
        <5> QED BY <5>1, <5>2
      <4> QED BY <3>3, <4>2
    <3> QED BY <3>4, <3>5
  <2> QED BY <2>2, <2>3
<1>5. Active \in P
  <2> HIDE DEF P
  <2> QED BY <1>2, <1>3, <1>4, SetInduct
<1>6. \E l \in Active : Best(Active, l) BY <1>5
<1>7. ChosenLane \in Active /\ Best(Active, ChosenLane) BY <1>6 DEF ChosenLane
<1>8. ASSUME NEW m \in Active PROVE Deficit(m) <= Deficit(ChosenLane)
  <2>1. Deficit(m) \in Int /\ Deficit(ChosenLane) \in Int BY <1>1, <1>7
  <2> QED BY <1>7, <2>1
<1> QED BY <1>7, <1>8

(* The facts about a schedule that the steps need.                         *)
LEMMA OrderFacts ==
  ASSUME CatalogOK, OrderInv
  PROVE  /\ Len(order) \in Nat /\ DOMAIN order = 1..Len(order) /\ IsFiniteSet(DOMAIN order)
         /\ \A k \in DOMAIN order : order[k] \in Records /\ Lengths[k] = length[order[k]]
                                    /\ Lengths[k] \in Nat \ {0}
         /\ Range(order) \subseteq Records
         /\ \A l : Emitted(l) \in Nat
         /\ \A l \in LaneIds : Deficit(l) \in Int
<1>1. order \in Seq(Records) BY DEF OrderInv
<1>2. Len(order) \in Nat /\ DOMAIN order = 1..Len(order) BY <1>1, LenProperties
<1>3. IsFiniteSet(DOMAIN order) BY <1>2, FS_Interval
<1>4. \A k \in DOMAIN order : order[k] \in Records BY <1>1, <1>2, ElementOfSeq
<1>5. \A k \in DOMAIN order : Lengths[k] = length[order[k]] /\ Lengths[k] \in Nat \ {0}
  BY <1>4, CatalogFacts DEF Lengths
<1>6. Range(order) \subseteq Records BY <1>4 DEF Range
<1>7. ASSUME NEW l PROVE Emitted(l) \in Nat
  <2>1. IsFiniteSet({k \in DOMAIN order : lane[order[k]] = l}) BY <1>3, FS_Subset
  <2> QED BY <1>5, <2>1, SumType DEF Emitted
<1>8. ASSUME NEW l \in LaneIds PROVE Deficit(l) \in Int
  <2>1. Total \in Nat /\ TotalWeight \in Nat /\ weight[l] \in Nat /\ Emitted(l) \in Nat
    BY <1>7, CatalogFacts
  <2>2. Total * weight[l] \in Int /\ TotalWeight * Emitted(l) \in Int BY <2>1
  <2> QED BY <2>2 DEF Deficit
<1> QED BY <1>2, <1>3, <1>4, <1>5, <1>6, <1>7, <1>8

(* largest_deficit_schedule emits a record: the deficit of its lane was    *)
(* the largest, and falls by the record's share.                           *)
LEMMA EmitKeeps == ASSUME ScheduleInv, Emit PROVE ScheduleInv'
<1> DEFINE c == ChosenLane
           r == Min(Queue(c))
           n == Len(order)
<1>1. /\ CatalogOK /\ OrderInv /\ LanesAreLevel /\ phase = "schedule" /\ Active # {}
      /\ order' = Append(order, r)
      /\ UNCHANGED <<inputs, done, phase, position, sink, packed>>
  BY DEF ScheduleInv, Emit
<1>2. /\ UNCHANGED <<lane, length, weight, tasks, update, shards, Records, Total, TotalWeight>>
      /\ CatalogOK'
  BY <1>1 DEF inputs, Records, Total, TotalWeight, CatalogOK
<1>3. /\ n \in Nat /\ DOMAIN order = 1..n /\ IsFiniteSet(DOMAIN order)
      /\ \A k \in DOMAIN order : order[k] \in Records /\ Lengths[k] = length[order[k]]
                                 /\ Lengths[k] \in Nat \ {0}
      /\ Range(order) \subseteq Records
      /\ \A l : Emitted(l) \in Nat
      /\ \A l \in LaneIds : Deficit(l) \in Int
  BY <1>1, OrderFacts
<1>4. c \in Active /\ \A m \in Active : Deficit(m) <= Deficit(c)
  BY <1>1, <1>3, ChosenIsLargest
<1>5. r \in Queue(c)
  <2>1. Queue(c) # {} /\ Queue(c) \subseteq Nat
    BY <1>1, <1>4, CatalogFacts DEF Active, Queue
  <2> QED BY <2>1, LeastOf
<1>6. /\ r \in Records /\ lane[r] = c /\ \A k \in DOMAIN order : order[k] # r
      /\ length[r] \in Nat \ {0} /\ length[r] <= MaxRecordLength /\ c \in LaneIds
  BY <1>1, <1>5, CatalogFacts DEF Queue
<1> HIDE DEF c, r, n
<1>7. /\ order' \in Seq(Records) /\ DOMAIN order' = 1..(n + 1)
      /\ \A k \in 1..n : order'[k] = order[k]
      /\ order'[n + 1] = r
  BY <1>1, <1>6, AppendProperties DEF OrderInv, n
<1>8. \A j, k \in DOMAIN order' : order'[j] = order'[k] => j = k
  <2>1. ASSUME NEW j \in 1..(n + 1), NEW k \in 1..(n + 1), order'[j] = order'[k] PROVE j = k
    <3>1. (j \in 1..n \/ j = n + 1) /\ (k \in 1..n \/ k = n + 1) BY <1>3
    <3> QED BY <1>1, <1>3, <1>6, <1>7, <2>1, <3>1 DEF OrderInv
  <2> QED BY <1>7, <2>1
<1>9. /\ \A k \in 1..n : Lengths'[k] = Lengths[k]
      /\ Lengths'[n + 1] = length[r]
      /\ \A k \in 1..(n + 1) : Lengths'[k] \in Nat
  <2>1. Lengths' = [k \in 1..(n + 1) |-> length[order'[k]]] BY <1>2, <1>7 DEF Lengths
  <2>2. \A k \in 1..n : k \in 1..(n + 1) BY <1>3
  <2>3. n + 1 \in 1..(n + 1) BY <1>3
  <2>4. \A k \in 1..n : Lengths'[k] = Lengths[k] BY <1>3, <1>7, <2>1, <2>2
  <2>5. Lengths'[n + 1] = length[r] BY <1>7, <2>1, <2>3
  <2>6. \A k \in 1..(n + 1) : k \in 1..n \/ k = n + 1 BY <1>3
  <2>7. \A k \in 1..(n + 1) : Lengths'[k] \in Nat BY <1>3, <1>6, <2>4, <2>5, <2>6
  <2> QED BY <2>4, <2>5, <2>7
<1>10. ASSUME NEW D \in SUBSET (1..n)
       PROVE  /\ SumFunctionOnSet(Lengths', D) = SumFunctionOnSet(Lengths, D)
              /\ SumFunctionOnSet(Lengths', D \cup {n + 1})
                   = SumFunctionOnSet(Lengths, D) + length[r]
  <2>1. IsFiniteSet(D) BY <1>3, FS_Subset
  <2>2. SumFunctionOnSet(Lengths', D) = SumFunctionOnSet(Lengths, D)
    <3>1. \A k \in D : Lengths'[k] = Lengths[k] BY <1>9
    <3> QED BY <2>1, <3>1, SumCongruent
  <2>3. n + 1 \notin D /\ (D \cup {n + 1}) \ {n + 1} = D BY <1>3
  <2>4. IsFiniteSet(D \cup {n + 1}) /\ n + 1 \in D \cup {n + 1} BY <2>1, FS_AddElement
  <2>5. \A k \in D \cup {n + 1} : Lengths'[k] \in Nat
    <3>1. D \cup {n + 1} \subseteq 1..(n + 1) BY <1>3
    <3> QED BY <1>9, <3>1
  <2>6. SumFunctionOnSet(Lengths', D \cup {n + 1})
          = SumFunctionOnSet(Lengths', (D \cup {n + 1}) \ {n + 1}) + Lengths'[n + 1]
    BY <2>4, <2>5, SumWith
  <2> QED BY <1>9, <2>2, <2>3, <2>6
<1>11. OrderInv'
  <2>1. DOMAIN order' = DOMAIN order \cup {n + 1} /\ Range(order') = Range(order) \cup {r}
    <3>1. 1..(n + 1) = (1..n) \cup {n + 1} BY <1>3
    <3>2. Range(order') = {order'[k] : k \in (1..n) \cup {n + 1}} BY <1>7, <3>1 DEF Range
    <3>3. Range(order) = {order[k] : k \in 1..n} BY <1>3 DEF Range
    <3> QED BY <1>3, <1>7, <3>1, <3>2, <3>3
  <2>2. SumFunctionOnSet(Lengths', DOMAIN order')
          = SumFunctionOnSet(Lengths, DOMAIN order) + length[r]
    BY <1>3, <1>10, <2>1
  <2>3. SumFunctionOnSet(length, Range(order) \cup {r})
          = SumFunctionOnSet(length, Range(order)) + length[r]
    <3>1. r \notin Range(order) BY <1>6 DEF Range
    <3>5. IsFiniteSet(Range(order)) BY <1>1, <1>3, CatalogFacts, FS_Subset
    <3>2. IsFiniteSet(Range(order) \cup {r}) /\ r \in Range(order) \cup {r}
          /\ (Range(order) \cup {r}) \ {r} = Range(order)
      BY <3>1, <3>5, FS_AddElement
    <3>3. \A x \in Range(order) \cup {r} : length[x] \in Nat
      BY <1>1, <1>3, <1>6, CatalogFacts
    <3>4. SumFunctionOnSet(length, Range(order) \cup {r})
            = SumFunctionOnSet(length, (Range(order) \cup {r}) \ {r}) + length[r]
      BY <3>2, <3>3, SumWith
    <3> QED BY <3>2, <3>4
  <2>4. SumFunctionOnSet(Lengths', DOMAIN order') = SumFunctionOnSet(length', Range(order'))
    BY <1>1, <1>2, <2>1, <2>2, <2>3 DEF OrderInv
  <2>5. order' \in Seq(Records') BY <1>2, <1>7
  <2> QED BY <1>8, <2>4, <2>5 DEF OrderInv
<1>12. ASSUME NEW l \in LaneIds
       PROVE  /\ Emitted(l)' = IF l = c THEN Emitted(l) + length[r] ELSE Emitted(l)
              /\ Deficit(l)' = IF l = c THEN Deficit(l) - TotalWeight * length[r] ELSE Deficit(l)
  <2> DEFINE E == {k \in DOMAIN order : lane[order[k]] = l}
             F == {k \in DOMAIN order' : lane[order'[k]] = l}
  <2>1. Emitted(l) = SumFunctionOnSet(Lengths, E) /\ Emitted(l)' = SumFunctionOnSet(Lengths', F)
    BY <1>2 DEF Emitted
  <2>2. E \in SUBSET (1..n) BY <1>3
  <2>3. F = IF l = c THEN E \cup {n + 1} ELSE E
    <3>1. \A k \in 1..(n + 1) : k \in 1..n \/ k = n + 1 BY <1>3
    <3>2. \A k \in 1..n : k \in 1..(n + 1) BY <1>3
    <3>3. n + 1 \in 1..(n + 1) BY <1>3
    <3> QED BY <1>3, <1>6, <1>7, <3>1, <3>2, <3>3
  <2> HIDE DEF E, F
  <2>4. Emitted(l)' = IF l = c THEN Emitted(l) + length[r] ELSE Emitted(l)
    BY <1>10, <2>1, <2>2, <2>3
  <2>5. Emitted(l) \in Nat /\ length[r] \in Nat /\ TotalWeight \in Nat /\ Total \in Nat
        /\ weight[l] \in Nat
    BY <1>1, <1>3, <1>6, CatalogFacts
  <2>6. Deficit(l) = Total * weight[l] - TotalWeight * Emitted(l) BY DEF Deficit
  <2>7. Deficit(l)' = Total * weight[l] - TotalWeight * Emitted(l)' BY <1>2 DEF Deficit
  <2>8. CASE l = c
    <3>1. TotalWeight * (Emitted(l) + length[r]) = TotalWeight * Emitted(l) + TotalWeight * length[r]
          /\ TotalWeight * Emitted(l) \in Nat /\ TotalWeight * length[r] \in Nat
          /\ Total * weight[l] \in Nat
      BY <2>5
    <3> DEFINE x == TotalWeight * Emitted(l)
               y == TotalWeight * length[r]
               z == Total * weight[l]
               w == TotalWeight * (Emitted(l) + length[r])
    <3>2. w = x + y /\ x \in Nat /\ y \in Nat /\ z \in Nat BY <3>1
    <3>3. Deficit(l) = z - x /\ Deficit(l)' = z - w BY <2>4, <2>6, <2>7, <2>8
    <3> HIDE DEF x, y, z, w
    <3>4. Deficit(l)' = Deficit(l) - y BY <3>2, <3>3
    <3> QED BY <2>4, <2>8, <3>4 DEF y
  <2>9. CASE l # c BY <2>4, <2>6, <2>7, <2>9
  <2> QED BY <2>4, <2>8, <2>9
<1>13. Active' \subseteq Active
  <2>1. \A l : Queue(l)' \subseteq Queue(l)
    <3>1. \A k \in DOMAIN order : k \in DOMAIN order' /\ order'[k] = order[k] BY <1>3, <1>7
    <3> QED BY <1>2, <3>1 DEF Queue
  <2> QED BY <2>1 DEF Active, LaneIds
<1>14. LanesAreLevel'
  <2> DEFINE W == TotalWeight * MaxRecordLength
  <2>1. W \in Nat /\ TotalWeight * length[r] \in Nat /\ TotalWeight * length[r] <= W
    <3>1. TotalWeight \in Nat /\ MaxRecordLength \in Nat BY <1>1, CatalogFacts
    <3>2. length[r] * TotalWeight <= MaxRecordLength * TotalWeight
      BY <1>6, <3>1, ProductUp
    <3>3. length[r] * TotalWeight = TotalWeight * length[r] 
          /\ MaxRecordLength * TotalWeight = W
      BY <1>6, <3>1
    <3>4. W \in Nat /\ TotalWeight * length[r] \in Nat BY <1>6, <3>1
    <3> QED BY <3>2, <3>3, <3>4
  <2>2. ASSUME NEW l \in Active', NEW m \in Active', Emitted(l)' > 0
        PROVE  Deficit(m)' - Deficit(l)' <= W
    <3>1. l \in Active /\ m \in Active /\ l \in LaneIds /\ m \in LaneIds BY <1>13 DEF Active
    <3>2. Deficit(l) \in Int /\ Deficit(m) \in Int /\ Deficit(c) \in Int
          /\ Deficit(m) <= Deficit(c) /\ Deficit(l) <= Deficit(c)
      BY <1>3, <1>4, <1>6, <3>1
    <3> DEFINE y == TotalWeight * length[r]
    <3>3. /\ Deficit(l)' = IF l = c THEN Deficit(l) - y ELSE Deficit(l)
          /\ Deficit(m)' = IF m = c THEN Deficit(m) - y ELSE Deficit(m)
          /\ l # c => Emitted(l)' = Emitted(l)
      BY <1>12, <3>1
    <3>4. l # c => Deficit(m) - Deficit(l) <= W
      BY <1>1, <2>2, <3>1, <3>3 DEF LanesAreLevel
    <3>5. y \in Nat /\ y <= W BY <2>1
    <3> HIDE DEF W, y
    <3> QED BY <2>1, <3>2, <3>3, <3>4, <3>5
  <2>3. W' = W BY <1>2
  <2> QED BY <2>2, <2>3 DEF LanesAreLevel
<1>15. phase' = "schedule" /\ done' \subseteq 0..(tasks' - 1) /\ position' = 0 /\ sink' = 0
  BY <1>1, <1>2 DEF ScheduleInv
<1> QED BY <1>2, <1>11, <1>14, <1>15 DEF ScheduleInv

(* When no lane has a record left, all of them are in the schedule.        *)
LEMMA OrderComplete ==
  ASSUME ScheduleInv, Active = {}
  PROVE  Range(order) = Records
<1>1. CatalogOK /\ OrderInv BY DEF ScheduleInv
<1>2. ASSUME NEW r \in Records PROVE r \in Range(order)
  <2>1. lane[r] \in LaneIds BY <1>1, CatalogFacts
  <2>2. Queue(lane[r]) = {} BY <2>1 DEF Active
  <2> QED BY <2>2 DEF Queue, Range
<1> QED BY <1>1, <1>2, OrderFacts

(* The first shard is opened, all are empty.                               *)
LEMMA OpenShardsKeeps == ASSUME ScheduleInv, OpenShards PROVE ScheduleInv'
<1>1. /\ CatalogOK /\ OrderInv /\ UNCHANGED <<inputs, order, done, position, sink>>
      /\ position = 0 /\ sink = 0 /\ phase' = "pack" /\ tasks' = tasks
      /\ packed' = [k \in 1..ShardCount |-> << >>]
  BY DEF ScheduleInv, OpenShards, inputs
<1>2. /\ CatalogOK' /\ OrderInv' /\ UNCHANGED <<Records, ShardCount, Range(order)>>
      /\ \A k : TokenStart(k)' = TokenStart(k) /\ TokenEnd(k)' = TokenEnd(k)
  BY <1>1, InputsStay
<1>3. ShardCount \in Nat \ {0} /\ TokenStart(0) = 0 /\ TokenEnd(0) \in Nat
  <2>1. TokenStart(0 + 1) \in Nat /\ TokenEnd(0) = TokenStart(0 + 1) BY <1>1, ShardFacts
  <2> QED BY <1>1, <2>1, UpdateFacts, ShardFacts
<1>4. PackInv'
  <2>1. \A k \in 1..ShardCount : Filled(k - 1)' = 0
    BY <1>1, <1>2, <1>3 DEF Filled
  <2>2. ASSUME NEW k \in 1..ShardCount PROVE Content(k - 1)' = << >>
    <3>1. Content(k - 1)' = [i \in 1..0 |-> Padded(TokenStart(k - 1) + i)'] BY <2>1 DEF Content
    <3>2. 1..0 = {} OBVIOUS
    <3> QED BY <3>1, <3>2
  <2>3. packed' = [k \in 1..ShardCount |-> Content(k - 1)'] BY <1>1, <2>2
  <2>4. packed' = [k \in 1..ShardCount |-> Content(k - 1)]' BY <1>2, <2>3
  <2>5. Range(order)' = Records'
    BY <1>2, OrderComplete DEF OpenShards
  <2>6. /\ sink' \in Nat /\ sink' < ShardCount' /\ position' \in Nat
        /\ TokenStart(sink)' <= position' /\ position' <= TokenEnd(sink)'
    <3>1. TokenStart(sink)' = TokenStart(0) /\ TokenEnd(sink)' = TokenEnd(0)
      BY <1>1, <1>2 DEF TokenStart, TokenEnd, UpdateStart, Updates, inputs
    <3> QED BY <1>1, <1>2, <1>3, <3>1
  <2> QED BY <1>1, <2>4, <2>5, <2>6 DEF PackInv
<1>5. LanesAreLevel' BY <1>1 DEF LanesAreLevel
<1>6. done' \subseteq 0..(tasks' - 1) BY <1>1 DEF ScheduleInv
<1> QED BY <1>1, <1>2, <1>4, <1>5, <1>6 DEF ScheduleInv

(* The open shard is finished and the next one opened.                     *)
LEMMA NextSinkKeeps == ASSUME ScheduleInv, NextSink PROVE ScheduleInv'
<1>1. /\ CatalogOK /\ OrderInv /\ PackInv /\ UNCHANGED <<inputs, order, done, phase, position, packed>>
      /\ phase = "pack" /\ tasks' = tasks /\ sink' = sink + 1
      /\ position = TokenEnd(sink) /\ sink + 1 < ShardCount
  BY DEF ScheduleInv, NextSink, inputs
<1>2. /\ CatalogOK' /\ OrderInv' /\ UNCHANGED <<Records, ShardCount, Range(order)>>
      /\ \A k : TokenStart(k)' = TokenStart(k) /\ TokenEnd(k)' = TokenEnd(k)
      /\ \A p : Padded(p)' = Padded(p)
  BY <1>1, InputsStay
<1>3. /\ sink \in Nat /\ position \in Nat /\ ShardCount \in Nat \ {0}
      /\ \A k \in Nat : /\ TokenStart(k) \in Nat /\ TokenEnd(k) = TokenStart(k + 1)
                        /\ TokenStart(k) < TokenEnd(k)
  BY <1>1, UpdateFacts, ShardFacts DEF PackInv
<1>4. sink + 1 \in Nat /\ TokenStart(sink + 1) = position /\ TokenStart(sink + 1) < TokenEnd(sink + 1)
      /\ TokenEnd(sink + 1) \in Nat
  <2>1. (sink + 1) + 1 \in Nat /\ sink + 1 \in Nat BY <1>3
  <2> QED BY <1>1, <1>3, <2>1
<1>5. ASSUME NEW k \in 1..ShardCount PROVE Filled(k - 1)' = Filled(k - 1)
  <2>1. k - 1 \in Nat BY <1>3
  <2>2. Filled(k - 1)' = IF k - 1 < sink + 1 THEN TokenEnd(k - 1) - TokenStart(k - 1)
             ELSE IF k - 1 = sink + 1 THEN position - TokenStart(k - 1) ELSE 0
    BY <1>1, <1>2 DEF Filled
  <2>3. Filled(k - 1) = IF k - 1 < sink THEN TokenEnd(k - 1) - TokenStart(k - 1)
             ELSE IF k - 1 = sink THEN position - TokenStart(k - 1) ELSE 0
    BY DEF Filled
  <2>4. CASE k - 1 < sink BY <1>3, <2>1, <2>2, <2>3, <2>4
  <2>5. CASE k - 1 = sink BY <1>1, <1>3, <2>1, <2>2, <2>3, <2>5
  <2>6. CASE k - 1 = sink + 1 BY <1>3, <1>4, <2>1, <2>2, <2>3, <2>6
  <2>7. CASE k - 1 > sink + 1 BY <1>3, <2>1, <2>2, <2>3, <2>7
  <2> QED BY <1>3, <2>1, <2>4, <2>5, <2>6, <2>7
<1>6. PackInv'
  <2>1. \A k \in 1..ShardCount : Content(k - 1)' = Content(k - 1)
    BY <1>2, <1>5 DEF Content
  <2>2. packed' = [k \in 1..ShardCount |-> Content(k - 1)]' BY <1>1, <1>2, <2>1 DEF PackInv
  <2>3. Range(order)' = Records' BY <1>1, <1>2 DEF PackInv
  <2>4. /\ sink' \in Nat /\ sink' < ShardCount' /\ position' \in Nat
        /\ TokenStart(sink)' <= position' /\ position' <= TokenEnd(sink)'
    <3>1. TokenStart(sink)' = TokenStart(sink + 1) /\ TokenEnd(sink)' = TokenEnd(sink + 1)
      BY <1>1, <1>2 DEF TokenStart, TokenEnd, UpdateStart, Updates, inputs
    <3> QED BY <1>1, <1>2, <1>3, <1>4, <3>1
  <2> QED BY <1>1, <2>2, <2>3, <2>4 DEF PackInv
<1>7. LanesAreLevel' BY <1>1 DEF LanesAreLevel
<1>8. done' \subseteq 0..(tasks' - 1) BY <1>1 DEF ScheduleInv
<1> QED BY <1>1, <1>2, <1>6, <1>7, <1>8 DEF ScheduleInv

(* A chunk does not end before it starts.                                  *)
LEMMA RecordEndIsAhead ==
  ASSUME CatalogOK, OrderInv, PackInv, position < TokenEnd(sink)
  PROVE  RecordEnd \in Nat /\ position <= RecordEnd
<1> DEFINE ends == {SumFunctionOnSet(Lengths, 1..k) : k \in DOMAIN order}
           S == {e \in ends : e > position} \cup
                  (IF position >= Total THEN {TokenEnd(ShardCount - 1)} ELSE {})
<1>1. /\ position \in Nat /\ Total \in Nat \ {0} /\ sink \in Nat /\ sink < ShardCount
      /\ Range(order) = Records /\ ShardCount \in Nat \ {0}
  BY CatalogFacts, UpdateFacts DEF PackInv
<1>2. TokenEnd(ShardCount - 1) = Updates * update /\ Updates * update \in Nat
      /\ TokenEnd(sink) \in Nat /\ TokenEnd(sink) <= Updates * update
  <2>1. TokenStart(sink + 1) \in Nat /\ TokenEnd(sink) = TokenStart(sink + 1)
    BY <1>1, ShardFacts
  <2> QED BY <1>1, <2>1, ShardFacts, UpdateFacts, ShardOrder
<1>3. /\ Len(order) \in Nat /\ DOMAIN order = 1..Len(order)
      /\ \A k \in DOMAIN order : Lengths[k] \in Nat
  BY OrderFacts
<1>4. \A e \in ends : e \in Nat
  <2>1. ASSUME NEW k \in DOMAIN order PROVE SumFunctionOnSet(Lengths, 1..k) \in Nat
    <3>1. k \in Nat /\ 1..k \subseteq DOMAIN order BY <1>3
    <3>2. IsFiniteSet(1..k) BY <3>1, FS_Interval
    <3> QED BY <1>3, <3>1, <3>2, SumType
  <2> QED BY <2>1
<1>5. position < Total => Total \in ends
  <2>1. DOMAIN length = Records BY DEF Records
  <2>2. Total = SumFunctionOnSet(Lengths, DOMAIN order)
    BY <1>1, <2>1 DEF OrderInv, Total, SumFunction
  <2>3. Len(order) # 0
    <3>1. ASSUME Len(order) = 0 PROVE FALSE
      <4>1. DOMAIN order = {} BY <1>3, <3>1
      <4> QED BY <1>1, <2>2, <4>1, SumOfNone
    <3> QED BY <3>1
  <2>4. Len(order) \in DOMAIN order BY <1>3, <2>3
  <2> QED BY <1>3, <2>2, <2>4
<1> HIDE DEF ends
<1>6. S # {} /\ S \subseteq Nat BY <1>1, <1>2, <1>4, <1>5
<1>7. \A e \in S : position <= e BY <1>1, <1>2, <1>4
<1>8. RecordEnd = Min(S) BY DEF RecordEnd, ends
<1> HIDE DEF S
<1>9. Min(S) \in S BY <1>6, LeastOf
<1> QED BY <1>6, <1>7, <1>8, <1>9

(* write_packed writes a chunk to the open shard.                          *)
LEMMA WriteChunkKeeps == ASSUME ScheduleInv, WriteChunk PROVE ScheduleInv'
<1> DEFINE take == Min({TokenEnd(sink), RecordEnd}) - position
           chunk == [k \in 1..take |-> Padded(position + k)]
<1>1. /\ CatalogOK /\ OrderInv /\ PackInv /\ UNCHANGED <<inputs, order, done, phase, sink>>
      /\ phase = "pack" /\ tasks' = tasks /\ position < TokenEnd(sink)
      /\ packed' = [packed EXCEPT ![sink + 1] = @ \o chunk]
      /\ position' = position + take
  BY DEF ScheduleInv, WriteChunk, inputs, Padded
<1>2. /\ CatalogOK' /\ OrderInv' /\ UNCHANGED <<Records, ShardCount, Range(order)>>
      /\ \A k : TokenStart(k)' = TokenStart(k) /\ TokenEnd(k)' = TokenEnd(k)
      /\ \A p : Padded(p)' = Padded(p)
  BY <1>1, InputsStay
<1>3. /\ sink \in Nat /\ position \in Nat /\ ShardCount \in Nat \ {0} /\ sink < ShardCount
      /\ TokenStart(sink) \in Nat /\ TokenEnd(sink) \in Nat /\ TokenStart(sink) <= position
  <2>1. sink \in Nat BY <1>1 DEF PackInv
  <2>2. sink + 1 \in Nat BY <2>1
  <2> QED BY <1>1, <2>1, <2>2, UpdateFacts, ShardFacts DEF PackInv
<1>4. take \in Nat /\ position + take <= TokenEnd(sink)
  <2> DEFINE S == {TokenEnd(sink), RecordEnd}
  <2>1. RecordEnd \in Nat /\ position <= RecordEnd BY <1>1, RecordEndIsAhead
  <2>2. S \subseteq Nat /\ S # {} BY <1>3, <2>1
  <2> HIDE DEF S
  <2>3. Min(S) \in S /\ \A y \in S : Min(S) <= y BY <2>2, LeastOf
  <2> DEFINE x == Min(S)
  <2>6. x \in S /\ \A y \in S : x <= y BY <2>3
  <2> HIDE DEF x
  <2>7. x <= TokenEnd(sink) /\ (x = TokenEnd(sink) \/ x = RecordEnd) BY <2>6 DEF S
  <2>8. x \in Nat /\ position <= x /\ x <= TokenEnd(sink)
    BY <1>1, <1>3, <2>1, <2>7
  <2>4. Min(S) \in Nat /\ position <= Min(S) /\ Min(S) <= TokenEnd(sink)
    BY <2>8 DEF x
  <2>5. take = Min(S) - position BY DEF S
  <2> QED BY <1>3, <2>4, <2>5
<1> HIDE DEF take
<1>5. sink + 1 \in 1..ShardCount /\ (sink + 1) - 1 = sink BY <1>3
<1>6. Filled(sink) = position - TokenStart(sink) /\ Filled(sink) \in Nat
  BY <1>3 DEF Filled
<1>7. Filled(sink)' = Filled(sink) + take
  BY <1>1, <1>2, <1>3, <1>4 DEF Filled
<1>8. packed[sink + 1] = Content(sink) BY <1>1, <1>5 DEF PackInv
<1>9. Content(sink) \o chunk = Content(sink)'
  <2> DEFINE a == Filled(sink)
             u == Content(sink)
             e == TokenStart(sink)
  <2>1. /\ u = [i \in 1..a |-> u[i]] /\ chunk = [i \in 1..take |-> chunk[i]]
        /\ \A i \in 1..a : u[i] = Padded(e + i)
        /\ \A i \in 1..take : chunk[i] = Padded(position + i)
    BY DEF Content
  <2>2. Content(sink)' = [i \in 1..(a + take) |-> Padded(e + i)]
    BY <1>1, <1>2, <1>7 DEF Content, TokenStart, UpdateStart, Updates, inputs
  <2>3. a \in Nat /\ e \in Nat /\ position = e + a BY <1>3, <1>6
  <2> HIDE DEF a, u, e, chunk
  <2>4. u \o chunk = [i \in 1..(a + take) |-> IF i <= a THEN u[i] ELSE chunk[i - a]]
    BY <1>4, <2>1, <2>3, Joined
  <2>5. ASSUME NEW i \in 1..(a + take) PROVE (IF i <= a THEN u[i] ELSE chunk[i - a]) = Padded(e + i)
    <3>1. CASE i <= a
      <4>1. i \in 1..a BY <2>3, <3>1
      <4> QED BY <2>1, <3>1, <4>1
    <3>2. CASE ~(i <= a)
      <4>1. i - a \in 1..take /\ position + (i - a) = e + i BY <1>4, <2>3, <3>2
      <4> QED BY <2>1, <3>2, <4>1
    <3> QED BY <3>1, <3>2
  <2>6. u \o chunk = [i \in 1..(a + take) |-> Padded(e + i)] BY <2>4, <2>5
  <2> QED BY <2>2, <2>6 DEF u
<1>10. ASSUME NEW k \in 1..ShardCount, k # sink + 1 PROVE Content(k - 1)' = Content(k - 1)
  <2>1. k - 1 # sink BY <1>3, <1>10
  <2>2. Filled(k - 1)' = Filled(k - 1) BY <1>1, <1>2, <2>1 DEF Filled
  <2> QED BY <1>2, <2>2 DEF Content
<1>11. packed' = [k \in 1..ShardCount |-> Content(k - 1)']
  <2>1. packed = [k \in 1..ShardCount |-> Content(k - 1)] BY <1>1 DEF PackInv
  <2>2. packed' = [k \in 1..ShardCount |-> IF k = sink + 1 THEN packed[sink + 1] \o chunk
                                           ELSE packed[k]]
    BY <1>1, <2>1
  <2>3. ASSUME NEW k \in 1..ShardCount
        PROVE  (IF k = sink + 1 THEN packed[sink + 1] \o chunk ELSE packed[k]) = Content(k - 1)'
    <3>1. CASE k = sink + 1
      <4>1. k - 1 = sink BY <1>5, <3>1
      <4>2. Content(k - 1)' = Content(sink)' BY <1>1, <4>1 DEF Content, Filled, TokenStart, UpdateStart
      <4> QED BY <1>8, <1>9, <3>1, <4>2
    <3>2. CASE k # sink + 1 BY <1>10, <2>1, <3>2
    <3> QED BY <3>1, <3>2
  <2> QED BY <2>2, <2>3
<1>12. PackInv'
  <2>1. packed' = [k \in 1..ShardCount |-> Content(k - 1)]' BY <1>2, <1>11
  <2>2. Range(order)' = Records' BY <1>1, <1>2 DEF PackInv
  <2>3. /\ sink' \in Nat /\ sink' < ShardCount' /\ position' \in Nat
        /\ TokenStart(sink)' <= position' /\ position' <= TokenEnd(sink)'
    <3>1. TokenStart(sink)' = TokenStart(sink) /\ TokenEnd(sink)' = TokenEnd(sink)
      BY <1>1, <1>2 DEF TokenStart, TokenEnd, UpdateStart, Updates, inputs
    <3> QED BY <1>1, <1>2, <1>3, <1>4, <3>1
  <2> QED BY <1>1, <2>1, <2>2, <2>3 DEF PackInv
<1>13. LanesAreLevel' BY <1>1 DEF LanesAreLevel
<1>14. done' \subseteq 0..(tasks' - 1) BY <1>1 DEF ScheduleInv
<1> QED BY <1>1, <1>2, <1>12, <1>13, <1>14 DEF ScheduleInv

(* Every shard has the length it was assigned.                             *)
LEMMA FinishPackKeeps == ASSUME ScheduleInv, FinishPack PROVE ScheduleInv'
<1>1. /\ CatalogOK /\ OrderInv /\ PackInv /\ UNCHANGED <<inputs, order, done, position, sink, packed>>
      /\ phase = "pack" /\ tasks' = tasks /\ sink + 1 = ShardCount /\ position = TokenEnd(sink)
  BY DEF ScheduleInv, FinishPack, inputs
<1>2. /\ CatalogOK' /\ OrderInv' /\ UNCHANGED <<Records, ShardCount, Range(order)>>
      /\ \A k : TokenStart(k)' = TokenStart(k) /\ TokenEnd(k)' = TokenEnd(k)
      /\ \A p : Padded(p)' = Padded(p)
  BY <1>1, InputsStay
<1>3. ASSUME NEW k \in 1..ShardCount PROVE Len(packed[k]) = TokenEnd(k - 1) - TokenStart(k - 1)
  <2>1. sink \in Nat /\ ShardCount \in Nat /\ k - 1 \in Nat /\ k - 1 <= sink
    BY <1>1, UpdateFacts DEF PackInv
  <2>2. Filled(k - 1) = TokenEnd(k - 1) - TokenStart(k - 1)
    BY <1>1, <2>1 DEF Filled
  <2>3. TokenEnd(k - 1) - TokenStart(k - 1) \in Nat
    <3>1. (k - 1) + 1 \in Nat BY <2>1
    <3>2. /\ TokenStart(k - 1) \in Nat /\ TokenEnd(k - 1) = TokenStart((k - 1) + 1)
          /\ TokenStart((k - 1) + 1) \in Nat /\ TokenStart(k - 1) < TokenEnd(k - 1)
      BY <1>1, <2>1, <3>1, ShardFacts
    <3> QED BY <3>2
  <2>4. packed[k] = Content(k - 1) BY <1>1 DEF PackInv
  <2>5. packed[k] = [i \in 1..(TokenEnd(k - 1) - TokenStart(k - 1)) |-> packed[k][i]]
    BY <2>2, <2>4 DEF Content
  <2> HIDE DEF PackInv
  <2> QED BY <2>3, <2>5, LenIs
<1>4. phase' = "packed" BY <1>3 DEF FinishPack
<1>5. PackInv'
  <2>1. \A k : Content(k)' = Content(k)
    BY <1>1, <1>2 DEF Content, Filled
  <2>2. packed' = [k \in 1..ShardCount |-> Content(k - 1)]' BY <1>1, <1>2, <2>1 DEF PackInv
  <2>3. Range(order)' = Records' BY <1>1, <1>2 DEF PackInv
  <2>4. TokenStart(sink)' = TokenStart(sink) /\ TokenEnd(sink)' = TokenEnd(sink)
      BY <1>1, <1>2 DEF TokenStart, TokenEnd, UpdateStart, Updates, inputs
  <2>5. /\ sink' \in Nat /\ sink' < ShardCount' /\ position' \in Nat
        /\ TokenStart(sink)' <= position' /\ position' <= TokenEnd(sink)'
    BY <1>1, <1>2, <2>4 DEF PackInv
  <2>6. sink' + 1 = ShardCount' /\ position' = TokenEnd(sink)' BY <1>1, <1>2, <2>4
  <2> QED BY <2>2, <2>3, <2>5, <2>6 DEF PackInv
<1>6. LanesAreLevel' BY <1>4 DEF LanesAreLevel
<1>7. done' \subseteq 0..(tasks' - 1) BY <1>1 DEF ScheduleInv
<1> QED BY <1>1, <1>2, <1>4, <1>5, <1>6, <1>7 DEF ScheduleInv

(* A step that changes none of the variables.                              *)
LEMMA StutterKeeps == ASSUME ScheduleInv, UNCHANGED scheduleVars PROVE ScheduleInv'
<1>1. UNCHANGED <<inputs, order, tasks, done, phase, position, sink, packed>>
  BY DEF scheduleVars, inputs
<1>2. /\ CatalogOK' /\ OrderInv' /\ UNCHANGED <<Records, TotalWeight, ShardCount, Active, Range(order)>>
      /\ \A k : TokenStart(k)' = TokenStart(k) /\ TokenEnd(k)' = TokenEnd(k)
      /\ \A l : Deficit(l)' = Deficit(l) /\ Emitted(l)' = Emitted(l)
      /\ \A p : Padded(p)' = Padded(p)
  BY <1>1, InputsStay DEF ScheduleInv
<1>3. LanesAreLevel'
  BY <1>1, <1>2 DEF ScheduleInv, LanesAreLevel
<1>4. ASSUME PackInv PROVE PackInv'
  <2>1. \A k : Content(k)' = Content(k) BY <1>1, <1>2 DEF Content, Filled
  <2>2. TokenStart(sink)' = TokenStart(sink) /\ TokenEnd(sink)' = TokenEnd(sink)
    BY <1>1, <1>2 DEF TokenStart, TokenEnd, UpdateStart, Updates, inputs
  <2> QED BY <1>1, <1>2, <1>4, <2>1, <2>2 DEF PackInv
<1> QED BY <1>1, <1>2, <1>3, <1>4 DEF ScheduleInv

(* Every step keeps the inductive invariant.                               *)
LEMMA ScheduleInvKept == ScheduleInv /\ [ScheduleNext]_scheduleVars => ScheduleInv'
<1> SUFFICES ASSUME ScheduleInv, [ScheduleNext]_scheduleVars PROVE ScheduleInv' OBVIOUS
<1>1. CASE TaskResult BY <1>1, TaskResultKeeps
<1>2. CASE Reduce BY <1>2, ReduceKeeps
<1>3. CASE Emit BY <1>3, EmitKeeps
<1>4. CASE OpenShards BY <1>4, OpenShardsKeeps
<1>5. CASE NextSink BY <1>5, NextSinkKeeps
<1>6. CASE WriteChunk BY <1>6, WriteChunkKeeps
<1>7. CASE FinishPack BY <1>7, FinishPackKeeps
<1>8. CASE UNCHANGED scheduleVars BY <1>8, StutterKeeps
<1> QED BY <1>1, <1>2, <1>3, <1>4, <1>5, <1>6, <1>7, <1>8 DEF ScheduleNext

(* The stream is as long as the records are together.                      *)
LEMMA StreamLength ==
  ASSUME CatalogOK, OrderInv, Range(order) = Records
  PROVE  Stream = [p \in 1..Total |-> Stream[p]]
<1> DEFINE n == Len(order)
           s == [k \in DOMAIN order |-> Tokens(order[k])]
           start == [k \in 0..n |-> SumFunctionOnSet(Lengths, 1..k)]
<1>1. /\ n \in Nat /\ DOMAIN order = 1..n
      /\ \A k \in DOMAIN order : Lengths[k] = length[order[k]] /\ Lengths[k] \in Nat
  BY OrderFacts
<1>2. SumFunctionOnSet(Lengths, 1..n) = Total
  <2>1. DOMAIN length = Records BY DEF Records
  <2> QED BY <1>1, <2>1 DEF OrderInv, Total, SumFunction
<1>3. n # 0
  <2>1. Total # 0 BY CatalogFacts
  <2>2. 1..0 = {} OBVIOUS
  <2> QED BY <1>2, <2>1, <2>2, SumOfNone
<1>4. Len(s) = n
  <2>1. s = [k \in 1..n |-> s[k]] BY <1>1
  <2> HIDE DEF s, n
  <2> QED BY <1>1, <2>1, LenIs
<1>5. ASSUME NEW k \in 0..n PROVE SumFunctionOnSet(Lengths, 1..k) \in Nat
  <2>1. IsFiniteSet(1..k) /\ 1..k \subseteq 1..n
    <3>1. k \in Int /\ n \in Int BY <1>1
    <3> QED BY <1>1, <3>1, FS_Interval
  <2> QED BY <1>1, <2>1, SumType
<1>6. start \in [0..n -> Nat] BY <1>5
<1>7. start[0] = 0
  <2>1. 1..0 = {} /\ 0 \in 0..n BY <1>1
  <2> QED BY <2>1, SumOfNone
<1>8. ASSUME NEW i \in 1..n
      PROVE  /\ start[i - 1] <= start[i]
             /\ s[i] = [j \in 1..(start[i] - start[i - 1]) |-> s[i][j]]
  <2>1. i - 1 \in 0..n /\ i \in 0..n /\ i \in 1..i /\ (1..i) \ {i} = 1..(i - 1) /\ 1..i \subseteq 1..n
    BY <1>1
  <2>2. IsFiniteSet(1..i) BY <1>1, FS_Interval
  <2>3. SumFunctionOnSet(Lengths, 1..i) = SumFunctionOnSet(Lengths, (1..i) \ {i}) + Lengths[i]
    BY <1>1, <2>1, <2>2, SumWith
  <2>4. start[i] = start[i - 1] + Lengths[i] BY <2>1, <2>3
  <2>5. start[i - 1] \in Nat /\ Lengths[i] \in Nat BY <1>1, <1>6, <2>1
  <2>6. s[i] = [j \in 1..Lengths[i] |-> s[i][j]] BY <1>1 DEF Tokens
  <2> DEFINE a == start[i - 1]
             b == start[i]
             c == Lengths[i]
  <2>7. b = a + c /\ a \in Nat /\ c \in Nat BY <2>4, <2>5
  <2> HIDE DEF a, b, c
  <2>8. a <= b /\ b - a = c BY <2>7
  <2> QED BY <2>6, <2>8 DEF a, b, c
<1>10. start[n] = Total BY <1>1, <1>2
<1>11. Stream = FlattenSeq(s) BY DEF Stream
<1>12. n \in Nat \ {0} BY <1>1, <1>3
<1> HIDE DEF s, start, n
<1>13. \A i \in 1..n : /\ start[i - 1] <= start[i]
                       /\ s[i] = [j \in 1..(start[i] - start[i - 1]) |-> s[i][j]]
  BY <1>8
<1>9. FlattenSeq(s) = [p \in 1..start[n] |-> FlattenSeq(s)[p]]
  BY <1>4, <1>6, <1>7, <1>12, <1>13, FlattenLength
<1> QED BY <1>9, <1>10, <1>11

(* The shards, one after the other, are the padded stream.                 *)
LEMMA AllPacked ==
  ASSUME ScheduleInv, phase = "packed"
  PROVE  /\ FlattenSeq(packed) = [p \in 1..(Updates * update) |-> Padded(p)]
         /\ Len(packed) = ShardCount
         /\ \A k \in 1..ShardCount : Len(packed[k]) = TokenEnd(k - 1) - TokenStart(k - 1)
<1> DEFINE n == ShardCount
           start == [k \in 0..n |-> TokenStart(k)]
           c == [p \in Nat |-> Padded(p)]
<1>1. CatalogOK /\ PackInv /\ n \in Nat \ {0} /\ sink + 1 = n /\ position = TokenEnd(sink) /\ sink \in Nat
  BY UpdateFacts DEF ScheduleInv, PackInv
<1>2. packed = [k \in 1..n |-> Content(k - 1)] BY <1>1 DEF PackInv
<1>3. Len(packed) = n
  <2>1. packed = [k \in 1..n |-> packed[k]] BY <1>2
  <2> HIDE DEF n
  <2> QED BY <1>1, <2>1, LenIs
<1>4. start \in [0..n -> Nat] /\ start[0] = 0
  <2>1. \A k \in 0..n : k \in Nat BY <1>1
  <2>2. 0 \in 0..n BY <1>1
  <2> QED BY <1>1, <2>1, <2>2, ShardFacts
<1>5. ASSUME NEW i \in 1..n
      PROVE  /\ start[i - 1] <= start[i]
             /\ packed[i] = [j \in 1..(start[i] - start[i - 1]) |-> c[start[i - 1] + j]]
             /\ Len(packed[i]) = TokenEnd(i - 1) - TokenStart(i - 1)
  <2>1. i - 1 \in 0..n /\ i \in 0..n /\ i - 1 \in Nat /\ i \in Nat /\ (i - 1) + 1 = i /\ i - 1 <= sink
    BY <1>1
  <2> DEFINE a == TokenStart(i - 1)
             b == TokenEnd(i - 1)
  <2>2. a \in Nat /\ b \in Nat /\ a < b /\ start[i - 1] = a /\ start[i] = b
    <3>1. TokenEnd(i - 1) = TokenStart((i - 1) + 1) BY <1>1, <2>1, ShardFacts
    <3> QED BY <1>1, <2>1, <3>1, ShardFacts
  <2>3. Filled(i - 1) = b - a BY <1>1, <2>1 DEF Filled
  <2>4. packed[i] = [j \in 1..(b - a) |-> Padded(a + j)] BY <1>2, <2>3 DEF Content
  <2> HIDE DEF a, b
  <2>5. \A j \in 1..(b - a) : Padded(a + j) = c[a + j]
    <3>1. \A j \in 1..(b - a) : a + j \in Nat BY <2>2
    <3> QED BY <3>1
  <2> HIDE DEF c
  <2>6. packed[i] = [j \in 1..(b - a) |-> c[a + j]] BY <2>4, <2>5
  <2>7. Len(packed[i]) = b - a
    <3>1. packed[i] = [j \in 1..(b - a) |-> packed[i][j]] BY <2>6
    <3>2. b - a \in Nat BY <2>2
    <3> QED BY <3>1, <3>2, LenIs
  <2> HIDE DEF start
  <2>8. start[i - 1] <= start[i] BY <2>2
  <2>9. packed[i] = [j \in 1..(start[i] - start[i - 1]) |-> c[start[i - 1] + j]]
    BY <2>2, <2>6
  <2> QED BY <2>7, <2>8, <2>9 DEF a, b
<1>6. start[n] = Updates * update
  <2>1. n \in 0..n /\ n - 1 \in Nat /\ (n - 1) + 1 = n BY <1>1
  <2>2. TokenEnd(n - 1) = TokenStart((n - 1) + 1) /\ TokenEnd(n - 1) = Updates * update
    BY <1>1, <2>1, ShardFacts
  <2> QED BY <2>1, <2>2
<1>9. Len(packed) = ShardCount
      /\ \A k \in 1..ShardCount : Len(packed[k]) = TokenEnd(k - 1) - TokenStart(k - 1)
  BY <1>3, <1>5
<1>10. \A i \in 1..n : /\ start[i - 1] <= start[i]
                       /\ packed[i] = [j \in 1..(start[i] - start[i - 1]) |-> packed[i][j]]
                       /\ \A j \in 1..(start[i] - start[i - 1]) : packed[i][j] = c[start[i - 1] + j]
  <2> HIDE DEF start, c, n
  <2> QED BY <1>5
<1>11. n \in Nat \ {0} BY <1>1
<1> HIDE DEF start, c, n
<1>7. /\ FlattenSeq(packed) = [p \in 1..start[n] |-> FlattenSeq(packed)[p]]
      /\ \A p \in 1..start[n] : FlattenSeq(packed)[p] = c[p]
  <2>1. IsCut(n, packed, start, c) BY <1>3, <1>4, <1>10, <1>11 DEF IsCut
  <2> QED BY <2>1, FlattenContent
<1>8. FlattenSeq(packed) = [p \in 1..(Updates * update) |-> Padded(p)]
  <2>1. \A p \in 1..(Updates * update) : c[p] = Padded(p) BY DEF c
  <2> QED BY <1>6, <1>7, <2>1
<1> QED BY <1>8, <1>9

(* The inductive invariant gives the property.                             *)
LEMMA ScheduleInvSuffices == ASSUME ScheduleInv PROVE PackedIsStream
<1>1. CatalogOK /\ OrderInv /\ LanesAreLevel /\ phase # "refused" BY DEF ScheduleInv
<1>2. ASSUME phase = "packed"
      PROVE  /\ \E pad \in 0..update - 1 : FlattenSeq(packed) = Stream \o [k \in 1..pad |-> Pad]
             /\ Len(order) = Cardinality(Records) /\ Range(order) = Records
             /\ \A j, k \in 1..Len(packed) :
                  /\ Len(packed[k]) > 0 /\ Len(packed[k]) % update = 0
                  /\ Len(packed[j]) - Len(packed[k]) <= update
  <2>1. Range(order) = Records BY <1>2 DEF ScheduleInv, PackInv
  <2>2. \E pad \in 0..update - 1 : FlattenSeq(packed) = Stream \o [k \in 1..pad |-> Pad]
    <3> DEFINE N == Updates * update
               d == N - Total
               t == [k \in 1..d |-> Pad]
    <3>1. /\ Total \in Nat /\ update \in Nat \ {0} /\ N \in Nat /\ Total <= N /\ N - Total < update
      BY <1>1, CatalogFacts, UpdateFacts
    <3>2. FlattenSeq(packed) = [p \in 1..N |-> Padded(p)] BY <1>2, AllPacked
    <3>3. Stream = [p \in 1..Total |-> Stream[p]] BY <1>1, <2>1, StreamLength
    <3> HIDE DEF N
    <3>4. d \in 0..update - 1 /\ d \in Nat /\ Total + d = N BY <3>1
    <3>5. t = [k \in 1..d |-> t[k]] /\ \A k \in 1..d : t[k] = Pad OBVIOUS
    <3> HIDE DEF t, d
    <3>6. Stream \o t = [p \in 1..N |-> IF p <= Total THEN Stream[p] ELSE t[p - Total]]
      BY <3>1, <3>3, <3>4, <3>5, Joined
    <3>7. ASSUME NEW p \in 1..N
          PROVE  (IF p <= Total THEN Stream[p] ELSE t[p - Total]) = Padded(p)
      <4>1. CASE p <= Total BY <4>1 DEF Padded
      <4>2. CASE ~(p <= Total)
        <5>1. p - Total \in 1..d BY <3>1, <3>4, <4>2
        <5> QED BY <3>5, <4>2, <5>1 DEF Padded
      <4> QED BY <4>1, <4>2
    <3>8. FlattenSeq(packed) = Stream \o t BY <3>2, <3>6, <3>7
    <3> QED BY <3>4, <3>8 DEF t
  <2>3. Len(order) = Cardinality(Records)
    <3>1. /\ Len(order) \in Nat /\ DOMAIN order = 1..Len(order) /\ IsFiniteSet(DOMAIN order)
      BY <1>1, OrderFacts
    <3>2. order \in [1..Len(order) -> Records]
      BY <1>1, <3>1, LenProperties DEF OrderInv
    <3>3. order \in Bijection(1..Len(order), Records)
      <4>1. order \in Injection(1..Len(order), Records)
        BY <1>1, <3>1, <3>2 DEF OrderInv, Injection, IsInjective
      <4>2. order \in Surjection(1..Len(order), Records)
        BY <2>1, <3>1, <3>2 DEF Range, Surjection
      <4> QED BY <4>1, <4>2 DEF Bijection
    <3> DEFINE m == Len(order)
    <3>4. m \in Nat /\ order \in Bijection(1..m, Records) BY <3>1, <3>3
    <3> HIDE DEF m
    <3>5. Cardinality(1..m) = m /\ IsFiniteSet(1..m) BY <3>4, FS_Interval
    <3>6. Cardinality(1..m) = Cardinality(Records)
      BY <3>4, <3>5, FS_Bijection DEF ExistsBijection
    <3> QED BY <3>5, <3>6 DEF m
  <2>4. ASSUME NEW j \in 1..Len(packed), NEW k \in 1..Len(packed)
        PROVE  /\ Len(packed[k]) > 0 /\ Len(packed[k]) % update = 0
               /\ Len(packed[j]) - Len(packed[k]) <= update
    <3> DEFINE a == Updates \div ShardCount
               x == Len(packed[j])
               y == Len(packed[k])
    <3>1. /\ Len(packed) = ShardCount /\ ShardCount \in Nat \ {0}
          /\ x = TokenEnd(j - 1) - TokenStart(j - 1)
          /\ y = TokenEnd(k - 1) - TokenStart(k - 1)
      BY <1>1, <1>2, AllPacked, UpdateFacts
    <3>2. j - 1 \in Nat /\ k - 1 \in Nat BY <3>1
    <3>3. /\ x \in {a * update, (a + 1) * update} /\ y \in {a * update, (a + 1) * update}
          /\ a \in Nat \ {0} /\ update \in Nat \ {0}
      BY <1>1, <3>1, <3>2, ShardFacts
    <3> HIDE DEF a, x, y
    <3>4. /\ (a + 1) * update = a * update + update /\ a * update \in Nat /\ a * update > 0
          /\ a * update = update * a + 0 /\ (a + 1) * update = update * (a + 1) + 0
      BY <3>3
    <3>5. (update * a + 0) % update = 0 /\ (update * (a + 1) + 0) % update = 0
      BY <3>3, DivModUnique
    <3>6. y % update = 0 BY <3>3, <3>4, <3>5
    <3>7. y > 0 /\ x - y <= update BY <3>3, <3>4
    <3> QED BY <3>6, <3>7 DEF x, y
  <2> QED BY <2>1, <2>2, <2>3, <2>4
<1> QED BY <1>1, <1>2 DEF PackedIsStream, StreamIsWhole

(* For any catalog, weights and counts: the shards are the records whole   *)
(* and in schedule order and less than an update of padding, level to one  *)
(* update, and the lanes are level while they are drawn from (schedule.py  *)
(* largest_deficit_schedule and assign_update_aligned_shards,              *)
(* publication.py _rerender_and_pack_pinned).                              *)
THEOREM PackedAlwaysStream == ScheduleSpec => []PackedIsStream
<1>1. ScheduleInit => ScheduleInv BY ScheduleStarts
<1> QED BY <1>1, ScheduleInvKept, ScheduleInvSuffices, PTL DEF ScheduleSpec

-----------------------------------------------------------------------------
(* The batches the 160m reader takes from its file.                        *)
PerEpoch == 1 + ((Size - Span - 1) \div Stride)

(* What a run is given: a corpus at least as large as a batch.             *)
ReaderShape ==
  /\ tier \in {"1b", "160m"}
  /\ \E k \in Nat : lens \in [1..k -> Nat]
  /\ ctx \in Nat \ {0} /\ rows \in Nat \ {0} /\ origin \in Nat
  /\ IF tier = "1b" THEN Size >= Stride ELSE Size > Span

(* Where the batch after some batches begins, and where they leave the     *)
(* cursor: the 160m reader stands at the end of its last batch until the   *)
(* next call takes it back to the start.                                   *)
StartOf(m) == IF tier = "1b" THEN origin + m * Stride ELSE (m % PerEpoch) * Stride

CursorAfter(m, c) ==
  IF tier = "1b" THEN c = origin + m * Stride
  ELSE \E q \in Nat : /\ c = q * Stride
                      /\ \/ q = m % PerEpoch
                         \/ q = PerEpoch /\ m % PerEpoch = 0

(* The targets of an uninterrupted run.                                    *)
Uninterrupted(n) == [i \in 1..n |-> Token(Nth(i))]

(* The position a checkpoint stands for.                                   *)
SavedAt == IF tier = "1b" THEN Migrated ELSE saved.cursor

(* What was trained is what an uninterrupted run trains in as many whole   *)
(* batches, and the cursor is where they leave it.                         *)
TrainedInv ==
  /\ weighted = trained
  /\ \E m \in Nat :
       /\ trained = Uninterrupted(m * Stride)
       /\ reader = "on" => CursorAfter(m, cursor)
  /\ reader = "on" /\ tier = "1b" => epoch = cursor \div Size

(* So is what a checkpoint stands for, which is not ahead of what was      *)
(* trained; the epoch agrees with the position, whichever of the two ways  *)
(* the cursor is counted in.                                               *)
SavedInv ==
  /\ saved \in [cursor : Nat, epoch : Nat, count : Nat]
  /\ \E m \in Nat : saved.count = m * Stride /\ CursorAfter(m, SavedAt)
  /\ saved.count <= Len(trained)
  /\ tier = "1b" => saved.epoch = Migrated \div Size

(* The inductive invariant.                                                *)
ReaderInv ==
  /\ ReaderShape
  /\ reader \in {"on", "off"} /\ cursor \in Nat /\ epoch \in Nat
  /\ TrainedInv /\ SavedInv

(* The facts about a run's shape that the steps need.                      *)
LEMMA ShapeFacts ==
  ASSUME ReaderShape
  PROVE  /\ Size \in Nat \ {0} /\ Stride \in Nat \ {0} /\ Span \in Nat /\ Span = Stride + rows
         /\ tier = "160m" => PerEpoch \in Nat \ {0}
<1>1. Size \in Nat
  <2>1. PICK k \in Nat : lens \in [1..k -> Nat] BY DEF ReaderShape
  <2>2. DOMAIN lens = 1..k /\ IsFiniteSet(1..k) BY <2>1, FS_Interval
  <2> QED BY <2>1, <2>2, SumType DEF Size, SumFunction
<1>2. rows * ctx \in Nat \ {0} /\ rows * (ctx + 1) = rows * ctx + rows /\ rows \in Nat \ {0}
  BY DEF ReaderShape
<1>3. Stride \in Nat \ {0} /\ Span = Stride + rows
  BY <1>2 DEF Stride, Span
<1>4. Span \in Nat BY <1>2, <1>3
<1>5. Size \in Nat \ {0}
  BY <1>1, <1>3, <1>4 DEF ReaderShape
<1>6. ASSUME tier = "160m" PROVE PerEpoch \in Nat \ {0}
  <2>1. Size - Span - 1 \in Nat BY <1>1, <1>4, <1>6 DEF ReaderShape
  <2>2. (Size - Span - 1) \div Stride \in Nat BY <2>1, <1>3, DivMod
  <2> QED BY <2>2 DEF PerEpoch
<1> QED BY <1>3, <1>4, <1>5, <1>6

(* The batches that end before the file does are those before the last     *)
(* (160m train/data.py next_batch).                                        *)
LEMMA LastBatch ==
  ASSUME ReaderShape, tier = "160m", NEW q \in Nat
  PROVE  /\ q < PerEpoch <=> q * Stride + Span < Size
         /\ q <= PerEpoch => q * Stride <= Size
<1> DEFINE d == Size - Span - 1
           e == d \div Stride
<1>1. Size \in Nat /\ Stride \in Nat \ {0} /\ Span \in Nat /\ Stride <= Span
  BY ShapeFacts DEF ReaderShape
<1>2. d \in Nat BY <1>1 DEF ReaderShape
<1>3. e \in Nat /\ d % Stride \in Nat /\ d % Stride < Stride /\ d = Stride * e + (d % Stride)
  BY <1>1, <1>2, DivMod
<1> HIDE DEF e
<1>4. PerEpoch = e + 1 BY <1>3 DEF PerEpoch, e
<1>5. e * Stride \in Nat /\ Stride * e = e * Stride /\ q * Stride \in Nat
      /\ (e + 1) * Stride = e * Stride + Stride
  BY <1>1, <1>3
<1>6. ASSUME q <= e PROVE q * Stride <= d
  <2>1. q * Stride <= e * Stride BY <1>1, <1>3, <1>6, ProductUp
  <2> QED BY <1>2, <1>3, <1>5, <2>1
<1>7. ASSUME q * Stride <= d PROVE q <= e
  <2> DEFINE r == d % Stride
  <2>3. d = Stride * e + r /\ r \in Nat /\ r < Stride BY <1>3
  <2> HIDE DEF d, r
  <2>1. q * Stride < (e + 1) * Stride BY <1>1, <1>2, <1>5, <1>7, <2>3
  <2>2. q < e + 1 BY <1>1, <1>3, <2>1, ProductDown
  <2> QED BY <1>3, <2>2
<1>8. ASSUME q <= e + 1 PROVE q * Stride <= Size
  <2>1. q * Stride <= (e + 1) * Stride BY <1>1, <1>3, <1>8, ProductUp
  <2> QED BY <1>1, <1>2, <1>3, <1>5, <2>1
<1> QED BY <1>1, <1>2, <1>3, <1>4, <1>5, <1>6, <1>7, <1>8

(* next_batch reads where the next batch of an uninterrupted run begins.   *)
LEMMA CursorStarts ==
  ASSUME ReaderShape, cursor \in Nat, NEW m \in Nat, CursorAfter(m, cursor)
  PROVE  BatchStart = StartOf(m) /\ StartOf(m) \in Nat
<1>1. Size \in Nat /\ Stride \in Nat \ {0} /\ Span \in Nat /\ origin \in Nat /\ m * Stride \in Nat
  BY ShapeFacts DEF ReaderShape
<1>2. CASE tier = "1b"
  BY <1>1, <1>2 DEF CursorAfter, StartOf, BatchStart
<1>3. CASE tier = "160m"
  <2>1. PerEpoch \in Nat \ {0} BY <1>3, ShapeFacts
  <2>2. m % PerEpoch \in Nat /\ m % PerEpoch < PerEpoch /\ 0 * Stride = 0
    BY <1>1, <2>1, DivMod
  <2>3. PICK q \in Nat : /\ cursor = q * Stride
                         /\ q = m % PerEpoch \/ (q = PerEpoch /\ m % PerEpoch = 0)
    BY <1>3 DEF CursorAfter
  <2>4. q < PerEpoch <=> cursor + Span < Size BY <1>3, <2>3, LastBatch
  <2>5. CASE q = m % PerEpoch
    <3>1. BatchStart = cursor BY <1>1, <1>3, <2>2, <2>4, <2>5 DEF BatchStart
    <3> QED BY <1>3, <2>3, <2>5, <3>1 DEF StartOf
  <2>6. CASE q = PerEpoch /\ m % PerEpoch = 0
    <3>1. BatchStart = 0 BY <1>1, <1>3, <2>1, <2>4, <2>6 DEF BatchStart
    <3>2. StartOf(m) = 0 BY <1>3, <2>2, <2>6 DEF StartOf
    <3> QED BY <3>1, <3>2
  <2> QED BY <2>3, <2>5, <2>6
<1> QED BY <1>2, <1>3 DEF ReaderShape

(* The batch leaves the cursor where the batch after it expects it.        *)
LEMMA CursorMoves ==
  ASSUME ReaderShape, NEW m \in Nat
  PROVE  CursorAfter(m + 1, StartOf(m) + Stride)
<1>0. Stride \in Nat \ {0} /\ origin \in Nat
  BY ShapeFacts DEF ReaderShape
<1>1. Stride \in Nat \ {0} /\ origin \in Nat /\ m * Stride \in Nat
      /\ (m + 1) * Stride = m * Stride + Stride
  BY <1>0
<1>2. CASE tier = "1b"
  BY <1>1, <1>2 DEF CursorAfter, StartOf
<1>3. CASE tier = "160m"
  <2> DEFINE P == PerEpoch
             r == m % P
             t == m \div P
  <2>1. P \in Nat \ {0} BY <1>3, ShapeFacts
  <2>2. r \in Nat /\ r < P /\ t \in Nat /\ m = P * t + r BY <2>1, DivMod
  <2>3. (r + 1) * Stride = StartOf(m) + Stride
    <3>1. (r + 1) * Stride = r * Stride + Stride BY <1>1, <2>2
    <3> QED BY <1>3, <3>1 DEF StartOf
  <2> HIDE DEF P, r, t
  <2>4. CASE r + 1 < P
    <3>1. m + 1 = P * t + (r + 1) BY <2>1, <2>2
    <3>2. (m + 1) % P = r + 1 BY <2>1, <2>2, <2>4, <3>1, DivModUnique
    <3> QED BY <1>3, <2>2, <2>3, <3>2 DEF CursorAfter, P
  <2>5. CASE r + 1 = P
    <3>1. m + 1 = P * (t + 1) + 0 BY <2>1, <2>2, <2>5
    <3>2. (m + 1) % P = 0 BY <2>1, <2>2, <3>1, DivModUnique
    <3> QED BY <1>3, <2>2, <2>3, <2>5, <3>2 DEF CursorAfter, P
  <2> QED BY <2>1, <2>2, <2>4, <2>5
<1> QED BY <1>2, <1>3 DEF ReaderShape

(* The targets of the batch are the next ones of an uninterrupted run.     *)
LEMMA BatchInOrder ==
  ASSUME ReaderShape, NEW m \in Nat, NEW j \in 1..Stride
  PROVE  Targets(StartOf(m))[j] = Token(Nth(m * Stride + j))
<1>1. Stride \in Nat \ {0} /\ origin \in Nat /\ m * Stride \in Nat /\ ctx \in Nat \ {0}
  BY ShapeFacts DEF ReaderShape
<1>2. Targets(StartOf(m))[j]
        = Token(StartOf(m) + j + (IF tier = "1b" THEN 0 ELSE (j - 1) \div ctx))
  BY DEF Targets
<1>3. CASE tier = "1b"
  <2>1. StartOf(m) + j + 0 = Nth(m * Stride + j) BY <1>1, <1>3 DEF StartOf, Nth
  <2> QED BY <1>2, <1>3, <2>1
<1>4. CASE tier = "160m"
  <2>1. PerEpoch \in Nat \ {0} BY <1>4, ShapeFacts
  <2>2. m % PerEpoch \in Nat BY <2>1, DivMod
  <2>3. (m % PerEpoch) * Stride \in Nat BY <1>1, <2>2
  <2>4. (m * Stride + j) - 1 = Stride * m + (j - 1) /\ j - 1 \in Nat /\ j - 1 < Stride
    BY <1>1
  <2>5. ((m * Stride + j) - 1) \div Stride = m /\ ((m * Stride + j) - 1) % Stride = j - 1
    BY <1>1, <2>4, DivModUnique
  <2>6. Nth(m * Stride + j)
          = (m % PerEpoch) * Stride + (j - 1) + ((j - 1) \div ctx) + 1
    BY <1>4, <2>5 DEF Nth, PerEpoch
  <2>7. (j - 1) \div ctx \in Nat BY <1>1, <2>4, DivMod
  <2>8. Nth(m * Stride + j) = StartOf(m) + j + ((j - 1) \div ctx)
    <3> DEFINE a == (m % PerEpoch) * Stride
               b == (j - 1) \div ctx
    <3>1. a \in Nat /\ b \in Nat /\ StartOf(m) = a BY <1>4, <2>3, <2>7 DEF StartOf
    <3>2. Nth(m * Stride + j) = a + (j - 1) + b + 1 BY <2>6
    <3> HIDE DEF a, b
    <3>3. Nth(m * Stride + j) = a + j + b BY <1>1, <3>1, <3>2
    <3> QED BY <3>1, <3>3 DEF a, b
  <2> QED BY <1>2, <1>4, <2>8
<1> QED BY <1>3, <1>4 DEF ReaderShape

(* The first elements of a sequence given by its elements.                 *)
LEMMA Prefix ==
  ASSUME NEW n \in Nat, NEW k \in Nat, k <= n, NEW s, s = [i \in 1..n |-> s[i]]
  PROVE  SubSeq(s, 1, k) = [i \in 1..k |-> s[i]]
OBVIOUS

(* A fresh run, or one from an older checkpoint.                           *)
LEMMA ReaderStarts == ASSUME ReaderInit PROVE ReaderInv
<1>1. ReaderShape
  <2>1. PICK k \in 1..MaxSegments : lens \in [1..k -> 1..MaxLength] BY DEF ReaderInit
  <2>2. k \in Nat /\ lens \in [1..k -> Nat] BY <2>1, ReaderAssumption
  <2>3. ctx \in Nat \ {0} /\ rows \in Nat \ {0} /\ tier \in {"1b", "160m"}
        /\ IF tier = "1b" THEN Size >= Stride ELSE Size > Span
    BY ReaderAssumption DEF ReaderInit
  <2>4. Size \in Nat
    <3>1. DOMAIN lens = 1..k /\ IsFiniteSet(1..k) BY <2>1, FS_Interval, ReaderAssumption
    <3> QED BY <2>2, <3>1, SumType DEF Size, SumFunction
  <2>5. origin \in Nat
    <3>1. CASE origin = 0 BY <3>1
    <3>2. CASE \E c \in 0..(Size - 1), e \in 1..2 : origin = e * Size + c BY <2>4, <3>2
    <3> QED BY <3>1, <3>2 DEF ReaderInit
  <2> QED BY <2>2, <2>3, <2>5 DEF ReaderShape
<1>2. Size \in Nat \ {0} /\ Stride \in Nat \ {0} /\ origin \in Nat /\ 0 * Stride = 0
  BY <1>1, ShapeFacts DEF ReaderShape
<1>3. TrainedInv
  <2>1. trained = Uninterrupted(0 * Stride) BY <1>2 DEF ReaderInit, Uninterrupted
  <2> QED BY <2>1 DEF TrainedInv, ReaderInit
<1>4. SavedInv
  <2>1. CASE saved = [cursor |-> 0, epoch |-> 0, count |-> 0] /\ origin = 0
    <3>1. Migrated = 0 /\ 0 \div Size = 0 BY <1>2, <2>1 DEF Migrated
    <3>2. tier = "160m" => 0 % PerEpoch = 0
      BY <1>1, ShapeFacts
    <3>3. CursorAfter(0, 0) BY <1>1, <1>2, <2>1, <3>2 DEF CursorAfter, ReaderShape
    <3>4. SavedAt = 0 BY <2>1, <3>1 DEF SavedAt
    <3>5. saved.count <= Len(trained) BY <2>1 DEF ReaderInit
    <3> QED BY <1>2, <2>1, <3>1, <3>3, <3>4, <3>5 DEF SavedInv
  <2>2. CASE tier = "1b" /\ \E c \in 0..(Size - 1), e \in 1..2 :
                 /\ saved = [cursor |-> c, epoch |-> e, count |-> 0]
                 /\ origin = e * Size + c
    <3>1. PICK c \in 0..(Size - 1), e \in 1..2 :
                 /\ saved = [cursor |-> c, epoch |-> e, count |-> 0]
                 /\ origin = e * Size + c
      BY <2>2
    <3>2. c \in Nat /\ c < Size /\ e \in Nat /\ e > 0 /\ e * Size = Size * e BY <1>2
    <3>3. Migrated = origin BY <1>2, <3>1, <3>2 DEF Migrated
    <3>4. (Size * e + c) \div Size = e BY <1>2, <3>2, DivModUnique
    <3>5. origin = Size * e + c BY <1>2, <3>1, <3>2
    <3>6. CursorAfter(0, SavedAt) BY <1>2, <2>2, <3>3 DEF CursorAfter, SavedAt
    <3>7. saved.count <= Len(trained) BY <3>1 DEF ReaderInit
    <3> QED BY <1>2, <3>1, <3>2, <3>3, <3>4, <3>5, <3>6, <3>7 DEF SavedInv
  <2> QED BY <2>1, <2>2 DEF ReaderInit
<1> QED BY <1>1, <1>3, <1>4 DEF ReaderInv, ReaderInit

(* A position is a number.                                                 *)
LEMMA CursorIsNat ==
  ASSUME ReaderShape, NEW m \in Nat, NEW c, CursorAfter(m, c)
  PROVE  c \in Nat
<1>1. Stride \in Nat \ {0} /\ origin \in Nat BY ShapeFacts DEF ReaderShape
<1> QED BY <1>1 DEF CursorAfter, ReaderShape

(* The 160m reader's cursor is one its load_state_dict accepts.            *)
LEMMA MultipleOfStride ==
  ASSUME ReaderShape, tier = "160m", NEW m \in Nat, NEW c, CursorAfter(m, c)
  PROVE  c <= Size /\ c % Stride = 0
<1>1. Stride \in Nat \ {0} /\ PerEpoch \in Nat \ {0} BY ShapeFacts
<1>2. m % PerEpoch \in Nat /\ m % PerEpoch < PerEpoch BY <1>1, DivMod
<1>3. PICK q \in Nat : c = q * Stride /\ (q = m % PerEpoch \/ q = PerEpoch)
  BY DEF CursorAfter
<1>4. q <= PerEpoch BY <1>1, <1>2, <1>3
<1>5. c <= Size BY <1>3, <1>4, LastBatch
<1>6. c = Stride * q + 0 BY <1>1, <1>3
<1>7. c % Stride = 0 BY <1>1, <1>6, DivModUnique
<1> QED BY <1>5, <1>7

(* load_state_dict accepts the checkpoint and takes the run back to it.    *)
LEMMA RestoreKeeps == ASSUME ReaderInv, Restore PROVE ReaderInv'
<1>1. /\ ReaderShape /\ TrainedInv /\ SavedInv
      /\ Stride \in Nat \ {0}
  BY ShapeFacts DEF ReaderInv
<1>2. PICK m \in Nat : trained = Uninterrupted(m * Stride) BY <1>1 DEF TrainedInv
<1>3. PICK k \in Nat : saved.count = k * Stride /\ CursorAfter(k, SavedAt) BY <1>1 DEF SavedInv
<1>4. Loadable
  <2>1. CASE tier = "1b" BY <1>1, <2>1 DEF Loadable, SavedInv
  <2>2. CASE tier = "160m"
    <3>1. CursorAfter(k, saved.cursor) BY <1>3, <2>2 DEF SavedAt
    <3> QED BY <1>1, <2>2, <3>1, MultipleOfStride DEF Loadable
  <2> QED BY <1>1, <2>1, <2>2 DEF ReaderShape
<1>5. /\ reader' = "on" /\ cursor' = SavedAt /\ epoch' = saved.epoch
      /\ trained' = SubSeq(trained, 1, saved.count)
      /\ weighted' = SubSeq(weighted, 1, saved.count)
      /\ UNCHANGED <<tier, lens, ctx, rows, origin, saved>>
  BY <1>4 DEF Restore, SavedAt, shape
<1>6. /\ ReaderShape' /\ UNCHANGED <<Size, Stride, Span, PerEpoch, SavedAt, Migrated>>
      /\ \A n, c : CursorAfter(n, c)' = CursorAfter(n, c)
      /\ \A n : Uninterrupted(n)' = Uninterrupted(n)
  BY <1>1, <1>5 DEF ReaderShape, Size, Stride, Span, PerEpoch, SavedAt, Migrated, CursorAfter,
        Uninterrupted, Token, End, Nth
<1>7. m * Stride \in Nat /\ k * Stride \in Nat BY <1>1
<1>8. trained = [i \in 1..(m * Stride) |-> trained[i]]
  BY <1>2 DEF Uninterrupted
<1>9. Len(trained) = m * Stride BY <1>7, <1>8, LenIs
<1>10. k * Stride <= m * Stride BY <1>1, <1>3, <1>9 DEF SavedInv
<1>11. trained' = [i \in 1..(k * Stride) |-> trained[i]]
  BY <1>3, <1>5, <1>7, <1>8, <1>10, Prefix
<1>12. trained' = Uninterrupted(k * Stride)
  BY <1>2, <1>7, <1>10, <1>11 DEF Uninterrupted
<1>13. Len(trained') = k * Stride
  BY <1>7, <1>11, LenIs
<1>14. TrainedInv'
  <2>1. weighted' = trained' BY <1>1, <1>5 DEF TrainedInv
  <2>2. trained' = Uninterrupted(k * Stride)' /\ CursorAfter(k, cursor)' 
    BY <1>3, <1>5, <1>6, <1>12 DEF CursorAfter
  <2>3. tier' = "1b" => epoch' = (cursor \div Size)'
    BY <1>1, <1>5, <1>6 DEF SavedInv, SavedAt
  <2>4. (m * Stride)' = m * Stride BY <1>6
  <2>5. trained' = Uninterrupted(k * Stride') /\ CursorAfter(k, cursor')
    BY <2>2, <1>3, <1>5, <1>6, <1>12
  <2> QED BY <2>1, <2>3, <2>2 DEF TrainedInv
<1>15. SavedInv'
  <2>1. saved'.count = (k * Stride)' /\ CursorAfter(k, SavedAt)'
    BY <1>3, <1>5, <1>6 DEF CursorAfter
  <2>2. saved'.count <= Len(trained') BY <1>3, <1>5, <1>7, <1>13
  <2>3. (tier = "1b" => saved.epoch = Migrated \div Size)'
    BY <1>1, <1>5, <1>6 DEF SavedInv
  <2>4. saved' \in [cursor : Nat, epoch : Nat, count : Nat]
    BY <1>1, <1>5 DEF SavedInv
  <2> QED BY <2>1, <2>2, <2>3, <2>4 DEF SavedInv
<1>16. cursor' \in Nat /\ epoch' \in Nat
  BY <1>1, <1>3, <1>5, CursorIsNat DEF SavedInv
<1> QED BY <1>5, <1>6, <1>14, <1>15, <1>16 DEF ReaderInv

(* What depends on a run's shape only.                                     *)
LEMMA ShapeStays ==
  ASSUME ReaderShape, UNCHANGED <<tier, lens, ctx, rows, origin>>
  PROVE  /\ ReaderShape' /\ UNCHANGED <<Size, Stride, Span, PerEpoch>>
         /\ \A n, c : CursorAfter(n, c)' = CursorAfter(n, c)
         /\ \A n : Uninterrupted(n)' = Uninterrupted(n)
BY DEF ReaderShape, Size, Stride, Span, PerEpoch, CursorAfter, Uninterrupted, Token, End, Nth

(* next_batch returns a batch and the weights of the same tokens.          *)
LEMMA NextBatchKeeps == ASSUME ReaderInv, NextBatch PROVE ReaderInv'
<1>1. /\ ReaderShape /\ TrainedInv /\ SavedInv /\ reader = "on" /\ cursor \in Nat
      /\ Stride \in Nat \ {0} /\ Size \in Nat \ {0} /\ epoch \in Nat
  BY ShapeFacts DEF ReaderInv, NextBatch
<1>2. PICK m \in Nat : trained = Uninterrupted(m * Stride) /\ CursorAfter(m, cursor)
  BY <1>1 DEF TrainedInv
<1>3. UNCHANGED <<tier, lens, ctx, rows, origin, reader, saved>>
  BY DEF NextBatch, shape
<1>4. BatchStart = StartOf(m) /\ StartOf(m) \in Nat
  BY <1>1, <1>2, CursorStarts
<1>5. /\ ReaderShape' /\ UNCHANGED <<Size, Stride, Span, PerEpoch>>
      /\ \A n : Uninterrupted(n)' = Uninterrupted(n)
  BY <1>1, <1>3, ShapeStays
<1>6. cursor' = StartOf(m) + Stride BY <1>4 DEF NextBatch
<1>7. cursor' \in Nat /\ WeightStart(cursor') = StartOf(m)
  BY <1>1, <1>4, <1>6 DEF WeightStart
<1>8. trained' = trained \o Targets(StartOf(m)) /\ weighted' = trained'
  BY <1>1, <1>4, <1>7 DEF NextBatch, TrainedInv
<1>9. /\ m * Stride \in Nat /\ (m + 1) * Stride = m * Stride + Stride
  BY <1>1
<1>10. trained' = Uninterrupted((m + 1) * Stride)
  <2> DEFINE t == Targets(StartOf(m))
  <2>1. trained = [i \in 1..(m * Stride) |-> trained[i]] BY <1>2 DEF Uninterrupted
  <2>2. t = [i \in 1..Stride |-> t[i]] BY DEF Targets
  <2>3. \A j \in 1..Stride : t[j] = Token(Nth(m * Stride + j))
    BY <1>1, BatchInOrder
  <2>4. \A i \in 1..(m * Stride) : trained[i] = Token(Nth(i)) BY <1>2 DEF Uninterrupted
  <2> HIDE DEF t
  <2>5. trained \o t = [i \in 1..(m * Stride + Stride) |->
                           IF i <= m * Stride THEN trained[i] ELSE t[i - m * Stride]]
    <3> DEFINE n == m * Stride
               d == Stride
    <3>1. n \in Nat /\ d \in Nat BY <1>1, <1>9
    <3>2. trained = [i \in 1..n |-> trained[i]] /\ t = [i \in 1..d |-> t[i]] BY <2>1, <2>2
    <3> HIDE DEF n, d
    <3>3. trained \o t = [i \in 1..(n + d) |-> IF i <= n THEN trained[i] ELSE t[i - n]]
      BY <3>1, <3>2, Joined
    <3> QED BY <3>3 DEF n, d
  <2>6. ASSUME NEW i \in 1..(m * Stride + Stride)
        PROVE  (IF i <= m * Stride THEN trained[i] ELSE t[i - m * Stride]) = Token(Nth(i))
    <3>1. CASE i <= m * Stride BY <2>4, <3>1
    <3>2. CASE ~(i <= m * Stride)
      <4>1. i - m * Stride \in 1..Stride /\ m * Stride + (i - m * Stride) = i
        BY <1>1, <1>9, <3>2
      <4> QED BY <2>3, <3>2, <4>1
    <3> QED BY <3>1, <3>2
  <2>7. trained \o t = [i \in 1..(m * Stride + Stride) |-> Token(Nth(i))]
    BY <2>5, <2>6
  <2> QED BY <1>8, <1>9, <2>7 DEF Uninterrupted, t
<1>11. CursorAfter(m + 1, cursor')
  BY <1>1, <1>6, CursorMoves
<1>12. Len(trained) <= Len(trained')
  <2>1. Len(trained) = m * Stride /\ Len(trained') = (m + 1) * Stride
    <3>1. /\ trained = [i \in 1..(m * Stride) |-> trained[i]]
          /\ trained' = [i \in 1..((m + 1) * Stride) |-> trained'[i]]
      BY <1>2, <1>10 DEF Uninterrupted
    <3>2. (m + 1) * Stride \in Nat BY <1>1, <1>9
    <3> QED BY <1>9, <3>1, <3>2, LenIs
  <2> QED BY <1>1, <1>9, <2>1
<1>13. tier = "1b" => epoch' = cursor' \div Size BY DEF NextBatch
<1>14. epoch' \in Nat
  <2>1. CASE tier = "1b" BY <1>1, <1>7, <1>13, <2>1, DivMod
  <2>2. CASE tier # "1b" BY <1>1, <2>2 DEF NextBatch
  <2> QED BY <2>1, <2>2
<1>15. TrainedInv'
  <2>1. trained' = Uninterrupted((m + 1) * Stride)' BY <1>5, <1>10 DEF Uninterrupted
  <2>2. CursorAfter(m + 1, cursor)' BY <1>3, <1>5, <1>11 DEF CursorAfter
  <2>3. (tier = "1b" => epoch = cursor \div Size)' BY <1>3, <1>5, <1>13
  <2>4. m + 1 \in Nat OBVIOUS
  <2> QED BY <1>8, <2>1, <2>2, <2>3, <2>4 DEF TrainedInv
<1>16. SavedInv'
  <2>1. PICK k \in Nat : saved.count = k * Stride /\ CursorAfter(k, SavedAt) BY <1>1 DEF SavedInv
  <2>2. UNCHANGED <<Migrated, SavedAt>> BY <1>3, <1>5 DEF Migrated, SavedAt
  <2>3. CursorAfter(k, SavedAt)' /\ saved'.count = (k * Stride)'
    BY <1>3, <1>5, <2>1, <2>2 DEF CursorAfter
  <2>4. saved'.count <= Len(trained')
    <3>1. saved.count \in Nat /\ saved.count <= Len(trained) BY <1>1 DEF SavedInv
    <3>2. Len(trained) = m * Stride
      <4>1. trained = [i \in 1..(m * Stride) |-> trained[i]] BY <1>2 DEF Uninterrupted
      <4> QED BY <1>9, <4>1, LenIs
    <3>3. Len(trained') \in Nat
      <4>1. trained' = [i \in 1..((m + 1) * Stride) |-> trained'[i]] BY <1>10 DEF Uninterrupted
      <4>2. (m + 1) * Stride \in Nat BY <1>1, <1>9
      <4> QED BY <4>1, <4>2, LenIs
    <3> QED BY <1>3, <1>9, <1>12, <3>1, <3>2, <3>3
  <2>5. (tier = "1b" => saved.epoch = Migrated \div Size)'
    BY <1>1, <1>3, <1>5, <2>2 DEF SavedInv
  <2>6. saved' \in [cursor : Nat, epoch : Nat, count : Nat] BY <1>1, <1>3 DEF SavedInv
  <2> QED BY <2>3, <2>4, <2>5, <2>6 DEF SavedInv
<1> QED BY <1>1, <1>3, <1>5, <1>7, <1>14, <1>15, <1>16 DEF ReaderInv

(* state_dict goes into a checkpoint; a cursor it writes is never taken    *)
(* for one counted within the epoch.                                       *)
LEMMA SaveKeeps == ASSUME ReaderInv, Save PROVE ReaderInv'
<1>1. /\ ReaderShape /\ TrainedInv /\ reader = "on" /\ cursor \in Nat /\ epoch \in Nat
      /\ Stride \in Nat \ {0} /\ Size \in Nat \ {0}
  BY ShapeFacts DEF ReaderInv, Save
<1>2. PICK m \in Nat : trained = Uninterrupted(m * Stride) /\ CursorAfter(m, cursor)
  BY <1>1 DEF TrainedInv
<1>3. /\ UNCHANGED <<tier, lens, ctx, rows, origin, reader, cursor, epoch, trained, weighted>>
      /\ saved' = [cursor |-> cursor, epoch |-> epoch, count |-> Len(trained)]
  BY DEF Save, shape
<1>4. ReaderShape' /\ UNCHANGED <<Size, Stride, Span, PerEpoch>>
      /\ \A n : Uninterrupted(n)' = Uninterrupted(n)
  BY <1>1, <1>3, ShapeStays
<1>5. Len(trained) = m * Stride /\ m * Stride \in Nat
  <2>1. trained = [i \in 1..(m * Stride) |-> trained[i]] BY <1>2 DEF Uninterrupted
  <2>2. m * Stride \in Nat BY <1>1
  <2> QED BY <2>1, <2>2, LenIs
<1>6. tier = "1b" => epoch = cursor \div Size BY <1>1 DEF TrainedInv
<1>7. tier = "1b" => Migrated' = cursor
  <2>1. ASSUME tier = "1b", epoch > 0 PROVE ~(cursor < Size)
    <3>1. SUFFICES ASSUME cursor < Size PROVE FALSE OBVIOUS
    <3>2. cursor = Size * 0 + cursor BY <1>1
    <3>3. cursor \div Size = 0 BY <1>1, <3>1, <3>2, DivModUnique
    <3> QED BY <1>6, <2>1, <3>3
  <2> QED BY <1>1, <1>3, <1>4, <2>1 DEF Migrated
<1>8. SavedAt' = cursor BY <1>3, <1>7 DEF SavedAt
<1>9. TrainedInv'
  <2>1. trained' = Uninterrupted(m * Stride)' /\ CursorAfter(m, cursor)'
    BY <1>2, <1>3, <1>4 DEF CursorAfter, Uninterrupted
  <2>2. (tier = "1b" => epoch = cursor \div Size)' BY <1>3, <1>4, <1>6
  <2> QED BY <1>1, <1>3, <2>1, <2>2 DEF TrainedInv
<1>10. SavedInv'
  <2>1. saved'.count = (m * Stride)' /\ CursorAfter(m, SavedAt)'
    BY <1>2, <1>3, <1>4, <1>5, <1>8 DEF CursorAfter
  <2>2. saved'.count <= Len(trained') BY <1>3, <1>5
  <2>3. (tier = "1b" => saved.epoch = Migrated \div Size)' BY <1>3, <1>4, <1>6, <1>7
  <2>4. saved' \in [cursor : Nat, epoch : Nat, count : Nat] BY <1>1, <1>3, <1>5
  <2> QED BY <2>1, <2>2, <2>3, <2>4 DEF SavedInv
<1> QED BY <1>1, <1>3, <1>4, <1>9, <1>10 DEF ReaderInv

(* The trainer is killed, or nothing changes.                              *)
LEMMA FrameKeeps ==
  ASSUME ReaderInv, UNCHANGED <<shape, cursor, epoch, trained, weighted, saved>>,
         reader' = reader \/ reader' = "off"
  PROVE  ReaderInv'
<1>1. /\ ReaderShape /\ TrainedInv /\ SavedInv
      /\ UNCHANGED <<tier, lens, ctx, rows, origin>>
  BY DEF ReaderInv, shape
<1>2. ReaderShape' /\ UNCHANGED <<Size, Stride, Span, PerEpoch>>
      /\ \A n : Uninterrupted(n)' = Uninterrupted(n)
  BY <1>1, ShapeStays
<1>3. TrainedInv'
  <2>1. PICK m \in Nat : /\ trained = Uninterrupted(m * Stride)
                         /\ reader = "on" => CursorAfter(m, cursor)
    BY <1>1 DEF TrainedInv
  <2>2. trained' = Uninterrupted(m * Stride)' /\ (reader' = "on" => CursorAfter(m, cursor)')
    BY <1>1, <1>2, <2>1 DEF CursorAfter, Uninterrupted
  <2>3. (reader = "on" /\ tier = "1b" => epoch = cursor \div Size)'
    BY <1>1, <1>2 DEF TrainedInv
  <2> QED BY <1>1, <2>2, <2>3 DEF TrainedInv
<1>4. SavedInv'
  <2>1. PICK k \in Nat : saved.count = k * Stride /\ CursorAfter(k, SavedAt) BY <1>1 DEF SavedInv
  <2>2. UNCHANGED <<Migrated, SavedAt>> BY <1>1, <1>2 DEF Migrated, SavedAt
  <2>3. CursorAfter(k, SavedAt)' /\ saved'.count = (k * Stride)'
    BY <1>1, <1>2, <2>1, <2>2 DEF CursorAfter
  <2>4. (tier = "1b" => saved.epoch = Migrated \div Size)'
    BY <1>1, <1>2, <2>2 DEF SavedInv
  <2> QED BY <1>1, <2>3, <2>4 DEF SavedInv
<1> QED BY <1>2, <1>3, <1>4 DEF ReaderInv

(* Every step keeps the inductive invariant.                               *)
LEMMA ReaderInvKept == ReaderInv /\ [ReaderNext]_readerVars => ReaderInv'
<1> SUFFICES ASSUME ReaderInv, [ReaderNext]_readerVars PROVE ReaderInv' OBVIOUS
<1>1. CASE Restore BY <1>1, RestoreKeeps
<1>2. CASE NextBatch BY <1>2, NextBatchKeeps
<1>3. CASE Save BY <1>3, SaveKeeps
<1>4. CASE KillTrainer BY <1>4, FrameKeeps DEF KillTrainer
<1>5. CASE UNCHANGED readerVars BY <1>5, FrameKeeps DEF readerVars
<1> QED BY <1>1, <1>2, <1>3, <1>4, <1>5 DEF ReaderNext

(* The inductive invariant gives the property.                             *)
LEMMA ReaderInvSuffices == ASSUME ReaderInv PROVE TargetsInOrder
<1>1. Stride \in Nat \ {0} /\ TrainedInv /\ reader # "refused" BY ShapeFacts DEF ReaderInv
<1>2. PICK m \in Nat : trained = Uninterrupted(m * Stride) BY <1>1 DEF TrainedInv
<1>3. DOMAIN trained = 1..(m * Stride) BY <1>2 DEF Uninterrupted
<1> QED BY <1>1, <1>2, <1>3 DEF TargetsInOrder, TrainedInv, Uninterrupted

(* For any segments, batch shapes and numbers of batches and kills, in     *)
(* both tiers: the targets are those of an uninterrupted run, in order,    *)
(* each with its own weight, and no checkpoint the run wrote is refused    *)
(* (train/data.py of both tiers).                                          *)
THEOREM TargetsAlwaysInOrder == ReaderSpec => []TargetsInOrder
<1>1. ReaderInit => ReaderInv BY ReaderStarts
<1> QED BY <1>1, ReaderInvKept, ReaderInvSuffices, PTL DEF ReaderSpec
=============================================================================
