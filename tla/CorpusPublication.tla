-------------------------- MODULE CorpusPublication --------------------------
(***************************************************************************)
(* corpusgen/parallel/publication.py: builders of one destination make a   *)
(* stage directory of their build id, mark it theirs, fill it in a fixed   *)
(* order, write its receipt, take the mark off and rename it to the        *)
(* output.  A builder may be killed between two effects; a later call is   *)
(* to resume from the stage.  All of it runs under a flock on the parent   *)
(* directory, except a first look at the output.                           *)
(*                                                                         *)
(* The bytes of an artifact are a function of the build id: rendering and  *)
(* packing are TaskWorkspace's and CorpusSchedule's matter.  The tombstone *)
(* directory is that of TaskWorkspace; its admission never refuses here.   *)
(***************************************************************************)
EXTENDS Naturals, Sequences, FiniteSets

CONSTANTS Builders, Builds, BuildOf,
          Foundation,   \* the catalog, metadata, schedule and assignments files
          Shards,       \* the shard files, the sidecars' included
          MaxKills,
          Nothing

ASSUME PublicationAssumption ==
  /\ BuildOf \in [Builders -> Builds]
  /\ Foundation \in Seq(STRING) /\ Shards \in Seq(STRING)
  /\ MaxKills \in Nat
  /\ Nothing \notin Builds /\ Nothing \notin Builders

VARIABLES
  output,    \* what the output path leads to: a stage with its build, or Nothing
  stage,     \* build -> its stage directory, or Nothing
  tomb,      \* the tombstone directory: absent, bare, ready
  retained,  \* files renamed into it
  holder,    \* builder holding the parent's flock, or Nothing
  pc, at,    \* per builder: next step, artifacts done
  last,      \* how its last call ended
  kills

vars == <<output, stage, tomb, retained, holder, pc, at, last, kills>>

Artifacts == Foundation \o Shards
Needed    == {Artifacts[k] : k \in 1..Len(Artifacts)}
NewStage  == [files |-> {}, temps |-> {}, mark |-> "none"]

Stage(b)  == stage[BuildOf[b]]
Become(b, s) == stage' = [stage EXCEPT ![BuildOf[b]] = s]
Goto(b, s)   == pc' = [pc EXCEPT ![b] = s]

Return(b, how) ==
  /\ Goto(b, "idle")
  /\ at' = [at EXCEPT ![b] = 0]
  /\ last' = [last EXCEPT ![b] = how]
  /\ holder' = IF holder = b THEN Nothing ELSE holder

Continue(b, s) == Goto(b, s) /\ UNCHANGED <<at, last, holder>>

(* _verify_parallel_corpus_fd: exactly the artifacts the receipt names,    *)
(* and the mark only where it is allowed.                                  *)
Verifies(s, marked) ==
  /\ s.files = Needed \cup {"receipt"} /\ s.temps = {}
  /\ s.mark = IF marked THEN "there" ELSE "none"

(* _validate_stage_namespace: a temporary of the mark is foreign.          *)
ValidNamespace(s) == s.mark # "temp"

-----------------------------------------------------------------------------
Init ==
  /\ output = Nothing
  /\ stage = [d \in Builds |-> Nothing]
  /\ tomb = "absent" /\ retained = 0
  /\ holder = Nothing
  /\ pc = [b \in Builders |-> "idle"] /\ at = [b \in Builders |-> 0]
  /\ last = [b \in Builders |-> "none"]
  /\ kills = 0

Call(b) ==
  /\ pc[b] = "idle" /\ last[b] \notin {"ok", "conflict"}
  /\ Continue(b, "look")
  /\ UNCHANGED <<output, stage, tomb, retained, kills>>

(* An output taken for the answer whatever its build.                      *)
AnswerAny(b) == Return(b, IF Verifies(output, FALSE) THEN "ok" ELSE "conflict")

(* An output that is there is verified and is the answer, or a conflict.   *)
Answer(b) ==
  Return(b, IF output.build = BuildOf[b] /\ Verifies(output, FALSE)
            THEN "ok" ELSE "conflict")

Look(b) ==
  /\ pc[b] = "look"
  /\ IF output # Nothing THEN Answer(b) ELSE Continue(b, "flock")
  /\ UNCHANGED <<output, stage, tomb, retained, kills>>

Flock(b) ==
  /\ pc[b] = "flock" /\ holder = Nothing
  /\ holder' = b
  /\ Goto(b, "look again")
  /\ UNCHANGED <<output, stage, tomb, retained, at, last, kills>>

(* A conflicting output taken away.                                        *)
LookAgainReplaces(b) ==
  /\ pc[b] = "look again"
  /\ IF output # Nothing /\ output.build = BuildOf[b]
     THEN Answer(b) /\ UNCHANGED output
     ELSE Continue(b, "tombs") /\ output' = Nothing
  /\ UNCHANGED <<stage, tomb, retained, kills>>

LookAgain(b) ==
  /\ pc[b] = "look again"
  /\ IF output # Nothing THEN Answer(b) ELSE Continue(b, "tombs")
  /\ UNCHANGED <<output, stage, tomb, retained, kills>>

(* open_tombstone_directory.                                               *)
OpenTombs(b) ==
  /\ \/ /\ pc[b] = "tombs" /\ tomb = "absent"
        /\ tomb' = "bare" /\ Continue(b, "fill tombs")
     \/ /\ pc[b] = "fill tombs"
        /\ tomb' = "ready" /\ Continue(b, "find stage")
     \/ /\ pc[b] = "tombs" /\ tomb # "absent"
        /\ IF tomb = "ready" THEN Continue(b, "find stage")
                             ELSE Return(b, "orphaned")
        /\ UNCHANGED tomb
  /\ UNCHANGED <<output, stage, retained, kills>>

(* The mark required of every stage, also of one ready to be published.    *)
FindStageNeedsMark(b) ==
  LET s == Stage(b)
  IN  /\ pc[b] = "find stage"
      /\ \/ /\ s = Nothing
            /\ Become(b, NewStage)
            /\ Continue(b, "mark")
         \/ /\ s # Nothing
            /\ IF s.mark # "there" THEN Return(b, "orphaned")
               ELSE Continue(b, IF "receipt" \in s.files THEN "unmark" ELSE "clean")
            /\ UNCHANGED stage
      /\ UNCHANGED <<output, tomb, retained, kills>>

(* A stage that is there: one with a receipt only needs publishing, any    *)
(* other has to be marked.                                                 *)
FindStage(b) ==
  LET s == Stage(b)
  IN  /\ pc[b] = "find stage"
      /\ \/ /\ s = Nothing
            /\ Become(b, NewStage)
            /\ Continue(b, "mark")
         \/ /\ s # Nothing
            /\ IF ~ValidNamespace(s) THEN Return(b, "orphaned")
               ELSE IF "receipt" \in s.files
               THEN IF Verifies(s, s.mark = "there")
                    THEN Continue(b, IF s.mark = "there" THEN "unmark" ELSE "rename")
                    ELSE Return(b, "error")
               ELSE IF s.mark = "there" THEN Continue(b, "clean")
               ELSE Return(b, "orphaned")
            /\ UNCHANGED stage
      /\ UNCHANGED <<output, tomb, retained, kills>>

(* _prepare_staging.                                                       *)
Mark(b) ==
  /\ \/ /\ pc[b] = "mark"
        /\ Become(b, [Stage(b) EXCEPT !.mark = "temp"])
        /\ Continue(b, "install mark")
     \/ /\ pc[b] = "install mark"
        /\ Become(b, [Stage(b) EXCEPT !.mark = "there"])
        /\ Continue(b, "clean")
  /\ UNCHANGED <<output, tomb, retained, kills>>

Clean(b) ==
  /\ pc[b] = "clean"
  /\ IF Stage(b).temps = {}
     THEN Continue(b, "write") /\ UNCHANGED <<stage, retained>>
     ELSE \E t \in Stage(b).temps :
            /\ Become(b, [Stage(b) EXCEPT !.temps = @ \ {t}])
            /\ retained' = retained + 1
            /\ Continue(b, "clean")
  /\ UNCHANGED <<output, tomb, kills>>

(* The next artifact.  atomic_write_or_match leaves a foundation file that *)
(* is there alone; a shard is always written again, to a temporary.        *)
NextFile(b) == IF at[b] < Len(Artifacts) THEN Artifacts[at[b] + 1] ELSE "receipt"

Advance(b) == IF at[b] < Len(Artifacts) THEN "write" ELSE "unmark"

IsShard(f) == \E k \in 1..Len(Shards) : Shards[k] = f

Write(b) ==
  LET f == NextFile(b)
  IN  /\ pc[b] = "write"
      /\ IF f \in Stage(b).files /\ ~IsShard(f)
         THEN /\ Goto(b, Advance(b)) /\ at' = [at EXCEPT ![b] = @ + 1]
              /\ UNCHANGED <<stage, last, holder>>
         ELSE IF f = "receipt" /\ Stage(b).files # Needed
         THEN Return(b, "error") /\ UNCHANGED stage
         ELSE /\ Become(b, [Stage(b) EXCEPT !.temps = @ \cup {f}])
              /\ Continue(b, "install")
      /\ UNCHANGED <<output, tomb, retained, kills>>

(* AtomicFileWriter.finish: no-replace; a shard already there matches and  *)
(* the temporary is retained.                                              *)
Install(b) ==
  LET f == NextFile(b)
  IN  /\ pc[b] = "install"
      /\ Become(b, [Stage(b) EXCEPT !.temps = @ \ {f}, !.files = @ \cup {f}])
      /\ retained' = IF f \in Stage(b).files THEN retained + 1 ELSE retained
      /\ Goto(b, Advance(b)) /\ at' = [at EXCEPT ![b] = @ + 1]
      /\ UNCHANGED <<output, tomb, last, holder, kills>>

(* The mark goes once the stage verifies with it, and the stage verifies   *)
(* again without it.                                                       *)
Unmark(b) ==
  /\ pc[b] = "unmark"
  /\ IF Verifies(Stage(b), TRUE)
     THEN /\ Become(b, [Stage(b) EXCEPT !.mark = "none"])
          /\ retained' = retained + 1
          /\ Continue(b, "rename")
     ELSE Return(b, "error") /\ UNCHANGED <<stage, retained>>
  /\ UNCHANGED <<output, tomb, kills>>

(* _publish_staging: an output that got there first keeps its place, and   *)
(* the stage its mark.                                                     *)
Publish(b) ==
  /\ pc[b] = "rename"
  /\ IF output = Nothing
     THEN /\ output' = [build |-> BuildOf[b], files |-> Stage(b).files,
                        temps |-> Stage(b).temps, mark |-> Stage(b).mark]
          /\ Become(b, Nothing)
          /\ Return(b, "ok")
     ELSE /\ Become(b, [Stage(b) EXCEPT !.mark = "there"])
          /\ Answer(b)
          /\ UNCHANGED output
  /\ UNCHANGED <<tomb, retained, kills>>

Kill(b) ==
  /\ pc[b] # "idle" /\ kills < MaxKills
  /\ kills' = kills + 1
  /\ Return(b, "killed")
  /\ UNCHANGED <<output, stage, tomb, retained>>

Step(b) ==
  \/ Call(b) \/ Look(b) \/ Flock(b) \/ LookAgain(b) \/ OpenTombs(b)
  \/ FindStage(b) \/ Mark(b) \/ Clean(b) \/ Write(b) \/ Install(b)
  \/ Unmark(b) \/ Publish(b)

Done == \A b \in Builders : pc[b] = "idle" /\ last[b] \in {"ok", "conflict"}

Next == (\E b \in Builders : Step(b) \/ Kill(b)) \/ (Done /\ UNCHANGED vars)

Spec == Init /\ [][Next]_vars

(* Builders run, a failed call is made again, and flock waiters are served *)
FairSpec == Spec /\ \A b \in Builders : WF_vars(Step(b)) /\ SF_vars(Flock(b))

-----------------------------------------------------------------------------
(* Every variable holds a value of its kind.                               *)
StageType  == [files : SUBSET (Needed \cup {"receipt"}),
               temps : SUBSET (Needed \cup {"receipt"}),
               mark  : {"none", "temp", "there"}]
OutputType == [build : Builds,
               files : SUBSET (Needed \cup {"receipt"}),
               temps : SUBSET (Needed \cup {"receipt"}),
               mark  : {"none", "temp", "there"}]

(* An absent directory is told from every directory.                       *)
ASSUME NothingAssumption == Nothing \notin StageType /\ Nothing \notin OutputType

(* From the flock on, and from a stage made or found on.                   *)
Staging  == {"mark", "install mark", "clean", "write", "install", "unmark", "rename"}
Critical == Staging \cup {"look again", "tombs", "fill tombs", "find stage"}

TypeOK ==
  /\ output \in OutputType \cup {Nothing}
  /\ pc \in [Builders -> Critical \cup {"idle", "look", "flock"}]
  /\ stage \in [Builds -> StageType \cup {Nothing}]
  /\ tomb \in {"absent", "bare", "ready"} /\ retained \in Nat
  /\ holder \in Builders \cup {Nothing}
  /\ at \in [Builders -> 0..Len(Artifacts) + 1]
  /\ last \in [Builders -> {"none", "ok", "conflict", "error", "orphaned", "killed"}]
  /\ kills \in 0..MaxKills

(* A call is told ok only of the output of its own build, and whoever sees *)
(* the output sees a whole corpus: every artifact and the receipt, no      *)
(* temporary, no mark (publication.py build_parallel_corpus,               *)
(* _publish_staging).                                                      *)
OutputIsWhole ==
  output # Nothing =>
    /\ output.files = Needed \cup {"receipt"}
    /\ output.temps = {} /\ output.mark = "none"
OkIsMine ==
  /\ OutputIsWhole
  /\ \A b \in Builders : last[b] = "ok" => output # Nothing /\ output.build = BuildOf[b]

(* A stage without its mark that is not ready to be published: once its    *)
(* maker is gone nobody can claim it.                                      *)
Unclaimed(d) ==
  stage[d] # Nothing /\ stage[d].mark # "there" /\ "receipt" \notin stage[d].files

(* Every builder gets its answer, whatever was killed before, unless a     *)
(* kill left a directory that nobody can claim (publication.py             *)
(* build_parallel_corpus).                                                 *)
AnsweredUnlessOrphaned ==
  \A b \in Builders :
    <>[](last[b] \in {"ok", "conflict"} \/ Unclaimed(BuildOf[b]) \/ tomb = "bare")

(* The destination receives one corpus and keeps it.                       *)
Published == IF output = Nothing THEN Nothing ELSE output.build

Abstract == INSTANCE AbstractPublication WITH published <- Published

ImplementsAbstractPublication == Abstract!Spec
=============================================================================
