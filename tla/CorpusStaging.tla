---------------------------- MODULE CorpusStaging ----------------------------
(***************************************************************************)
(* cluster/aws/reasoning_v3.py: uploaders copy the frozen corpus, object   *)
(* by object, from the repository to a bucket; stagers copy it from there  *)
(* to a temporary tree named for their process, and publish that under a   *)
(* name that is never replaced.  Any of them may be killed, the sources    *)
(* may be rebuilt under an uploader, S3 may fail, and the power may fail.  *)
(*                                                                         *)
(* An object in the bucket is the digest its metadata claim and the bytes  *)
(* it has.  The tokens, receipts and locks that objects hold are functions *)
(* of their bytes, so a tree is right when its bytes are.                  *)
(***************************************************************************)
EXTENDS Naturals

CONSTANTS ObjectCount, \* objects in the manifest
          Uploaders, Stagers,
          Crews,       \* the sets of them that are at work together
          Pids,        \* no two stagers that run have the same
          MaxFailures    \* bound on kills, rebuilds, S3 errors and power cuts

(* What a caller of this module gives it.                                  *)
StagingAssumption ==
  /\ ObjectCount \in Nat \ {0}
  /\ Uploaders \cap Stagers = {} /\ 0 \notin Pids /\ MaxFailures \in Nat

VARIABLES
  source,    \* object -> bytes in the repository
  bucket,    \* object -> [claims, bytes], or absent
  temp,      \* pid -> tree under its temporary name, or none
  dest,      \* tree under the published name, or none
  synced,    \* whether the published name is on the disk
  place, next, \* per process: its step, the object it is at
  pid,       \* stager -> its pid, or 0
  last,      \* how its last call ended
  cut,       \* whether there has been a power cut
  failures

stagingVars == <<source, bucket, temp, dest, synced, place, next, pid, last, cut, failures>>

Objects   == 1..ObjectCount    \* by path
Processes == Uploaders \cup Stagers
Contents  == {"frozen", "rebuilt", "torn"}
ManifestKinds == {"frozen", "other"}
Absent    == [claims |-> "none", bytes |-> "none"]
Empty     == [o \in Objects |-> Absent]
NoTree    == [objects |-> {}, receipt |-> FALSE, bytes |-> << >>]
Bare      == [objects |-> {}, receipt |-> FALSE, bytes |-> [o \in Objects |-> "torn"]]

StagingInit ==
  /\ source = [o \in Objects |-> "frozen"]
  /\ bucket \in {Empty} \cup {[Empty EXCEPT ![o] = [claims |-> "other", bytes |-> "rebuilt"]] :
                             o \in Objects}
  /\ temp = [p \in Pids |-> NoTree]
  /\ dest = NoTree /\ synced = FALSE
  /\ \E crew \in Crews : place = [p \in Processes |-> IF p \in crew THEN "idle" ELSE "away"]
  /\ next = [p \in Processes |-> 1] /\ pid = [s \in Stagers |-> 0]
  /\ last = [p \in Processes |-> "none"]
  /\ cut = FALSE /\ failures = 0

Goto(p, step) == place' = [place EXCEPT ![p] = step] /\ UNCHANGED <<next, last>>
Return(p, how) ==
  /\ place' = [place EXCEPT ![p] = "idle"] /\ next' = [next EXCEPT ![p] = 1]
  /\ last' = [last EXCEPT ![p] = how]
Failure == failures < MaxFailures /\ failures' = failures + 1
NoFailure == UNCHANGED failures

(* On to the next object, or to the step after the last one.               *)
Advance(p, again, done) ==
  /\ next' = [next EXCEPT ![p] = IF @ < ObjectCount THEN @ + 1 ELSE 1]
  /\ place' = [place EXCEPT ![p] = IF next[p] = ObjectCount THEN done ELSE again]
  /\ UNCHANGED last

-----------------------------------------------------------------------------
(* upload_to_s3.  Only the frozen manifest is taken, and every source has  *)
(* its digest; then each object in turn: looked at, copied if it is not    *)
(* there, looked at again.  What a look compares is the metadata.          *)
UploadCall(u, manifest) ==
  /\ place[u] = "idle" /\ last[u] # "ok"
  /\ IF manifest = "frozen" /\ \A o \in Objects : source[o] = "frozen"
     THEN Goto(u, "head") ELSE Return(u, "error")
  /\ NoFailure /\ UNCHANGED <<source, bucket, temp, dest, synced, pid, cut>>

HeadObject(u) ==
  LET there == bucket[next[u]]
  IN  /\ place[u] = "head"
      /\ \/ there.claims = "frozen" /\ Advance(u, "head", "end") /\ NoFailure
         \/ there.claims = "other" /\ Return(u, "error") /\ NoFailure
         \/ there = Absent /\ Goto(u, "copy") /\ NoFailure
         \/ Return(u, "error") /\ Failure
      /\ UNCHANGED <<source, bucket, temp, dest, synced, pid, cut>>

(* The bytes are those of now; the digest it claims is the manifest's.     *)
Copy(u) ==
  LET o == next[u]
  IN  /\ place[u] = "copy"
      /\ \/ /\ bucket' = [bucket EXCEPT ![o] = [claims |-> "frozen", bytes |-> source[o]]]
            /\ Goto(u, "head again") /\ NoFailure
         \/ Return(u, "error") /\ Failure /\ UNCHANGED bucket
      /\ UNCHANGED <<source, temp, dest, synced, pid, cut>>

HeadAgain(u) ==
  /\ place[u] = "head again"
  /\ \/ bucket[next[u]].claims = "frozen" /\ Advance(u, "head", "end") /\ NoFailure
     \/ bucket[next[u]].claims # "frozen" /\ Return(u, "error") /\ NoFailure
     \/ Return(u, "error") /\ Failure
  /\ UNCHANGED <<source, bucket, temp, dest, synced, pid, cut>>

UploadEnd(u) ==
  /\ place[u] = "end" /\ Return(u, "ok")
  /\ NoFailure /\ UNCHANGED <<source, bucket, temp, dest, synced, pid, cut>>

-----------------------------------------------------------------------------
(* verify_staged_corpus: exactly the objects, each with its bytes, and the *)
(* receipt if there has to be one.                                         *)
HasNames(tree, receipt) == tree.objects = Objects /\ tree.receipt = receipt
IsWhole(tree, receipt) ==
  /\ HasNames(tree, receipt) /\ \A o \in Objects : tree.bytes[o] = "frozen"

TempOf(s) == temp[pid[s]]
Withdraw(s, how) == Return(s, how) /\ pid' = [pid EXCEPT ![s] = 0]

(* stage_from_s3: what is there already is only verified; a temporary tree *)
(* left by a killed process of the same number is in the way.              *)
StageCall(s, manifest, number) ==
  /\ place[s] = "idle" /\ last[s] # "ok"
  /\ \A t \in Stagers : pid[t] # number
  /\ IF manifest = "other" \/ (dest = NoTree /\ temp[number] # NoTree)
     THEN Return(s, "error") /\ UNCHANGED <<pid, temp>>
     ELSE /\ pid' = [pid EXCEPT ![s] = number]
          /\ IF dest # NoTree
             THEN Goto(s, "look") /\ UNCHANGED temp
             ELSE Goto(s, "download") /\ temp' = [temp EXCEPT ![number] = Bare]
  /\ NoFailure /\ UNCHANGED <<source, bucket, dest, synced, cut>>

(* Every failure removes the temporary tree.                               *)
Discard(s) ==
  temp' = [temp EXCEPT ![pid[s]] = NoTree] /\ Withdraw(s, "error")

(* A tree with one object more.                                            *)
Received(tree, o, bytes) == [tree EXCEPT !.objects = @ \cup {o}, !.bytes[o] = bytes]

Download(s) ==
  LET o == next[s]
  IN  /\ place[s] = "download"
      /\ \/ /\ bucket[o] # Absent
            /\ temp' = [temp EXCEPT ![pid[s]] = Received(@, o, bucket[o].bytes)]
            /\ Advance(s, "download", "verify") /\ NoFailure /\ UNCHANGED pid
         \/ bucket[o] = Absent /\ Discard(s) /\ NoFailure
         \/ Discard(s) /\ Failure
      /\ UNCHANGED <<source, bucket, dest, synced, cut>>

(* Verified, given its receipt and verified again: no one else is in it.   *)
WriteReceipt(s) ==
  /\ place[s] = "verify"
  /\ IF IsWhole(TempOf(s), FALSE)
     THEN /\ temp' = [temp EXCEPT ![pid[s]].receipt = TRUE]
          /\ Goto(s, "publish") /\ UNCHANGED pid
     ELSE Discard(s)
  /\ NoFailure /\ UNCHANGED <<source, bucket, dest, synced, cut>>

(* _publish_no_replace.                                                    *)
Publish(s) ==
  /\ place[s] = "publish"
  /\ IF dest = NoTree
     THEN /\ dest' = TempOf(s) /\ temp' = [temp EXCEPT ![pid[s]] = NoTree]
          /\ Goto(s, "sync") /\ UNCHANGED pid
     ELSE Discard(s) /\ UNCHANGED dest
  /\ NoFailure /\ UNCHANGED <<source, bucket, synced, cut>>

SyncParent(s) ==
  /\ place[s] = "sync" /\ synced' = TRUE /\ Goto(s, "look")
  /\ NoFailure /\ UNCHANGED <<source, bucket, temp, dest, pid, cut>>

Look(s) ==
  /\ place[s] = "look"
  /\ Withdraw(s, IF IsWhole(dest, TRUE) THEN "ok" ELSE "error")
  /\ NoFailure /\ UNCHANGED <<source, bucket, temp, dest, synced, cut>>

-----------------------------------------------------------------------------
(* The repository's corpus is built anew, to other bytes.                  *)
Rebuild(o) ==
  /\ source[o] = "frozen" /\ source' = [source EXCEPT ![o] = "rebuilt"]
  /\ Failure /\ UNCHANGED <<bucket, temp, dest, synced, place, next, pid, last, cut>>

Kill(p) ==
  /\ place[p] \notin {"idle", "away"} /\ Return(p, "killed")
  /\ pid' = IF p \in Stagers THEN [pid EXCEPT ![p] = 0] ELSE pid
  /\ Failure /\ UNCHANGED <<source, bucket, temp, dest, synced, cut>>

(* No downloaded object was synced, so each may be torn; the name may be   *)
(* lost until its directory is.                                            *)
PowerCut ==
  /\ dest # NoTree
  /\ \/ \E torn \in SUBSET Objects :
          dest' = [dest EXCEPT !.bytes = [o \in Objects |-> IF o \in torn THEN "torn" ELSE @[o]]]
     \/ ~ synced /\ dest' = NoTree
  /\ place' = [p \in Processes |-> IF place[p] = "away" THEN "away" ELSE "idle"]
  /\ next' = [p \in Processes |-> 1]
  /\ last' = [p \in Processes |-> IF place[p] \in {"idle", "away"} THEN last[p] ELSE "killed"]
  /\ pid' = [s \in Stagers |-> 0] /\ cut' = TRUE
  /\ Failure /\ UNCHANGED <<source, bucket, temp, synced>>

StagingNext ==
  \/ \E u \in Uploaders :
       \/ \E m \in ManifestKinds : UploadCall(u, m)
       \/ HeadObject(u) \/ Copy(u) \/ HeadAgain(u) \/ UploadEnd(u)
  \/ \E s \in Stagers :
       \/ \E m \in ManifestKinds, n \in Pids : StageCall(s, m, n)
       \/ Download(s) \/ WriteReceipt(s) \/ Publish(s) \/ SyncParent(s) \/ Look(s)
  \/ \E o \in Objects : Rebuild(o)
  \/ \E p \in Processes : Kill(p)
  \/ PowerCut

StagingSpec == StagingInit /\ [][StagingNext]_stagingVars

-----------------------------------------------------------------------------
Trees   == [objects : SUBSET Objects, receipt : BOOLEAN,
            bytes : [Objects -> Contents]]
UploadSteps == {"head", "copy", "head again", "end"}
StageSteps  == {"download", "verify", "publish", "sync", "look"}

(* Every variable holds a value of its kind.                               *)
StagingTypeOK ==
  /\ source \in [Objects -> Contents]
  /\ bucket \in [Objects -> [claims : ManifestKinds, bytes : Contents] \cup {Absent}]
  /\ temp \in [Pids -> Trees \cup {NoTree}] /\ dest \in Trees \cup {NoTree}
  /\ synced \in BOOLEAN /\ cut \in BOOLEAN
  /\ place \in [Processes -> {"idle", "away"} \cup UploadSteps \cup StageSteps]
  /\ next \in [Processes -> Objects] /\ pid \in [Stagers -> Pids \cup {0}]
  /\ last \in [Processes -> {"none", "ok", "error", "killed"}]
  /\ failures \in 0..MaxFailures

(* A published corpus is the frozen one, whole and with its receipt, until *)
(* a power cut: whatever the bucket was made of, whoever was killed, and   *)
(* with two stagers at work.  stage_from_s3's "atomically publish one      *)
(* immutable local corpus tree".                                           *)
FrozenTree == [objects |-> Objects, receipt |-> TRUE, bytes |-> [o \in Objects |-> "frozen"]]
PublishedIsFrozen == dest # NoTree /\ ~ cut => dest = FrozenTree

(* An uploader that has answered leaves every object in the bucket under   *)
(* the digest of the manifest (upload_to_s3's last look at each).          *)
AnsweredIsNamed ==
  \A u \in Uploaders : last[u] = "ok" => \A o \in Objects : bucket[o].claims = "frozen"

StagedIsWhole == PublishedIsFrozen /\ AnsweredIsNamed
=============================================================================
