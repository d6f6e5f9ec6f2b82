------------------------------ MODULE RunLedger ------------------------------
(***************************************************************************)
(* experiment/ledger.py: one run's ledger directory, the processes that    *)
(* append to it and the lock-free readers, at the granularity of the file  *)
(* system calls that other processes, a kill or a power cut can come       *)
(* between.                                                                *)
(*                                                                         *)
(* The disk is the one the code's fsync calls are written for: the entries *)
(* of a directory survive a power cut if they were in it at its last fsync *)
(* and the directory itself survives; of the entries made since then, any  *)
(* may be lost.  The SHA-256 chain is modelled by what it commits to: an   *)
(* event's "prev" is the list of the <<id, type>> pairs before it.         *)
(***************************************************************************)
EXTENDS LedgerEvents, FiniteSets

CONSTANTS Appenders,     \* processes that call append
          Readers,       \* processes that call events() or summary()
          CallerIds,     \* event IDs that callers supply
          NoId,          \* event_id=None: the ID is derived by hashing
          None,          \* no process, no event
          Requested,     \* event types the callers of this instance ask for
          Provisioned,   \* the run directory exists, synced, from the start
          MaxEvents,     \* bound: the disk is full at this many events
          MaxCrashes,    \* bound on kills of an appender
          MaxPowerCuts   \* bound on power cuts

ASSUME ConstantsAssumption ==
  /\ None \notin Appenders
  /\ NoId \notin CallerIds
  /\ CallerIds \cap (Nat \X EventTypes) = {}
  /\ Requested \subseteq EventTypes
  /\ Provisioned \in BOOLEAN
  /\ MaxEvents \in Nat /\ MaxCrashes \in Nat /\ MaxPowerCuts \in Nat

VARIABLES
  dir,        \* "ledger" and "run" directories: absent, made or synced
  published,  \* events linked under their final names
  synced,     \* the part of published that the run directory's fsync covers
  dots,       \* staging entries, <<process, kind, sequence>>
  lock,       \* holder of .append.lock, or None
  pc, want, event, failing,        \* one append call per process
  acked,      \* events whose append has returned
  rpc, listing, checked, view,     \* one events() call per reader
  crashes, cuts

vars == <<dir, published, synced, dots, lock, pc, want, event, failing, acked,
          rpc, listing, checked, view, crashes, cuts>>

disk   == <<dir, published, synced, dots>>
call   == <<pc, want, event, failing>>
reader == <<rpc, listing, checked, view>>
bounds == <<crashes, cuts>>

-----------------------------------------------------------------------------
Links == (CallerIds \cup (Nat \X EventTypes)) \X EventTypes

Events == [seq : Nat, id : CallerIds \cup (Nat \X EventTypes),
           type : EventTypes, prev : Seq(Links)]

Wants == [type : EventTypes, id : CallerIds \cup {NoId}]

(* What event_sha256 commits to.                                           *)
Digest(e) == Append(e.prev, <<e.id, e.type>>)

(* _load_events accepts the directory: contiguous sequence numbers, unique *)
(* IDs, legal transitions and an unbroken chain.                           *)
LegalChain(S) ==
  /\ IsFiniteSet(S)
  /\ {e.seq : e \in S} = 0..(Cardinality(S) - 1)
  /\ \A e, f \in S : e.seq = f.seq \/ e.id = f.id => e = f
  /\ \A e \in S : e.seq = 0 => e.type = "planned" /\ e.prev = << >>
  /\ \A e, f \in S : f.seq = e.seq + 1 =>
       f.type \in Transitions[e.type] /\ f.prev = Digest(e)

(* The event append builds on a loaded chain S, of type t and ID i.        *)
NextEvent(S, t, i) ==
  LET n == Cardinality(S)
  IN  [seq  |-> n,
       id   |-> IF i = NoId THEN <<n, t>> ELSE i,
       type |-> t,
       prev |-> IF n = 0 THEN << >>
                ELSE Digest(CHOOSE e \in S : e.seq = n - 1)]

(* The transition table not consulted under the lock.                      *)
MayAppendAnything(S, t, i) ==
  LegalChain(S) /\ \A e \in S : e.id # NextEvent(S, t, i).id

(* append's checks under the lock: the chain loads, the transition is      *)
(* legal, the ID is new.                                                   *)
MayAppend(S, t, i) ==
  /\ LegalChain(S)
  /\ IF S = {} THEN t = "planned"
     ELSE \A e \in S : e.seq = Cardinality(S) - 1 => t \in Transitions[e.type]
  /\ \A e \in S : e.id # NextEvent(S, t, i).id

(* Published events and staging entries are named after the event.         *)
DotNames == Appenders \X {"temporary", "staged"} \X Nat

Listings == [files : SUBSET Events, dots : SUBSET DotNames]

Temporary(p) == <<p, "temporary", event[p].seq>>
Staged(p)    == <<p, "staged", event[p].seq>>

AppendPcs ==
  {"idle", "stat ledger", "mkdir ledger", "fsync ledger",
   "stat run", "mkdir run", "fsync run",
   "lock", "load", "stage", "replace", "sync staged", "link", "sync link",
   "unstage", "sync unstaged", "unlock"}

HoldingPcs == {"load", "stage", "replace", "sync staged", "link",
               "sync link", "unstage", "sync unstaged", "unlock"}

Init ==
  /\ dir = [d \in {"ledger", "run"} |->
              IF Provisioned THEN "synced" ELSE "absent"]
  /\ published = {} /\ synced = {} /\ dots = {}
  /\ lock = None
  /\ pc = [p \in Appenders |-> "idle"]
  /\ want = [p \in Appenders |-> None]
  /\ event = [p \in Appenders |-> None]
  /\ failing = [p \in Appenders |-> FALSE]
  /\ acked = {}
  /\ rpc = [r \in Readers |-> "idle"]
  /\ listing = [r \in Readers |-> [files |-> {}, dots |-> {}]]
  /\ checked = [r \in Readers |-> "none"]
  /\ view = [r \in Readers |-> {}]
  /\ crashes = 0 /\ cuts = 0

-----------------------------------------------------------------------------
Goto(p, l) == pc' = [pc EXCEPT ![p] = l]

(* append is called.  A run whose directory does not exist yet is refused  *)
(* anything but "planned" before a directory is made for it.               *)
Begin(p, t, i) ==
  /\ pc[p] = "idle"
  /\ IF dir["run"] = "absent" /\ t # "planned"
     THEN UNCHANGED <<pc, want>>
     ELSE /\ want' = [want EXCEPT ![p] = [type |-> t, id |-> i]]
          /\ Goto(p, "stat ledger")
  /\ UNCHANGED <<disk, lock, event, failing, acked, reader, bounds>>

(* _ensure_directory, for out_root/ledger and then for the run: only the   *)
(* process that found a directory missing syncs its parent.                *)
StatDirectory(p, d, stat, mkdir, next) ==
  /\ pc[p] = stat
  /\ Goto(p, IF dir[d] = "absent" THEN mkdir ELSE next)
  /\ UNCHANGED <<disk, lock, want, event, failing, acked, reader, bounds>>

MakeDirectory(p, d, mkdir, fsync) ==
  /\ pc[p] = mkdir
  /\ dir' = [dir EXCEPT ![d] = IF @ = "absent" THEN "made" ELSE @]
  /\ Goto(p, fsync)
  /\ UNCHANGED <<published, synced, dots, lock, want, event, failing, acked,
                 reader, bounds>>

SyncParent(p, d, fsync, next) ==
  /\ pc[p] = fsync
  /\ dir' = [dir EXCEPT ![d] = "synced"]
  /\ Goto(p, next)
  /\ UNCHANGED <<published, synced, dots, lock, want, event, failing, acked,
                 reader, bounds>>

EnsureDirectory(p) ==
  \/ StatDirectory(p, "ledger", "stat ledger", "mkdir ledger", "stat run")
  \/ MakeDirectory(p, "ledger", "mkdir ledger", "fsync ledger")
  \/ SyncParent(p, "ledger", "fsync ledger", "stat run")
  \/ StatDirectory(p, "run", "stat run", "mkdir run", "lock")
  \/ MakeDirectory(p, "run", "mkdir run", "fsync run")
  \/ SyncParent(p, "run", "fsync run", "lock")

(* flock left out.                                                         *)
AcquireWithoutLock(p) ==
  /\ pc[p] = "lock"
  /\ lock' = p
  /\ Goto(p, "load")
  /\ UNCHANGED <<disk, want, event, failing, acked, reader, bounds>>

Acquire(p) ==
  /\ pc[p] = "lock"
  /\ lock = None
  /\ lock' = p
  /\ Goto(p, "load")
  /\ UNCHANGED <<disk, want, event, failing, acked, reader, bounds>>

(* The rejection raised outside the try: the lock is never released.       *)
LoadKeepsLock(p) ==
  /\ pc[p] = "load"
  /\ LET w == want[p]
     IN  IF MayAppend(published, w.type, w.id)
         THEN /\ event' = [event EXCEPT ![p] =
                             NextEvent(published, w.type, w.id)]
              /\ Goto(p, "stage")
         ELSE Goto(p, "idle") /\ UNCHANGED event
  /\ UNCHANGED <<disk, lock, want, failing, acked, reader, bounds>>

(* The locked re-validation.  No reader or writer changes the directory    *)
(* while p holds the lock, so loading it is one step.                      *)
Load(p) ==
  /\ pc[p] = "load"
  /\ LET w == want[p]
     IN  IF MayAppend(published, w.type, w.id)
         THEN /\ event' = [event EXCEPT ![p] =
                             NextEvent(published, w.type, w.id)]
              /\ Goto(p, "stage")
              /\ UNCHANGED failing
         ELSE /\ failing' = [failing EXCEPT ![p] = TRUE]
              /\ Goto(p, "unlock")
              /\ UNCHANGED event
  /\ UNCHANGED <<disk, lock, want, acked, reader, bounds>>

(* atomic_write_json: a temporary is written and synced, renamed to the    *)
(* staging name, and the directory is synced.  On a full disk only Fail    *)
(* is left.                                                                *)
Stage(p) ==
  /\ pc[p] = "stage"
  /\ Cardinality(published) < MaxEvents
  /\ dots' = dots \cup {Temporary(p)}
  /\ Goto(p, "replace")
  /\ UNCHANGED <<dir, published, synced, lock, want, event, failing, acked,
                 reader, bounds>>

Replace(p) ==
  /\ pc[p] = "replace"
  /\ dots' = (dots \ {Temporary(p)}) \cup {Staged(p)}
  /\ Goto(p, "sync staged")
  /\ UNCHANGED <<dir, published, synced, lock, want, event, failing, acked,
                 reader, bounds>>

SyncStaged(p) ==
  /\ pc[p] = "sync staged"
  /\ synced' = published
  /\ Goto(p, "link")
  /\ UNCHANGED <<dir, published, dots, lock, want, event, failing, acked,
                 reader, bounds>>

(* os.link to the final name refuses a name that is taken.                 *)
Link(p) ==
  /\ pc[p] = "link"
  /\ IF \E e \in published : e.seq = event[p].seq /\ e.id = event[p].id
     THEN /\ failing' = [failing EXCEPT ![p] = TRUE]
          /\ Goto(p, "unstage")
          /\ UNCHANGED published
     ELSE /\ published' = published \cup {event[p]}
          /\ Goto(p, "sync link")
          /\ UNCHANGED failing
  /\ UNCHANGED <<dir, synced, dots, lock, want, event, acked, reader, bounds>>

SyncLink(p) ==
  /\ pc[p] = "sync link"
  /\ synced' = published
  /\ Goto(p, "unstage")
  /\ UNCHANGED <<dir, published, dots, lock, want, event, failing, acked,
                 reader, bounds>>

(* An I/O error swallowed by the clean-up.                                 *)
FailSwallowed(p) ==
  /\ pc[p] \in {"stage", "replace", "sync staged", "link", "sync link"}
  /\ dots' = dots \ {Temporary(p)}
  /\ Goto(p, "unstage")
  /\ UNCHANGED <<dir, published, synced, lock, want, event, failing, acked,
                 reader, bounds>>

(* A write, rename, link or fsync fails.  atomic_write_json removes its    *)
(* temporary; the event stays published if its link was already made.      *)
Fail(p) ==
  /\ pc[p] \in {"stage", "replace", "sync staged", "link", "sync link"}
  /\ dots' = dots \ {Temporary(p)}
  /\ failing' = [failing EXCEPT ![p] = TRUE]
  /\ Goto(p, "unstage")
  /\ UNCHANGED <<dir, published, synced, lock, want, event, acked, reader,
                 bounds>>

(* The two finally clauses: the staging name goes, the directory is        *)
(* synced, the lock is released and the caller gets its answer.            *)
Unstage(p) ==
  /\ pc[p] = "unstage"
  /\ dots' = dots \ {Staged(p)}
  /\ Goto(p, "sync unstaged")
  /\ UNCHANGED <<dir, published, synced, lock, want, event, failing, acked,
                 reader, bounds>>

SyncUnstaged(p) ==
  /\ pc[p] = "sync unstaged"
  /\ \/ synced' = published /\ UNCHANGED failing
     \/ failing' = [failing EXCEPT ![p] = TRUE] /\ UNCHANGED synced
  /\ Goto(p, "unlock")
  /\ UNCHANGED <<dir, published, dots, lock, want, event, acked, reader,
                 bounds>>

Unlock(p) ==
  /\ pc[p] = "unlock"
  /\ lock' = None
  /\ acked' = IF failing[p] THEN acked ELSE acked \cup {event[p]}
  /\ failing' = [failing EXCEPT ![p] = FALSE]
  /\ want' = [want EXCEPT ![p] = None]
  /\ event' = [event EXCEPT ![p] = None]
  /\ Goto(p, "idle")
  /\ UNCHANGED <<disk, reader, bounds>>

-----------------------------------------------------------------------------
(* events(): directory reading is not atomic.  An entry that was there     *)
(* throughout is listed; one that comes or goes meanwhile may be.          *)
OpenListing(r) ==
  /\ rpc[r] = "idle"
  /\ listing' = [listing EXCEPT ![r] = [files |-> published, dots |-> dots]]
  /\ checked' = [checked EXCEPT ![r] = "none"]
  /\ rpc' = [rpc EXCEPT ![r] = "list"]
  /\ UNCHANGED <<disk, lock, call, acked, view, bounds>>

CloseListing(r) ==
  /\ rpc[r] = "list"
  /\ \E F \in SUBSET (published \ listing[r].files),
        D \in SUBSET ((dots \ listing[r].dots) \cup (listing[r].dots \ dots)) :
       listing' = [listing EXCEPT ![r] =
                     [files |-> @.files \cup F,
                      dots  |-> (@.dots \cap dots) \cup D]]
  /\ rpc' = [rpc EXCEPT ![r] = "check"]
  /\ UNCHANGED <<disk, lock, call, acked, checked, view, bounds>>

(* A reader that trusts the file names it listed.                          *)
CheckListingOnlyDots(r) ==
  /\ rpc[r] = "check"
  /\ IF listing[r].dots \subseteq dots
     THEN /\ view' = [view EXCEPT ![r] = listing[r].files]
          /\ checked' = [checked EXCEPT ![r] = "ok"]
     ELSE checked' = [checked EXCEPT ![r] = "vanished"] /\ UNCHANGED view
  /\ listing' = [listing EXCEPT ![r] = [files |-> {}, dots |-> {}]]
  /\ rpc' = [rpc EXCEPT ![r] = "idle"]
  /\ UNCHANGED <<disk, lock, call, acked, bounds>>

(* Every listed staging entry must still be a regular file, and what was   *)
(* listed must be a chain.                                                 *)
CheckListing(r) ==
  /\ rpc[r] = "check"
  /\ IF listing[r].dots \subseteq dots /\ LegalChain(listing[r].files)
     THEN /\ view' = [view EXCEPT ![r] = listing[r].files]
          /\ checked' = [checked EXCEPT ![r] = "ok"]
     ELSE /\ checked' = [checked EXCEPT ![r] =
               IF listing[r].dots \subseteq dots THEN "broken" ELSE "vanished"]
          /\ UNCHANGED view
  /\ listing' = [listing EXCEPT ![r] = [files |-> {}, dots |-> {}]]
  /\ rpc' = [rpc EXCEPT ![r] = "idle"]
  /\ UNCHANGED <<disk, lock, call, acked, bounds>>

-----------------------------------------------------------------------------
(* An appender is killed and its caller starts over: the kernel drops its  *)
(* lock, its files stay.                                                   *)
Kill(p) ==
  /\ crashes < MaxCrashes
  /\ pc[p] # "idle"
  /\ crashes' = crashes + 1
  /\ lock' = IF lock = p THEN None ELSE lock
  /\ want' = [want EXCEPT ![p] = None]
  /\ event' = [event EXCEPT ![p] = None]
  /\ failing' = [failing EXCEPT ![p] = FALSE]
  /\ Goto(p, "idle")
  /\ UNCHANGED <<disk, acked, reader, cuts>>

(* The machine loses power: whatever is not synced may be gone.            *)
PowerCut ==
  /\ cuts < MaxPowerCuts
  /\ cuts' = cuts + 1
  /\ \E lost \in SUBSET {d \in {"ledger", "run"} : dir[d] = "made"} :
       LET gone == IF "ledger" \in lost THEN {"ledger", "run"} ELSE lost
       IN  /\ dir' = [d \in {"ledger", "run"} |->
                        IF d \in gone \/ dir[d] = "absent"
                        THEN "absent" ELSE "synced"]
           /\ IF "run" \in gone
              THEN published' = {} /\ dots' = {}
              ELSE \E kept \in SUBSET (published \ synced), D \in SUBSET dots :
                     published' = synced \cup kept /\ dots' = D
  /\ synced' = published'
  /\ lock' = None
  /\ pc' = [p \in Appenders |-> "idle"]
  /\ want' = [p \in Appenders |-> None]
  /\ event' = [p \in Appenders |-> None]
  /\ failing' = [p \in Appenders |-> FALSE]
  /\ rpc' = [r \in Readers |-> "idle"]
  /\ listing' = [r \in Readers |-> [files |-> {}, dots |-> {}]]
  /\ checked' = [r \in Readers |-> "none"]
  /\ view' = [r \in Readers |-> {}]
  /\ UNCHANGED <<acked, crashes>>

-----------------------------------------------------------------------------
AppendStep(p) ==
  \/ EnsureDirectory(p)
  \/ Acquire(p) \/ Load(p)
  \/ Stage(p) \/ Replace(p) \/ SyncStaged(p)
  \/ Link(p) \/ SyncLink(p) \/ Fail(p)
  \/ Unstage(p) \/ SyncUnstaged(p) \/ Unlock(p)

ReadStep(r) == CloseListing(r) \/ CheckListing(r)

Next ==
  \/ \E p \in Appenders :
       \/ \E t \in Requested, i \in CallerIds \cup {NoId} : Begin(p, t, i)
       \/ AppendStep(p)
       \/ Kill(p)
  \/ \E r \in Readers : OpenListing(r) \/ ReadStep(r)
  \/ PowerCut

Spec == Init /\ [][Next]_vars

(* A process that is inside a call keeps running, and flock wakes its      *)
(* waiters in turn.  Nobody is obliged to call.                            *)
Fairness ==
  /\ \A p \in Appenders : WF_vars(AppendStep(p)) /\ SF_vars(Acquire(p))
  /\ \A r \in Readers : WF_vars(ReadStep(r))

FairSpec == Spec /\ Fairness

-----------------------------------------------------------------------------
(* Every variable holds a value of its kind, and a call in flight has in   *)
(* hand what its next system call needs.                                   *)
DiskType ==
  /\ dir \in [{"ledger", "run"} -> {"absent", "made", "synced"}]
  /\ published \subseteq Events /\ synced \subseteq published
  /\ dots \subseteq DotNames
  /\ acked \subseteq Events

CallType ==
  /\ lock \in Appenders \cup {None}
  /\ pc \in [Appenders -> AppendPcs]
  /\ want \in [Appenders -> Wants \cup {None}]
  /\ event \in [Appenders -> Events \cup {None}]
  /\ failing \in [Appenders -> BOOLEAN]

HasEvent(l, f) ==
  \/ l \in {"stage", "replace", "sync staged", "link", "sync link",
            "unstage", "sync unstaged"}
  \/ l = "unlock" /\ ~f

InFlight ==
  \A p \in Appenders :
    /\ pc[p] # "idle" => want[p] \in Wants
    /\ HasEvent(pc[p], failing[p]) => event[p] \in Events

ReadType ==
  /\ rpc \in [Readers -> {"idle", "list", "check"}]
  /\ listing \in [Readers -> Listings]
  /\ view \in [Readers -> SUBSET Events]
  /\ checked \in [Readers -> {"none", "ok", "broken", "vanished"}]

BoundType == crashes \in 0..MaxCrashes /\ cuts \in 0..MaxPowerCuts

TypeOK == DiskType /\ CallType /\ InFlight /\ ReadType /\ BoundType

(* What is on the disk always loads, and what a power cut would leave of   *)
(* it would too: appenders racing to extend the chain, killed between any  *)
(* two system calls, or failing in one, never fork it, never skip a        *)
(* sequence number, and never leave it unreadable (ledger.py append).      *)
ChainIntact == LegalChain(published) /\ LegalChain(synced)

(* The inductive strengthening of ChainIntact.  A live append holds the    *)
(* lock; the event it is about to link extends what is published; and by   *)
(* the time it links it, the fsync after the staging rename has made every *)
(* earlier event durable, so a power cut can lose at most one.             *)
LockHeld == \A p \in Appenders : pc[p] \in HoldingPcs <=> lock = p

NextIsLegal ==
  \A p \in Appenders :
    pc[p] \in {"stage", "replace", "sync staged", "link"} =>
      LegalChain(published \cup {event[p]})

LinkFromSynced == \A p \in Appenders : pc[p] = "link" => synced = published

OneUnsynced ==
  synced \subseteq published /\ \A e, f \in published \ synced : e = f

ChainInv ==
  ChainIntact /\ LockHeld /\ NextIsLegal /\ LinkFromSynced /\ OneUnsynced

(* The same for AckedKept, on a run directory that is durable from the     *)
(* start: an append that is going to succeed has its event synced.         *)
AckedInv ==
  /\ synced \subseteq published /\ acked \subseteq synced
  /\ dir = [d \in {"ledger", "run"} |-> "synced"]
  /\ \A p \in Appenders :
       /\ pc[p] = "sync link" => event[p] \in published
       /\ ~failing[p] /\ pc[p] \in {"unstage", "sync unstaged", "unlock"} =>
            event[p] \in synced

(* An event whose append returned is in the ledger, whatever happened      *)
(* since (ledger.py append, the fsync after os.link).                      *)
AckedKept == acked \subseteq published

(* A read that succeeds returns the oldest events of the ledger, with no   *)
(* hole and none that is not there, though it takes no lock.               *)
ReadersSeePrefix ==
  \A r \in Readers :
    view[r] = {e \in published : e.seq < Cardinality(view[r])}

(* A call to append comes back, with the lock released on every path.      *)
AppendReturns ==
  \A p \in Appenders : pc[p] # "idle" ~> pc[p] = "idle"

(* The ledger on the disk is the abstract ledger.                          *)
History ==
  [n \in 1..Cardinality(published) |->
     LET e == CHOOSE e \in published : e.seq = n - 1
     IN  [type |-> e.type, id |-> e.id]]

Acknowledged == {e.seq + 1 : e \in acked}

PossibleIds == CallerIds \cup ((0..(MaxEvents - 1)) \X Requested)

Abstract == INSTANCE AbstractLedger
  WITH log <- History,
       acknowledged <- Acknowledged,
       EventId <- PossibleIds

ImplementsAbstractLedger == Abstract!Spec
=============================================================================
