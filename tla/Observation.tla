---------------------------- MODULE Observation ----------------------------
(***************************************************************************)
(* The scheduling of sweeps (crates/allio/src/observation.rs): the map of  *)
(* observed subtrees, the thread that looks through it every 10 ms, and    *)
(* the worker pool the sweeps run on.  What a sweep writes into the cache  *)
(* is in ElementRegistry; here it is the set of changes it reports.        *)
(*                                                                         *)
(* An ObservedSubtree is shared by the map, the thread's list and the      *)
(* sweeps, and outlives its place in the map.  Time is abstracted to       *)
(* whether wait_between has passed since last_completed.  The thread's     *)
(* stop signal is left out: its handle is owned by the Allio the thread    *)
(* itself holds (core/mod.rs:209-210), so nothing ever sets it.            *)
(***************************************************************************)
EXTENDS Naturals, Sequences, FiniteSets, Functions

CONSTANTS Root,      \* the root elements that are observed
          Subtree,   \* ObservedSubtree objects; a released one is reused
          Worker,    \* the threads of the pool
          Change,    \* what a sweep can report: ids added, removed, modified
          None

ASSUME ObservationAssumption == None \notin Root \cup Subtree /\ IsFiniteSet(Subtree)

VARIABLES
  cached,       \* the roots that are in the element cache
  subtrees,     \* ObservationState::subtrees
  root_id, in_progress, elapsed, changes,  \* the fields of each ObservedSubtree
  thread,       \* the observation thread: its list, and the subtree it looks at
  pool,         \* the jobs that were spawned and not started
  worker,       \* the sweep each worker runs, and what it has found
  overtime      \* sweeps spawned for a subtree since it left the map

fields == <<root_id, in_progress, elapsed, changes>>
vars == <<cached, subtrees, fields, thread, pool, worker, overtime>>

Resting == [at |-> "sleep", todo |-> {}, subtree |-> None]
Free == [at |-> "free", subtree |-> None, found |-> {}]

Init ==
  /\ cached = Root
  /\ subtrees = [r \in Root |-> None]
  /\ root_id = [s \in Subtree |-> None]
  /\ in_progress = [s \in Subtree |-> FALSE]
  /\ elapsed = [s \in Subtree |-> TRUE]
  /\ changes = [s \in Subtree |-> {}]
  /\ thread = Resting
  /\ pool = <<>>
  /\ worker = [w \in Worker |-> Free]
  /\ overtime = [s \in Subtree |-> 0]

----------------------------------------------------------------------------
Observed(s) == s \in Range(subtrees)

\* Nothing holds the Arc any more
Released(s) ==
  /\ ~Observed(s)
  /\ s \notin thread.todo \cup {thread.subtree}
  /\ s \notin Range(pool)
  /\ \A w \in Worker : worker[w].subtree # s

\* observe: a new object each time, which takes the place of an older one
Observe(r, s) ==
  /\ r \in cached
  /\ Released(s)
  /\ subtrees' = [subtrees EXCEPT ![r] = s]
  /\ root_id' = [root_id EXCEPT ![s] = r]
  /\ in_progress' = [in_progress EXCEPT ![s] = FALSE]
  /\ elapsed' = [elapsed EXCEPT ![s] = TRUE]
  /\ changes' = [changes EXCEPT ![s] = {}]
  /\ overtime' = [overtime EXCEPT ![s] = 0]
  /\ UNCHANGED <<cached, thread, pool, worker>>

\* unobserve, called by clients and by the drop of any handle of that root
Unobserve(r) ==
  /\ subtrees[r] # None
  /\ subtrees' = [subtrees EXCEPT ![r] = None]
  /\ UNCHANGED <<cached, fields, thread, pool, worker, overtime>>

\* The root's entry leaves the cache, by a sweep, a notice or a window's end
RootDies(r) ==
  /\ r \in cached
  /\ cached' = cached \ {r}
  /\ UNCHANGED <<subtrees, fields, thread, pool, worker, overtime>>

\* wait_between passes
Elapse(s) ==
  /\ ~elapsed[s]
  /\ elapsed' = [elapsed EXCEPT ![s] = TRUE]
  /\ UNCHANGED <<cached, subtrees, root_id, in_progress, changes, thread, pool, worker, overtime>>

----------------------------------------------------------------------------
\* Fault: the thread's list keeps what was ever observed
EverObserved == {s \in Subtree : root_id[s] # None}

Copied == Range(subtrees) \ {None}

\* observation_loop: wake up and copy the map
Wake ==
  /\ thread.at = "sleep"
  /\ thread' = [at |-> "scan", todo |-> Copied, subtree |-> None]
  /\ UNCHANGED <<cached, subtrees, fields, pool, worker, overtime>>

\* Is a sweep of the next one under way?
LookAt(s) ==
  /\ thread.at = "scan" /\ s \in thread.todo
  /\ thread' = [thread EXCEPT !.todo = @ \ {s},
                   !.at = IF in_progress[s] THEN "scan" ELSE "idle",
                   !.subtree = IF in_progress[s] THEN None ELSE s]
  /\ UNCHANGED <<cached, subtrees, fields, pool, worker, overtime>>

\* Fault: a spawned sweep is not marked
Unmarked(s) == in_progress

Marked(s) == [in_progress EXCEPT ![s] = TRUE]

\* ... and has wait_between passed?  If so mark it and spawn a sweep
LookAtTime ==
  LET s == thread.subtree
  IN  /\ thread.at = "idle"
      /\ IF elapsed[s]
         THEN /\ in_progress' = Marked(s)
              /\ pool' = Append(pool, s)
              /\ overtime' = [overtime EXCEPT ![s] = IF Observed(s) THEN 0 ELSE @ + 1]
         ELSE UNCHANGED <<in_progress, pool, overtime>>
      /\ thread' = [thread EXCEPT !.at = "scan", !.subtree = None]
      /\ UNCHANGED <<cached, subtrees, root_id, elapsed, changes, worker>>

Sleep ==
  /\ thread.at = "scan" /\ thread.todo = {}
  /\ thread' = Resting
  /\ UNCHANGED <<cached, subtrees, fields, pool, worker, overtime>>

----------------------------------------------------------------------------
\* The pool serves spawned jobs in their order
Start(w) ==
  /\ worker[w].at = "free" /\ pool # <<>>
  /\ worker' = [worker EXCEPT ![w] = [at |-> "clear", subtree |-> Head(pool), found |-> {}]]
  /\ pool' = Tail(pool)
  /\ UNCHANGED <<cached, subtrees, fields, thread, overtime>>

\* Fault: the changes of the previous sweep are kept
Uncleared(s) == changes

Cleared(s) == [changes EXCEPT ![s] = {}]

\* sweep_subtree holds changes from its report until it returns
Locked(s) == \E v \in Worker : worker[v].subtree = s /\ worker[v].at = "stamp_locked"

Clears(w) ==
  LET s == worker[w].subtree
  IN  /\ worker[w].at = "clear" /\ ~Locked(s)
      /\ changes' = Cleared(s)
      /\ worker' = [worker EXCEPT ![w].at = "read"]
      /\ UNCHANGED <<cached, subtrees, root_id, in_progress, elapsed, thread, pool, overtime>>

\* Fault: a sweep that finds no root does not clear in_progress
StaysMarked(s) == in_progress

NoLongerMarked(s) == [in_progress EXCEPT ![s] = FALSE]

\* Is the root cached?  If not there is nothing to sweep
ReadsRoot(w) ==
  LET s == worker[w].subtree
  IN  /\ worker[w].at = "read"
      /\ IF root_id[s] \in cached
         THEN worker' = [worker EXCEPT ![w].at = "sweep"] /\ UNCHANGED in_progress
         ELSE worker' = [worker EXCEPT ![w].at = "stamp"] /\ in_progress' = NoLongerMarked(s)
      /\ UNCHANGED <<cached, subtrees, root_id, elapsed, changes, thread, pool, overtime>>

\* sweep_element_recursive makes a change and records it
Finds(w, c) ==
  LET s == worker[w].subtree
  IN  /\ worker[w].at = "sweep" /\ c \notin worker[w].found
      /\ worker' = [worker EXCEPT ![w].found = @ \cup {c}]
      /\ changes' = [changes EXCEPT ![s] = @ \cup {c}]
      /\ UNCHANGED <<cached, subtrees, root_id, in_progress, elapsed, thread, pool, overtime>>

\* SubtreeChanged is sent if there are changes; the sweep is no longer in progress
Completes(w) ==
  LET s == worker[w].subtree
  IN  /\ worker[w].at = "sweep"
      /\ in_progress' = [in_progress EXCEPT ![s] = FALSE]
      /\ worker' = [worker EXCEPT ![w].at = "stamp_locked"]
      /\ UNCHANGED <<cached, subtrees, root_id, elapsed, changes, thread, pool, overtime>>

\* last_completed
Stamps(w) ==
  LET s == worker[w].subtree
  IN  /\ worker[w].at \in {"stamp", "stamp_locked"}
      /\ elapsed' = [elapsed EXCEPT ![s] = FALSE]
      /\ worker' = [worker EXCEPT ![w] = Free]
      /\ UNCHANGED <<cached, subtrees, root_id, in_progress, changes, thread, pool, overtime>>

ThreadStep == Wake \/ (\E s \in Subtree : LookAt(s)) \/ LookAtTime \/ Sleep

\* A sweep that ends: Finds is bounded by Change
WorkerStep(w) == Start(w) \/ Clears(w) \/ ReadsRoot(w) \/ Completes(w) \/ Stamps(w)

Next ==
  \/ \E r \in Root, s \in Subtree : Observe(r, s)
  \/ \E r \in Root : Unobserve(r) \/ RootDies(r)
  \/ \E s \in Subtree : Elapse(s)
  \/ ThreadStep
  \/ \E w \in Worker : WorkerStep(w)
  \/ \E w \in Worker, c \in Change : Finds(w, c)

Spec == Init /\ [][Next]_vars

\* Every thread gets the processor, and time passes
FairSpec ==
  /\ Spec
  /\ WF_vars(ThreadStep)
  /\ \A w \in Worker : WF_vars(WorkerStep(w))
  /\ \A s \in Subtree : WF_vars(Elapse(s))

----------------------------------------------------------------------------
\* The states of a worker in which a sweep of s is not over.
Sweeping(w, s) == worker[w].subtree = s /\ worker[w].at \in {"clear", "read", "sweep"}

(***************************************************************************)
(* "Prevents overlapping sweeps" (observation.rs:68): in_progress is set   *)
(* exactly while one sweep of the subtree waits in the pool or runs, and   *)
(* there is never a second one.  The flag is read in one step of the       *)
(* thread, set in a later one, and cleared by workers.                     *)
(***************************************************************************)
Waiting(s) == {i \in DOMAIN pool : pool[i] = s}
Running(s) == {w \in Worker : Sweeping(w, s)}

OneSweepAtATime ==
  \A s \in Subtree :
    Cardinality(Waiting(s)) + Cardinality(Running(s)) = IF in_progress[s] THEN 1 ELSE 0

(***************************************************************************)
(* A sweep reports exactly the changes it made, though the thread may      *)
(* spawn the next sweep of the same subtree while the last one still has   *)
(* to return (observation.rs:211, 236-258).                                *)
(***************************************************************************)
ReportsOwnChanges ==
  \A w \in Worker : worker[w].at \in {"sweep", "stamp_locked"} =>
    changes[worker[w].subtree] = worker[w].found

(***************************************************************************)
(* "Stop observing a subtree" (observation.rs:396): the thread may have    *)
(* copied the map before, but spawns at most one more sweep of an object   *)
(* that has left it, unobserved or replaced.                               *)
(***************************************************************************)
StopsSoon == \A s \in Subtree : overtime[s] <= 1

(***************************************************************************)
(* "The subtree will be polled periodically" (observation.rs:353): from    *)
(* any moment a subtree that stays in the map is swept once more, however  *)
(* many share the pool and though its root may have died.                  *)
(***************************************************************************)
KeepsSweeping ==
  \A s \in Subtree : Observed(s) ~> (~Observed(s) \/ \E w \in Worker : worker[w].subtree = s /\ worker[w].at = "read")
============================================================================
