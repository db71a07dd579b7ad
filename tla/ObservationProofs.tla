------------------------- MODULE ObservationProofs -------------------------
(***************************************************************************)
(* The scheduling of sweeps, for any roots, subtrees and workers: sweeps   *)
(* of one subtree do not overlap, report what they found, and end soon     *)
(* after the subtree has left the map.                                     *)
(*                                                                         *)
(* The first property counts; its inductive form says that jobs differ and *)
(* that in_progress is set exactly for those there are.  It needs to know  *)
(* that what the thread has found idle is still idle when it marks it.     *)
(***************************************************************************)
EXTENDS Observation, SequenceTheorems, FiniteSetTheorems, TLAPS

Job == [at : {"free", "clear", "read", "sweep", "stamp", "stamp_locked"},
        subtree : Subtree \cup {None}, found : SUBSET Change]

\* Types, and which steps of the thread and the workers have a subtree.
Typed ==
  /\ cached \subseteq Root
  /\ subtrees \in [Root -> Subtree \cup {None}]
  /\ root_id \in [Subtree -> Root \cup {None}]
  /\ in_progress \in [Subtree -> BOOLEAN]
  /\ elapsed \in [Subtree -> BOOLEAN]
  /\ changes \in [Subtree -> SUBSET Change]
  /\ thread \in [at : {"sleep", "scan", "idle"}, todo : SUBSET Subtree, subtree : Subtree \cup {None}]
  /\ thread.at = "idle" <=> thread.subtree # None
  /\ pool \in Seq(Subtree)
  /\ worker \in [Worker -> Job]
  /\ \A w \in Worker : worker[w].at = "free" <=> worker[w].subtree = None
  /\ overtime \in [Subtree -> Nat]

\* No two jobs are for the same subtree, waiting or running.
JobsDiffer ==
  /\ \A i, j \in DOMAIN pool : pool[i] = pool[j] => i = j
  /\ \A s \in Subtree : \A v, w \in Worker : Sweeping(v, s) /\ Sweeping(w, s) => v = w
  /\ \A i \in DOMAIN pool : \A w \in Worker : ~Sweeping(w, pool[i])

\* in_progress is set for the subtrees that have a job ...
MarkedHaveJobs ==
  \A s \in Subtree :
    in_progress[s] <=> (\E i \in DOMAIN pool : pool[i] = s) \/ (\E w \in Worker : Sweeping(w, s))

\* ... and not for the one the thread is about to mark.
IdleIsUnmarked == thread.at = "idle" => ~in_progress[thread.subtree]

\* What a sweep recorded is what it found; while one still holds the lock of changes the next
\* sweep of the same subtree waits to clear them.
OwnChanges ==
  /\ \A w \in Worker : worker[w].at \in {"clear", "read"} => worker[w].found = {}
  /\ \A w \in Worker : worker[w].at \in {"read", "sweep", "stamp_locked"} =>
       changes[worker[w].subtree] = worker[w].found
  /\ \A v, w \in Worker :
       v # w /\ worker[w].at = "stamp_locked" /\ worker[v].subtree = worker[w].subtree =>
         worker[v].at \in {"clear", "stamp"}

\* Who is in the map, or still on the thread's list, has not been swept in overtime.
InTime ==
  /\ \A s \in Subtree : Observed(s) \/ s \in thread.todo \/ s = thread.subtree => overtime[s] = 0
  /\ thread.subtree \notin thread.todo
  /\ \A s \in Subtree : overtime[s] <= 1

IInv == Typed /\ JobsDiffer /\ MarkedHaveJobs /\ IdleIsUnmarked /\ OwnChanges /\ InTime

----------------------------------------------------------------------------
LEMMA InitHolds == Init => IInv
<1> SUFFICES ASSUME Init PROVE IInv
  OBVIOUS
<1>1. pool = <<>> /\ DOMAIN pool = {} /\ pool \in Seq(Subtree)
  BY DEF Init
<1>2. \A w \in Worker : worker[w] = Free
  BY DEF Init
<1>3. Typed
  BY <1>1, ObservationAssumption DEF Init, Typed, Job, Free, Resting
<1>4. JobsDiffer /\ MarkedHaveJobs
  BY <1>1, <1>2 DEF Init, JobsDiffer, MarkedHaveJobs, Sweeping, Free
<1>5. IdleIsUnmarked /\ OwnChanges
  BY <1>2 DEF Init, IdleIsUnmarked, OwnChanges, Free, Resting
<1>6. InTime
  BY DEF Init, InTime, Resting
<1> QED BY <1>3, <1>4, <1>5, <1>6 DEF IInv

\* A subtree that nothing holds has no job.
LEMMA ReleasedHasNoJob ==
  ASSUME Typed, NEW s \in Subtree, Released(s)
  PROVE  /\ \A i \in DOMAIN pool : pool[i] # s
         /\ \A w \in Worker : worker[w].subtree # s
         /\ s \notin thread.todo /\ s # thread.subtree
BY DEF Released, Range

\* What only depends on the jobs.
LEMMA SameJobs ==
  ASSUME JobsDiffer, MarkedHaveJobs, OwnChanges, UNCHANGED <<in_progress, changes, pool, worker>>
  PROVE  JobsDiffer' /\ MarkedHaveJobs' /\ OwnChanges'
BY DEF JobsDiffer, MarkedHaveJobs, OwnChanges, Sweeping

LEMMA SameRuns ==
  ASSUME JobsDiffer, MarkedHaveJobs, UNCHANGED <<in_progress, pool>>, pool \in Seq(Subtree),
         \A x \in Subtree : \A v \in Worker : Sweeping(v, x)' <=> Sweeping(v, x)
  PROVE  JobsDiffer' /\ MarkedHaveJobs'
<1>1. \A i \in DOMAIN pool : pool[i] \in Subtree
  OBVIOUS
<1>2. \A i \in DOMAIN pool : \A w \in Worker : ~Sweeping(w, pool[i])'
  BY <1>1 DEF JobsDiffer, Sweeping
<1> QED BY <1>1, <1>2 DEF JobsDiffer, MarkedHaveJobs

\* A worker ends its sweep and the subtree is no longer marked.
LEMMA RunEnds ==
  ASSUME Typed, JobsDiffer, MarkedHaveJobs, IdleIsUnmarked,
         NEW w \in Worker, NEW s \in Subtree, Sweeping(w, s),
         in_progress' = [in_progress EXCEPT ![s] = FALSE],
         worker'[w].at \in {"stamp", "stamp_locked"},
         \A v \in Worker \ {w} : worker'[v] = worker[v],
         UNCHANGED <<pool, thread>>
  PROVE  JobsDiffer' /\ MarkedHaveJobs' /\ IdleIsUnmarked'
<1>1. \A x : \A v \in Worker : Sweeping(v, x)' <=> Sweeping(v, x) /\ v # w
  BY DEF Sweeping
<1>2. \A i \in DOMAIN pool : pool[i] # s
  BY DEF JobsDiffer
<1>3. JobsDiffer'
  <2>1. \A i \in DOMAIN pool : \A v \in Worker : ~Sweeping(v, pool[i])'
    BY DEF JobsDiffer, Sweeping
  <2> QED BY <1>1, <2>1 DEF JobsDiffer
<1>4. MarkedHaveJobs'
  <2>1. \A v \in Worker : ~Sweeping(v, s)'
    BY <1>1 DEF JobsDiffer
  <2>2. \A x \in Subtree \ {s} : ~Sweeping(w, x)
    BY DEF Sweeping
  <2> QED BY <1>1, <1>2, <2>1, <2>2 DEF Typed, MarkedHaveJobs
<1>5. IdleIsUnmarked'
  BY DEF Typed, IdleIsUnmarked
<1> QED BY <1>3, <1>4, <1>5

\* The map, the cache and time change without the jobs.
LEMMA ObserveKeeps == ASSUME IInv, NEW r \in Root, NEW s \in Subtree, Observe(r, s) PROVE IInv'
<1>1. /\ \A i \in DOMAIN pool : pool[i] # s
      /\ \A w \in Worker : worker[w].subtree # s
      /\ s \notin thread.todo /\ s # thread.subtree
  BY ReleasedHasNoJob DEF IInv, Observe
<1>2. /\ subtrees' = [subtrees EXCEPT ![r] = s] /\ root_id' = [root_id EXCEPT ![s] = r]
      /\ in_progress' = [in_progress EXCEPT ![s] = FALSE]
      /\ elapsed' = [elapsed EXCEPT ![s] = TRUE] /\ changes' = [changes EXCEPT ![s] = {}]
      /\ overtime' = [overtime EXCEPT ![s] = 0]
      /\ UNCHANGED <<cached, thread, pool, worker>>
  BY DEF Observe
<1>3. Typed'
  BY <1>2 DEF IInv, Typed
<1>4. JobsDiffer'
  BY <1>2 DEF IInv, JobsDiffer, Sweeping
<1>5. MarkedHaveJobs'
  BY <1>1, <1>2 DEF IInv, Typed, MarkedHaveJobs, Sweeping
<1>6. IdleIsUnmarked'
  BY <1>1, <1>2 DEF IInv, Typed, IdleIsUnmarked
<1>7. OwnChanges'
  BY <1>1, <1>2 DEF IInv, Typed, OwnChanges, Job
<1>8. InTime'
  <2>1. \A x \in Subtree : Observed(x)' => Observed(x) \/ x = s
    BY <1>2 DEF IInv, Typed, Observed, Range
  <2>2. /\ overtime'[s] = 0 /\ thread' = thread
        /\ \A x \in Subtree \ {s} : overtime'[x] = overtime[x]
    BY <1>2 DEF IInv, Typed
  <2> QED BY <2>1, <2>2 DEF IInv, InTime
<1> QED BY <1>3, <1>4, <1>5, <1>6, <1>7, <1>8 DEF IInv

LEMMA UnobserveKeeps == ASSUME IInv, NEW r \in Root, Unobserve(r) PROVE IInv'
<1>1. subtrees' = [subtrees EXCEPT ![r] = None] /\ UNCHANGED <<cached, fields, thread, pool, worker, overtime>>
  BY DEF Unobserve
<1>2. Typed' /\ JobsDiffer' /\ MarkedHaveJobs' /\ IdleIsUnmarked' /\ OwnChanges'
  BY <1>1 DEF IInv, Typed, JobsDiffer, MarkedHaveJobs, IdleIsUnmarked, OwnChanges, Sweeping, fields
<1>3. \A x \in Subtree : Observed(x)' => Observed(x)
  BY <1>1, ObservationAssumption DEF IInv, Typed, Observed, Range
<1>4. InTime'
  BY <1>1, <1>3 DEF IInv, InTime
<1> QED BY <1>2, <1>4 DEF IInv

LEMMA RootDiesKeeps == ASSUME IInv, NEW r \in Root, RootDies(r) PROVE IInv'
BY DEF IInv, Typed, JobsDiffer, MarkedHaveJobs, IdleIsUnmarked, OwnChanges, InTime, Sweeping, Observed,
       RootDies, fields

LEMMA ElapseKeeps == ASSUME IInv, NEW s \in Subtree, Elapse(s) PROVE IInv'
<1>1. /\ elapsed' = [elapsed EXCEPT ![s] = TRUE]
      /\ UNCHANGED <<cached, subtrees, root_id, in_progress, changes, thread, pool, worker, overtime>>
  BY DEF Elapse
<1>2. Typed'
  BY <1>1 DEF IInv, Typed
<1> QED
  BY <1>1, <1>2, SameJobs DEF IInv, IdleIsUnmarked, InTime, Observed

----------------------------------------------------------------------------
\* The thread.
LEMMA WakeKeeps == ASSUME IInv, Wake PROVE IInv'
<1>1. /\ thread' = [at |-> "scan", todo |-> Copied, subtree |-> None]
      /\ UNCHANGED <<cached, subtrees, fields, pool, worker, overtime>>
  BY DEF Wake
<1>2. Copied \subseteq Subtree /\ \A x \in Copied : Observed(x)
  BY DEF IInv, Typed, Copied, Observed, Range
<1>3. Typed' /\ JobsDiffer' /\ MarkedHaveJobs' /\ IdleIsUnmarked' /\ OwnChanges'
  BY <1>1, <1>2 DEF IInv, Typed, JobsDiffer, MarkedHaveJobs, IdleIsUnmarked, OwnChanges, Sweeping, fields
<1>4. InTime'
  BY <1>1, <1>2, ObservationAssumption DEF IInv, InTime, Observed
<1> QED BY <1>3, <1>4 DEF IInv

LEMMA LookAtKeeps == ASSUME IInv, NEW s \in Subtree, LookAt(s) PROVE IInv'
<1>1. /\ thread.at = "scan" /\ s \in thread.todo
      /\ thread'.todo = thread.todo \ {s}
      /\ thread'.at = IF in_progress[s] THEN "scan" ELSE "idle"
      /\ thread'.subtree = IF in_progress[s] THEN None ELSE s
      /\ thread' \in [at : {"sleep", "scan", "idle"}, todo : SUBSET Subtree, subtree : Subtree \cup {None}]
      /\ UNCHANGED <<cached, subtrees, fields, pool, worker, overtime>>
  BY DEF LookAt, IInv, Typed
<1>2. Typed' /\ IdleIsUnmarked'
  <2>1. Typed'
    BY <1>1, ObservationAssumption DEF IInv, Typed, fields
  <2>2. IdleIsUnmarked'
    BY <1>1 DEF IdleIsUnmarked, fields
  <2> QED BY <2>1, <2>2
<1>3. InTime'
  BY <1>1, ObservationAssumption DEF IInv, Typed, InTime, Observed
<1> QED BY <1>1, <1>2, <1>3, SameJobs DEF IInv, fields

LEMMA SleepKeeps == ASSUME IInv, Sleep PROVE IInv'
<1>1. thread' = Resting /\ UNCHANGED <<cached, subtrees, fields, pool, worker, overtime>>
  BY DEF Sleep
<1> QED
  BY <1>1, ObservationAssumption
  DEF IInv, Typed, JobsDiffer, MarkedHaveJobs, IdleIsUnmarked, OwnChanges, InTime, Sweeping, Observed,
      Resting, fields

\* Marking a subtree and spawning its sweep: it had none.
LEMMA LookAtTimeKeeps == ASSUME IInv, LookAtTime PROVE IInv'
<1>0. thread.at = "idle" /\ thread.subtree \in Subtree
  BY DEF LookAtTime, IInv, Typed
<1> PICK s \in Subtree : s = thread.subtree
  BY <1>0
<1>1. /\ thread.at = "idle" /\ s = thread.subtree
      /\ thread' = [thread EXCEPT !.at = "scan", !.subtree = None]
      /\ UNCHANGED <<cached, subtrees, root_id, elapsed, changes, worker>>
  BY DEF LookAtTime, IInv, Typed
<1>2. /\ thread' \in [at : {"sleep", "scan", "idle"}, todo : SUBSET Subtree, subtree : Subtree \cup {None}]
      /\ thread'.at = "scan" /\ thread'.subtree = None /\ thread'.todo = thread.todo
  BY <1>1 DEF IInv, Typed
<1>3. CASE ~elapsed[s]
  <2>1. UNCHANGED <<in_progress, pool, overtime>>
    BY <1>3 DEF LookAtTime
  <2>2. Typed' /\ IdleIsUnmarked'
    BY <1>1, <1>2, <2>1 DEF IInv, Typed, IdleIsUnmarked
  <2>3. InTime'
    BY <1>1, <1>2, <2>1, ObservationAssumption DEF IInv, Typed, InTime, Observed
  <2> QED BY <1>1, <2>1, <2>2, <2>3, SameJobs DEF IInv
<1>4. CASE elapsed[s]
  <2>1. /\ in_progress' = [in_progress EXCEPT ![s] = TRUE]
        /\ pool' = Append(pool, s)
        /\ overtime' = [overtime EXCEPT ![s] = IF Observed(s) THEN 0 ELSE @ + 1]
    BY <1>4 DEF LookAtTime, Marked
  <2>2. (\A i \in DOMAIN pool : pool[i] # s) /\ (\A w \in Worker : ~Sweeping(w, s))
    BY <1>1 DEF IInv, IdleIsUnmarked, MarkedHaveJobs
  <2>3. /\ pool \in Seq(Subtree) /\ pool' \in Seq(Subtree) /\ DOMAIN pool' = DOMAIN pool \cup {Len(pool) + 1}
        /\ pool'[Len(pool) + 1] = s /\ \A i \in DOMAIN pool : pool'[i] = pool[i]
    BY <1>1, <2>1, AppendProperties, LenProperties DEF IInv, Typed
  <2>4. overtime[s] = 0 /\ overtime'[s] \in 0..1 /\ \A x \in Subtree \ {s} : overtime'[x] = overtime[x]
    BY <1>1, <2>1 DEF IInv, Typed, InTime
  <2>5. Typed'
    BY <1>1, <1>2, <2>1, <2>3 DEF IInv, Typed
  <2>6. JobsDiffer'
    BY <1>1, <2>2, <2>3 DEF IInv, JobsDiffer, Sweeping
  <2>7. MarkedHaveJobs'
    <3>1. in_progress'[s] /\ \A x \in Subtree \ {s} : in_progress'[x] = in_progress[x]
      BY <2>1 DEF IInv, Typed
    <3>2. \A x \in Subtree, w \in Worker : Sweeping(w, x)' <=> Sweeping(w, x)
      BY <1>1 DEF Sweeping
    <3>3. \A x \in Subtree \ {s} :
            (\E i \in DOMAIN pool' : pool'[i] = x) <=> (\E i \in DOMAIN pool : pool[i] = x)
      BY <2>3
    <3>4. \E i \in DOMAIN pool' : pool'[i] = s
      BY <2>3
    <3>5. ASSUME NEW x \in Subtree
          PROVE  in_progress'[x] <=> \/ \E i \in DOMAIN pool' : pool'[i] = x
                                    \/ \E w \in Worker : Sweeping(w, x)'
      BY <3>1, <3>2, <3>3, <3>4 DEF IInv, MarkedHaveJobs
    <3> QED BY <3>5 DEF MarkedHaveJobs
  <2>8. IdleIsUnmarked' /\ OwnChanges'
    BY <1>1, <1>2 DEF IInv, IdleIsUnmarked, OwnChanges
  <2>9. InTime'
    <3>1. \A x \in Subtree : Observed(x)' <=> Observed(x)
      BY <1>1 DEF Observed
    <3>2. overtime'[s] = 0 \/ ~Observed(s)
      BY <1>1, <2>1, <2>4 DEF IInv, Typed
    <3>3. s \notin thread.todo
      BY <1>1 DEF IInv, InTime
    <3>4. ASSUME NEW x \in Subtree, Observed(x)' \/ x \in thread'.todo \/ x = thread'.subtree
          PROVE  overtime'[x] = 0
      BY <1>2, <2>4, <3>1, <3>2, <3>3, <3>4, ObservationAssumption DEF IInv, InTime
    <3>5. \A x \in Subtree : overtime'[x] <= 1
      BY <2>4 DEF IInv, InTime
    <3>6. thread'.subtree \notin thread'.todo
      BY <1>2, ObservationAssumption DEF IInv, Typed
    <3> QED BY <3>4, <3>5, <3>6 DEF InTime
  <2> QED BY <2>5, <2>6, <2>7, <2>8, <2>9 DEF IInv
<1> QED BY <1>3, <1>4

----------------------------------------------------------------------------
\* The workers.
LEMMA StartKeeps == ASSUME IInv, NEW w \in Worker, Start(w) PROVE IInv'
<1> PICK s : s = Head(pool)
  OBVIOUS
<1>1. /\ worker[w].at = "free" /\ pool # <<>> /\ s = Head(pool)
      /\ worker' = [worker EXCEPT ![w] = [at |-> "clear", subtree |-> s, found |-> {}]]
      /\ pool' = Tail(pool)
      /\ UNCHANGED <<cached, subtrees, fields, thread, overtime>>
  BY DEF Start
<1>2. /\ pool \in Seq(Subtree) /\ pool' \in Seq(Subtree) /\ s \in Subtree
      /\ 1 \in DOMAIN pool /\ pool[1] = s
      /\ \A i \in DOMAIN pool' : i + 1 \in DOMAIN pool /\ i + 1 # 1 /\ pool'[i] = pool[i + 1]
      /\ \A i \in DOMAIN pool : i # 1 => i - 1 \in DOMAIN pool' /\ pool'[i - 1] = pool[i]
      /\ DOMAIN pool \subseteq Nat /\ DOMAIN pool' \subseteq Nat
  BY <1>1, HeadTailProperties, EmptySeq, LenProperties DEF IInv, Typed
<1>3. /\ worker'[w] = [at |-> "clear", subtree |-> s, found |-> {}]
      /\ \A v \in Worker \ {w} : worker'[v] = worker[v]
      /\ worker' \in [Worker -> Job] /\ s # None
  BY <1>1, <1>2, ObservationAssumption DEF IInv, Typed, Job
<1>4. Typed'
  BY <1>1, <1>2, <1>3 DEF IInv, Typed, fields
<1>5. \A x \in Subtree : \A v \in Worker : Sweeping(v, x)' <=> Sweeping(v, x) \/ (v = w /\ x = s)
  BY <1>1, <1>3 DEF Sweeping
<1>6. \A v \in Worker : ~Sweeping(v, s)
  BY <1>2 DEF IInv, JobsDiffer
<1>7. JobsDiffer'
  <2>1. \A i, j \in DOMAIN pool' : pool'[i] = pool'[j] => i = j
    BY <1>2 DEF IInv, JobsDiffer
  <2>2. \A x \in Subtree : \A v, u \in Worker : Sweeping(v, x)' /\ Sweeping(u, x)' => v = u
    BY <1>5, <1>6 DEF IInv, JobsDiffer
  <2>3. ASSUME NEW x \in Subtree, NEW i \in DOMAIN pool', x = pool'[i], NEW v \in Worker
        PROVE  ~Sweeping(v, x)'
    <3>1. x # s /\ ~Sweeping(v, x)
      BY <1>2, <2>3 DEF IInv, JobsDiffer
    <3> QED BY <1>5, <3>1
  <2>4. \A i \in DOMAIN pool' : pool'[i] \in Subtree
    BY <1>2
  <2> QED BY <2>1, <2>2, <2>3, <2>4 DEF JobsDiffer, Sweeping
<1>8. MarkedHaveJobs'
  <2> SUFFICES ASSUME NEW x \in Subtree
               PROVE  in_progress[x] <=> (\E i \in DOMAIN pool' : pool'[i] = x) \/ (\E v \in Worker : Sweeping(v, x)')
    BY <1>1 DEF MarkedHaveJobs, fields
  <2>1. in_progress[x] <=> (\E i \in DOMAIN pool : pool[i] = x) \/ (\E v \in Worker : Sweeping(v, x))
    BY DEF IInv, MarkedHaveJobs
  <2>2. CASE x = s
    BY <1>2, <1>5, <2>1, <2>2
  <2>3. CASE x # s
    <3>1. (\E i \in DOMAIN pool' : pool'[i] = x) <=> (\E i \in DOMAIN pool : pool[i] = x)
      BY <1>2, <2>3
    <3> QED BY <1>5, <2>1, <2>3, <3>1
  <2> QED BY <2>2, <2>3
<1>9. OwnChanges'
  <2>1. \A v \in Worker : worker[v].at = "stamp_locked" => worker[v].subtree \in Subtree
    BY DEF IInv, Typed, Job
  <2> QED BY <1>1, <1>3, <2>1 DEF IInv, OwnChanges, fields
<1>10. IdleIsUnmarked' /\ InTime'
  BY <1>1 DEF IInv, IdleIsUnmarked, InTime, Observed, fields
<1> QED BY <1>4, <1>7, <1>8, <1>9, <1>10 DEF IInv

\* A sweep waits for the last one of its subtree before it clears what that reported.
LEMMA ClearsKeeps == ASSUME IInv, NEW w \in Worker, Clears(w) PROVE IInv'
<1>0. worker[w].at = "clear" /\ worker[w].subtree \in Subtree /\ ~Locked(worker[w].subtree)
  BY DEF Clears, IInv, Typed, Job
<1> PICK s \in Subtree : s = worker[w].subtree
  BY <1>0
<1>1. /\ changes' = [changes EXCEPT ![s] = {}]
      /\ worker' = [worker EXCEPT ![w].at = "read"]
      /\ UNCHANGED <<cached, subtrees, root_id, in_progress, elapsed, thread, pool, overtime>>
  BY DEF Clears, Cleared
<1>2. /\ worker' \in [Worker -> Job]
      /\ worker'[w].at = "read" /\ worker'[w].subtree = s /\ worker'[w].found = worker[w].found
      /\ \A v \in Worker \ {w} : worker'[v] = worker[v]
  BY <1>1 DEF IInv, Typed, Job
<1>3. /\ worker[w].found = {} /\ changes'[s] = {}
      /\ \A x \in Subtree \ {s} : changes'[x] = changes[x]
  BY <1>0, <1>1 DEF IInv, Typed, OwnChanges
<1>4. \A x \in Subtree : \A v \in Worker : Sweeping(v, x)' <=> Sweeping(v, x)
  BY <1>0, <1>2 DEF Sweeping
<1>5. Typed'
  BY <1>0, <1>1, <1>2, ObservationAssumption DEF IInv, Typed
<1>6. JobsDiffer' /\ MarkedHaveJobs'
  BY <1>1, <1>4, SameRuns DEF IInv, Typed
<1>7. OwnChanges'
  <2>1. ASSUME NEW v \in Worker \ {w}, worker[v].subtree = s
        PROVE  worker[v].at \notin {"read", "sweep", "stamp_locked"}
    BY <1>0, <2>1 DEF IInv, JobsDiffer, Sweeping, Locked
  <2>2. \A v \in Worker : worker[v].at # "free" => worker[v].subtree \in Subtree
    BY DEF IInv, Typed, Job
  <2>3. \A v \in Worker \ {w} : worker[v].at \in {"read", "sweep", "stamp_locked"} =>
          worker[v].subtree \in Subtree \ {s}
    BY <2>1, <2>2
  <2>4. \A v \in Worker : worker'[v].at \in {"clear", "read"} => worker'[v].found = {}
    BY <1>0, <1>2, <1>3 DEF IInv, OwnChanges
  <2>5. ASSUME NEW v \in Worker, worker'[v].at \in {"read", "sweep", "stamp_locked"}
        PROVE  changes'[worker'[v].subtree] = worker'[v].found
    <3>1. CASE v = w
      BY <1>2, <1>3, <3>1
    <3>2. CASE v # w
      BY <1>2, <1>3, <2>3, <2>5, <3>2 DEF IInv, OwnChanges
    <3> QED BY <3>1, <3>2
  <2>6. \A u, v \in Worker : u # v /\ worker'[v].at = "stamp_locked" /\ worker'[u].subtree = worker'[v].subtree =>
          worker'[u].at \in {"clear", "stamp"}
    BY <1>0, <1>2, <2>1 DEF IInv, OwnChanges
  <2> QED BY <2>4, <2>5, <2>6 DEF OwnChanges
<1>8. IdleIsUnmarked' /\ InTime'
  BY <1>1 DEF IInv, IdleIsUnmarked, InTime, Observed
<1> QED BY <1>5, <1>6, <1>7, <1>8 DEF IInv

\* A sweep of a root that is gone ends at once.
LEMMA ReadsRootKeeps == ASSUME IInv, NEW w \in Worker, ReadsRoot(w) PROVE IInv'
<1>0. worker[w].at = "read" /\ worker[w].subtree \in Subtree
  BY DEF ReadsRoot, IInv, Typed, Job
<1> PICK s \in Subtree : s = worker[w].subtree
  BY <1>0
<1>1. UNCHANGED <<cached, subtrees, root_id, elapsed, changes, thread, pool, overtime>>
  BY DEF ReadsRoot
<1>2. CASE root_id[s] \in cached
  <2>1. worker' = [worker EXCEPT ![w].at = "sweep"] /\ UNCHANGED in_progress
    BY <1>2 DEF ReadsRoot
  <2>2. /\ worker' \in [Worker -> Job]
        /\ worker'[w].at = "sweep" /\ worker'[w].subtree = s /\ worker'[w].found = worker[w].found
        /\ \A v \in Worker \ {w} : worker'[v] = worker[v]
    BY <2>1 DEF IInv, Typed, Job
  <2>3. \A x \in Subtree : \A v \in Worker : Sweeping(v, x)' <=> Sweeping(v, x)
    BY <1>0, <2>2 DEF Sweeping
  <2>4. Typed'
    BY <1>0, <1>1, <2>1, <2>2, ObservationAssumption DEF IInv, Typed
  <2>5. JobsDiffer' /\ MarkedHaveJobs'
    BY <1>1, <2>1, <2>3, SameRuns DEF IInv, Typed
  <2>6. OwnChanges'
    BY <1>0, <1>1, <2>2 DEF IInv, OwnChanges
  <2>7. IdleIsUnmarked' /\ InTime'
    BY <1>1, <2>1 DEF IInv, IdleIsUnmarked, InTime, Observed
  <2> QED BY <2>4, <2>5, <2>6, <2>7 DEF IInv
<1>3. CASE root_id[s] \notin cached
  <2>1. worker' = [worker EXCEPT ![w].at = "stamp"] /\ in_progress' = [in_progress EXCEPT ![s] = FALSE]
    BY <1>3 DEF ReadsRoot, NoLongerMarked
  <2>2. /\ worker' \in [Worker -> Job]
        /\ worker'[w].at = "stamp" /\ worker'[w].subtree = s
        /\ \A v \in Worker \ {w} : worker'[v] = worker[v]
    BY <2>1 DEF IInv, Typed, Job
  <2>3. Typed'
    BY <1>0, <1>1, <2>1, <2>2, ObservationAssumption DEF IInv, Typed
  <2>4. JobsDiffer' /\ MarkedHaveJobs' /\ IdleIsUnmarked'
    BY <1>0, <1>1, <2>1, <2>2, RunEnds DEF IInv, Sweeping
  <2>5. OwnChanges'
    BY <1>0, <1>1, <2>2 DEF IInv, OwnChanges
  <2>6. InTime'
    BY <1>1 DEF IInv, InTime, Observed
  <2> QED BY <2>3, <2>4, <2>5, <2>6 DEF IInv
<1> QED BY <1>2, <1>3

LEMMA FindsKeeps == ASSUME IInv, NEW w \in Worker, NEW c \in Change, Finds(w, c) PROVE IInv'
<1>0. worker[w].at = "sweep" /\ worker[w].subtree \in Subtree
  BY DEF Finds, IInv, Typed, Job
<1> PICK s \in Subtree : s = worker[w].subtree
  BY <1>0
<1>1. /\ worker' = [worker EXCEPT ![w].found = @ \cup {c}]
      /\ changes' = [changes EXCEPT ![s] = @ \cup {c}]
      /\ UNCHANGED <<cached, subtrees, root_id, in_progress, elapsed, thread, pool, overtime>>
  BY DEF Finds
<1>2. /\ worker' \in [Worker -> Job]
      /\ worker'[w].at = "sweep" /\ worker'[w].subtree = s /\ worker'[w].found = worker[w].found \cup {c}
      /\ \A v \in Worker \ {w} : worker'[v] = worker[v]
  BY <1>0, <1>1 DEF IInv, Typed, Job
<1>3. /\ changes'[s] = worker'[w].found
      /\ \A x \in Subtree \ {s} : changes'[x] = changes[x]
  BY <1>0, <1>1, <1>2 DEF IInv, Typed, OwnChanges
<1>4. \A x \in Subtree : \A v \in Worker : Sweeping(v, x)' <=> Sweeping(v, x)
  BY <1>0, <1>2 DEF Sweeping
<1>5. Typed'
  BY <1>0, <1>1, <1>2, ObservationAssumption DEF IInv, Typed
<1>6. JobsDiffer' /\ MarkedHaveJobs'
  BY <1>1, <1>4, SameRuns DEF IInv, Typed
<1>7. OwnChanges'
  <2>1. ASSUME NEW v \in Worker \ {w}, worker[v].subtree = s
        PROVE  worker[v].at \notin {"read", "sweep", "stamp_locked"}
    BY <1>0, <2>1 DEF IInv, JobsDiffer, OwnChanges, Sweeping
  <2>2. \A v \in Worker : worker[v].at # "free" => worker[v].subtree \in Subtree
    BY DEF IInv, Typed, Job
  <2>3. \A v \in Worker \ {w} : worker[v].at \in {"read", "sweep", "stamp_locked"} =>
          worker[v].subtree \in Subtree \ {s}
    BY <2>1, <2>2
  <2>4. \A v \in Worker : worker'[v].at \in {"clear", "read"} => worker'[v].found = {}
    BY <1>0, <1>2, <1>3 DEF IInv, OwnChanges
  <2>5. ASSUME NEW v \in Worker, worker'[v].at \in {"read", "sweep", "stamp_locked"}
        PROVE  changes'[worker'[v].subtree] = worker'[v].found
    <3>1. CASE v = w
      BY <1>2, <1>3, <3>1
    <3>2. CASE v # w
      BY <1>2, <1>3, <2>3, <2>5, <3>2 DEF IInv, OwnChanges
    <3> QED BY <3>1, <3>2
  <2>6. \A u, v \in Worker : u # v /\ worker'[v].at = "stamp_locked" /\ worker'[u].subtree = worker'[v].subtree =>
          worker'[u].at \in {"clear", "stamp"}
    BY <1>0, <1>2, <2>1 DEF IInv, OwnChanges
  <2> QED BY <2>4, <2>5, <2>6 DEF OwnChanges
<1>8. IdleIsUnmarked' /\ InTime'
  BY <1>1 DEF IInv, IdleIsUnmarked, InTime, Observed
<1> QED BY <1>5, <1>6, <1>7, <1>8 DEF IInv

LEMMA CompletesKeeps == ASSUME IInv, NEW w \in Worker, Completes(w) PROVE IInv'
<1>0. worker[w].at = "sweep" /\ worker[w].subtree \in Subtree
  BY DEF Completes, IInv, Typed, Job
<1> PICK s \in Subtree : s = worker[w].subtree
  BY <1>0
<1>1. /\ in_progress' = [in_progress EXCEPT ![s] = FALSE]
      /\ worker' = [worker EXCEPT ![w].at = "stamp_locked"]
      /\ UNCHANGED <<cached, subtrees, root_id, elapsed, changes, thread, pool, overtime>>
  BY DEF Completes
<1>2. /\ worker' \in [Worker -> Job]
      /\ worker'[w].at = "stamp_locked" /\ worker'[w].subtree = s /\ worker'[w].found = worker[w].found
      /\ \A v \in Worker \ {w} : worker'[v] = worker[v]
  BY <1>1 DEF IInv, Typed, Job
<1>3. Typed'
  BY <1>0, <1>1, <1>2, ObservationAssumption DEF IInv, Typed
<1>4. JobsDiffer' /\ MarkedHaveJobs' /\ IdleIsUnmarked'
  BY <1>0, <1>1, <1>2, RunEnds DEF IInv, Sweeping
<1>5. OwnChanges'
  <2>1. ASSUME NEW v \in Worker \ {w}, worker[v].subtree = s
        PROVE  worker[v].at \in {"clear", "stamp"}
    <3>1. worker[v].at # "stamp_locked"
      BY <1>0, <2>1 DEF IInv, OwnChanges
    <3>2. worker[v].at \notin {"read", "sweep"}
      BY <1>0, <2>1 DEF IInv, JobsDiffer, Sweeping
    <3>3. worker[v].at # "free"
      BY <2>1, ObservationAssumption DEF IInv, Typed
    <3> QED BY <3>1, <3>2, <3>3 DEF IInv, Typed, Job
  <2> QED BY <1>0, <1>1, <1>2, <2>1 DEF IInv, OwnChanges
<1>6. InTime'
  BY <1>1 DEF IInv, InTime, Observed
<1> QED BY <1>3, <1>4, <1>5, <1>6 DEF IInv

LEMMA StampsKeeps == ASSUME IInv, NEW w \in Worker, Stamps(w) PROVE IInv'
<1>1. /\ worker[w].at \in {"stamp", "stamp_locked"} /\ worker[w].subtree \in Subtree
      /\ elapsed' = [elapsed EXCEPT ![worker[w].subtree] = FALSE]
      /\ worker' = [worker EXCEPT ![w] = Free]
      /\ UNCHANGED <<cached, subtrees, root_id, in_progress, changes, thread, pool, overtime>>
  BY DEF Stamps, IInv, Typed, Job
<1>2. /\ worker' \in [Worker -> Job] /\ worker'[w] = Free
      /\ \A v \in Worker \ {w} : worker'[v] = worker[v]
  BY <1>1 DEF IInv, Typed, Job, Free
<1>3. \A x \in Subtree : \A v \in Worker : Sweeping(v, x)' <=> Sweeping(v, x)
  BY <1>1, <1>2 DEF Sweeping, Free
<1>4. Typed'
  BY <1>1, <1>2 DEF IInv, Typed, Free
<1>5. JobsDiffer' /\ MarkedHaveJobs'
  BY <1>1, <1>3, SameRuns DEF IInv, Typed
<1>6. OwnChanges'
  <2>1. worker'[w].at = "free" /\ worker'[w].subtree = None
    BY <1>2 DEF Free
  <2>2. \A v \in Worker : worker[v].at # "free" => worker[v].subtree # None
    BY DEF IInv, Typed
  <2> QED BY <1>1, <1>2, <2>1, <2>2 DEF IInv, OwnChanges
<1>7. IdleIsUnmarked' /\ InTime'
  BY <1>1 DEF IInv, IdleIsUnmarked, InTime, Observed
<1> QED BY <1>4, <1>5, <1>6, <1>7 DEF IInv

----------------------------------------------------------------------------
LEMMA StepKeeps == IInv /\ [Next]_vars => IInv'
<1> SUFFICES ASSUME IInv, [Next]_vars PROVE IInv'
  OBVIOUS
<1>1. CASE UNCHANGED vars
  BY <1>1, SameJobs DEF IInv, Typed, IdleIsUnmarked, InTime, Observed, vars, fields
<1>2. ASSUME NEW r \in Root, NEW s \in Subtree, Observe(r, s) PROVE IInv'
  BY <1>2, ObserveKeeps
<1>3. ASSUME NEW r \in Root, Unobserve(r) \/ RootDies(r) PROVE IInv'
  BY <1>3, UnobserveKeeps, RootDiesKeeps
<1>4. ASSUME NEW s \in Subtree, Elapse(s) PROVE IInv'
  BY <1>4, ElapseKeeps
<1>5. CASE ThreadStep
  BY <1>5, WakeKeeps, LookAtKeeps, LookAtTimeKeeps, SleepKeeps DEF ThreadStep
<1>6. ASSUME NEW w \in Worker, WorkerStep(w) PROVE IInv'
  BY <1>6, StartKeeps, ClearsKeeps, ReadsRootKeeps, CompletesKeeps, StampsKeeps DEF WorkerStep
<1>7. ASSUME NEW w \in Worker, NEW c \in Change, Finds(w, c) PROVE IInv'
  BY <1>7, FindsKeeps
<1> QED BY <1>1, <1>2, <1>3, <1>4, <1>5, <1>6, <1>7 DEF Next

LEMMA Invariance == Spec => []IInv
BY InitHolds, StepKeeps, PTL DEF Spec

\* "Prevents overlapping sweeps" (observation.rs:68): the jobs of a subtree, waiting and running,
\* are one if it is marked and none if it is not, for any number of subtrees and workers.
THEOREM SweepsDoNotOverlap == Spec => []OneSweepAtATime
<1>1. IInv => OneSweepAtATime
  <2> SUFFICES ASSUME IInv, NEW s \in Subtree
               PROVE  Cardinality(Waiting(s)) + Cardinality(Running(s)) = IF in_progress[s] THEN 1 ELSE 0
    BY DEF OneSweepAtATime
  <2>1. in_progress[s] <=> Waiting(s) # {} \/ Running(s) # {}
    BY DEF IInv, MarkedHaveJobs, Waiting, Running
  <2>2. Waiting(s) = {} \/ Running(s) = {}
    BY DEF IInv, JobsDiffer, Waiting, Running
  <2>3. Waiting(s) = {} \/ \E i : Waiting(s) = {i}
    BY DEF IInv, JobsDiffer, Waiting
  <2>4. Running(s) = {} \/ \E w : Running(s) = {w}
    BY DEF IInv, JobsDiffer, Running
  <2>5. Cardinality({}) = 0 /\ \A x : Cardinality({x}) = 1
    BY FS_EmptySet, FS_Singleton
  <2> HIDE DEF Waiting, Running
  <2> QED BY <2>1, <2>2, <2>3, <2>4, <2>5
<1> QED BY <1>1, Invariance, PTL

\* A sweep reports what it found, though the next sweep of the subtree may have been spawned
\* (observation.rs:211, 236-258).
THEOREM SweepsReportTheirOwn == Spec => []ReportsOwnChanges
<1>1. IInv => ReportsOwnChanges
  BY DEF IInv, OwnChanges, ReportsOwnChanges
<1> QED BY <1>1, Invariance, PTL

\* "Stop observing a subtree" (observation.rs:396): at most one sweep is spawned for a subtree
\* after it has left the map.
THEOREM SweepsStopSoon == Spec => []StopsSoon
<1>1. IInv => StopsSoon
  BY DEF IInv, InTime, StopsSoon
<1> QED BY <1>1, Invariance, PTL
============================================================================
