------------------------------ MODULE CpuPool ------------------------------
(***************************************************************************)
(* CPUState of python_bindings/compiler_module.cpp: a compiled executable, *)
(* its persistent worker threads and the launches that share them.         *)
(* launchCPU cuts the output into jobs; launch() publishes them under      *)
(* mutex with a new generation, runs the first itself and waits until the  *)
(* workers counted the others.  The jobs point into the stack of the       *)
(* caller and are replaced by the next launch, both without asking.        *)
(***************************************************************************)
EXTENDS Integers, FiniteSets

CONSTANTS
  Launchers,    \* Python threads that launch the executable
  Nobody,       \* no thread
  Elements,     \* the output sizes they launch it with
  T,            \* threadCount
  V,            \* vectorWidth
  Large,        \* outputs of this size are cut, 4096 in the code
  MaxLaunches   \* bound: launches in one behaviour

ASSUME PoolAssumption ==
  /\ Elements \subseteq Nat /\ Nobody \notin Launchers
  /\ T \in Nat \ {0} /\ V \in Nat \ {0} /\ Large \in Nat /\ MaxLaunches \in Nat

WorkerIds == 1 .. (T - 1)
Smaller(a, b) == IF a < b THEN a ELSE b

-----------------------------------------------------------------------------
(* launchCPU: the jobs of an output of n elements.                         *)

RequestedThreads(n) == IF n >= Large THEN T ELSE 1

\* Variant: the share of a thread is rounded down.
ChunkVariant(n) == ((n \div RequestedThreads(n) + V - 1) \div V) * V

Chunk(n) ==
  LET rawChunk == (n + RequestedThreads(n) - 1) \div RequestedThreads(n)
  IN  ((rawChunk + V - 1) \div V) * V

JobBegin(n, w) == Smaller(n, w * Chunk(n))
JobEnd(n, w) == Smaller(n, JobBegin(n, w) + Chunk(n))

\* The loop ends with the threads, or at the first empty job.
JobCount(n) ==
  CHOOSE k \in 0 .. RequestedThreads(n) :
    /\ k = RequestedThreads(n) \/ JobBegin(n, k) >= JobEnd(n, k)
    /\ \A w \in 0 .. (k - 1) : JobBegin(n, w) < JobEnd(n, w)

VARIABLES
  pc,          \* a launcher: idle, locked, posted, own, waiting, blocked, done
  elements,    \* the output it launches
  launchMutex, \* its holder
  worker,      \* a worker: absent, checking, asleep, running, exited
  seen,        \* the generation it saw last
  size,        \* jobs.size()
  generation,
  completed,
  state,       \* the executable: live, stopping, joining, gone
  runs         \* history: how often each job of this generation ran

poolVars == <<pc, elements, launchMutex, worker, seen, size, generation, completed,
              state, runs>>
launcher == <<pc, elements, launchMutex>>
pool == <<worker, seen>>
batch == <<size, generation, completed, runs>>

PoolTypeOK ==
  /\ pc \in [Launchers -> {"idle", "locked", "posted", "own", "waiting", "blocked", "done"}]
  /\ elements \in [Launchers -> Nat]
  /\ launchMutex \in Launchers \cup {Nobody}
  /\ worker \in [WorkerIds -> {"absent", "checking", "asleep", "running", "exited"}]
  /\ seen \in [WorkerIds -> Nat]
  /\ size \in 0 .. T /\ generation \in Nat /\ completed \in 0 .. T
  /\ state \in {"live", "stopping", "joining", "gone"}
  /\ runs \in [0 .. (T - 1) -> Nat]

PoolInit ==
  /\ pc = [l \in Launchers |-> "idle"]
  /\ elements = [l \in Launchers |-> 0]
  /\ launchMutex = Nobody
  /\ worker = [w \in WorkerIds |-> "absent"]
  /\ seen = [w \in WorkerIds |-> 0]
  /\ size = 0 /\ generation = 0 /\ completed = 0
  /\ state = "live"
  /\ runs = [j \in 0 .. (T - 1) |-> 0]

-----------------------------------------------------------------------------
(* launch(), by the holder of launchMutex.                                 *)

\* An output without elements has no job and is not launched.  The workers are
\* created by the first launch with more than one job; a new thread looks at
\* the generation before this launch has published anything.
Enter(l) ==
  /\ state = "live" /\ pc[l] = "idle" /\ launchMutex = Nobody
  /\ generation < MaxLaunches
  /\ \E n \in Elements :
       /\ JobCount(n) > 0
       /\ elements' = [elements EXCEPT ![l] = n]
       /\ worker' = IF JobCount(n) > 1
                    THEN [w \in WorkerIds |->
                            IF worker[w] = "absent" THEN "checking" ELSE worker[w]]
                    ELSE worker
  /\ launchMutex' = l
  /\ pc' = [pc EXCEPT ![l] = "locked"]
  /\ UNCHANGED <<seen, batch, state>>

Post(l) ==
  /\ pc[l] = "locked"
  /\ size' = JobCount(elements[l])
  /\ completed' = 0
  /\ generation' = generation + 1
  /\ runs' = [j \in 0 .. (T - 1) |-> 0]
  /\ pc' = [pc EXCEPT ![l] = "posted"]
  /\ UNCHANGED <<elements, launchMutex, pool, state>>

WakeAll == worker' = [w \in WorkerIds |->
                        IF worker[w] = "asleep" THEN "checking" ELSE worker[w]]

Notify(l) ==
  /\ pc[l] = "posted" /\ WakeAll
  /\ pc' = [pc EXCEPT ![l] = "own"]
  /\ UNCHANGED <<elements, launchMutex, seen, batch, state>>

RunOwn(l) ==
  /\ pc[l] = "own"
  /\ runs' = [runs EXCEPT ![0] = @ + 1]
  /\ pc' = [pc EXCEPT ![l] = IF size = 1 THEN "done" ELSE "waiting"]
  /\ UNCHANGED <<elements, launchMutex, pool, size, generation, completed, state>>

\* workDone.wait: the predicate, then sleep.
Wait(l) ==
  /\ pc[l] = "waiting"
  /\ pc' = [pc EXCEPT ![l] = IF completed = size - 1 THEN "done" ELSE "blocked"]
  /\ UNCHANGED <<elements, launchMutex, pool, batch, state>>

Return(l) ==
  /\ pc[l] = "done"
  /\ launchMutex' = Nobody
  /\ pc' = [pc EXCEPT ![l] = "idle"]
  /\ UNCHANGED <<elements, pool, batch, state>>

-----------------------------------------------------------------------------
(* workerLoop.                                                             *)

\* Variant: one worker too many finds a job.
CheckVariant(w) ==
  /\ worker[w] = "checking"
  /\ worker' = [worker EXCEPT ![w] =
       CASE state # "live" -> "exited"
         [] state = "live" /\ generation = seen[w] -> "asleep"
         [] state = "live" /\ generation # seen[w] ->
              IF w > size THEN "checking" ELSE "running"]
  /\ seen' = [seen EXCEPT ![w] = IF state = "live" THEN generation ELSE @]
  /\ UNCHANGED <<launcher, batch, state>>

Check(w) ==
  /\ worker[w] = "checking"
  /\ worker' = [worker EXCEPT ![w] =
       CASE state # "live" -> "exited"
         [] state = "live" /\ generation = seen[w] -> "asleep"
         [] state = "live" /\ generation # seen[w] ->
              IF w >= size THEN "checking" ELSE "running"]
  /\ seen' = [seen EXCEPT ![w] = IF state = "live" THEN generation ELSE @]
  /\ UNCHANGED <<launcher, batch, state>>

\* Variant: the last worker is counted for one more.
LastVariant == completed + 1 = size

\* This job is the last one counted.
Last == completed + 1 = size - 1

FinishJob(w) ==
  /\ worker[w] = "running"
  /\ runs' = [runs EXCEPT ![w] = @ + 1]
  /\ completed' = completed + 1
  /\ pc' = [l \in Launchers |-> IF Last /\ pc[l] = "blocked" THEN "waiting" ELSE pc[l]]
  /\ worker' = [worker EXCEPT ![w] = "checking"]
  /\ UNCHANGED <<elements, launchMutex, seen, size, generation, state>>

\* Condition variables may wake without a reason.
Spurious ==
  /\ \/ \E w \in WorkerIds :
          worker[w] = "asleep" /\ worker' = [worker EXCEPT ![w] = "checking"] /\ UNCHANGED pc
     \/ \E l \in Launchers :
          pc[l] = "blocked" /\ pc' = [pc EXCEPT ![l] = "waiting"] /\ UNCHANGED worker
  /\ UNCHANGED <<elements, launchMutex, seen, batch, state>>

-----------------------------------------------------------------------------
(* ~CPUState: the capsule is dropped when no call holds it.                *)

Stop ==
  /\ state = "live" /\ \A l \in Launchers : pc[l] = "idle"
  /\ state' = "stopping" /\ generation' = generation + 1
  /\ UNCHANGED <<launcher, pool, size, completed, runs>>

NotifyStop ==
  /\ state = "stopping" /\ WakeAll /\ state' = "joining"
  /\ UNCHANGED <<launcher, seen, batch>>

Join ==
  /\ state = "joining" /\ \A w \in WorkerIds : worker[w] \in {"absent", "exited"}
  /\ state' = "gone"
  /\ UNCHANGED <<launcher, pool, batch>>

LaunchStep(l) ==
  \/ Post(l) \/ Notify(l) \/ RunOwn(l) \/ Wait(l) \/ Return(l)

PoolNext ==
  \/ \E l \in Launchers : Enter(l) \/ LaunchStep(l)
  \/ \E w \in WorkerIds : Check(w) \/ FinishJob(w)
  \/ Spurious \/ Stop \/ NotifyStop \/ Join

\* Threads run and jobs end; nobody has to launch or to drop the executable.
Fairness ==
  /\ \A l \in Launchers : WF_poolVars(LaunchStep(l))
  /\ \A w \in WorkerIds : WF_poolVars(Check(w) \/ FinishJob(w))
  /\ WF_poolVars(NotifyStop \/ Join)

PoolSpec == PoolInit /\ [][PoolNext]_poolVars /\ Fairness

-----------------------------------------------------------------------------
\* The jobs a worker reads are those of the launch that published them: they
\* are neither replaced nor gone with the stack of their caller.
JobsStable ==
  \A w \in WorkerIds : worker[w] = "running" =>
    /\ seen[w] = generation /\ w < size
    /\ \E l \in Launchers : pc[l] \in {"posted", "own", "waiting", "blocked"}

\* When a launch is over every element of its output was computed exactly once.
Computed(n, e) == {j \in 0 .. (T - 1) :
                    runs[j] > 0 /\ JobBegin(n, j) <= e /\ e < JobEnd(n, j)}

ElementsOnce ==
  \A l \in Launchers : pc[l] = "done" =>
    \A e \in 0 .. (elements[l] - 1) :
      \E j \in 0 .. (T - 1) : Computed(elements[l], e) = {j} /\ runs[j] = 1

\* A launch ends, and dropping the executable does.
LaunchEnds ==
  /\ \A l \in Launchers : pc[l] = "locked" ~> pc[l] = "idle"
  /\ state = "stopping" ~> state = "gone"
=============================================================================
