--------------------------- MODULE StrandExecutor ---------------------------
(***************************************************************************)
(* nhope::StrandExecutor (lib/async/strand-executor.cpp): a sequence       *)
(* executor over any Executor.  At most one job of the strand is handed to *)
(* the origin executor at a time; the job takes one work off m_taskQueue,  *)
(* runs it with m_mutex released (ReverseLock) and hands over the next     *)
(* job.  Every section under m_mutex is one action; a work runs between    *)
(* two of them, so submissions and the destructor interleave with it.      *)
(***************************************************************************)
EXTENDS Naturals, Sequences

CONSTANTS Works,        \* identities of the submitted works
          Threads,      \* threads of the origin executor
          NoWork        \* no work is being run

ASSUME NoWorkAssumption == NoWork \notin Works

VARIABLES queue,        \* m_taskQueue
          idle,         \* m_idle
          jobs,         \* jobs of this strand waiting in the origin executor
          destroyed,    \* ~StrandExecutor was called
          pc,           \* where each origin thread is in the scheduled lambda
          cur,          \* nextWork, the work an origin thread runs
          status        \* history: where each work is in its life

strandVars == <<queue, idle, jobs, destroyed, pc, cur, status>>

StrandInit ==
  /\ queue = <<>>
  /\ idle = TRUE
  /\ jobs = 0
  /\ destroyed = FALSE
  /\ pc = [t \in Threads |-> "free"]
  /\ cur = [t \in Threads |-> NoWork]
  /\ status = [w \in Works |-> "new"]

-----------------------------------------------------------------------------
\* Mutant: m_idle is left TRUE when the first job is scheduled.
ExecKeepsIdle(w) ==
  /\ ~destroyed
  /\ status[w] = "new"
  /\ queue' = Append(queue, w)
  /\ status' = [status EXCEPT ![w] = "queued"]
  /\ jobs' = IF idle THEN jobs + 1 ELSE jobs
  /\ UNCHANGED <<idle, destroyed, pc, cur>>

\* Mutant: a work submitted from outside jumps the queue.
ExecAtFront(w) ==
  /\ ~destroyed
  /\ status[w] = "new"
  /\ queue' = <<w>> \o queue
  /\ status' = [status EXCEPT ![w] = "queued"]
  /\ IF idle THEN idle' = FALSE /\ jobs' = jobs + 1
             ELSE UNCHANGED <<idle, jobs>>
  /\ UNCHANGED <<destroyed, pc, cur>>

\* StrandExecutor::exec, from any thread and also from a work being run (the
\* mode is ignored).  ~StrandExecutor ends the submissions.
Exec(w) ==
  /\ ~destroyed
  /\ status[w] = "new"
  /\ queue' = Append(queue, w)
  /\ status' = [status EXCEPT ![w] = "queued"]
  /\ IF idle THEN idle' = FALSE /\ jobs' = jobs + 1
             ELSE UNCHANGED <<idle, jobs>>
  /\ UNCHANGED <<destroyed, pc, cur>>

\* ~StrandExecutor: Impl::clear.  The Impl lives on in the scheduled lambda.
Clear ==
  /\ ~destroyed
  /\ destroyed' = TRUE
  /\ queue' = <<>>
  /\ status' = [w \in Works |-> IF status[w] = "queued"
                                THEN "discarded" ELSE status[w]]
  /\ UNCHANGED <<idle, jobs, pc, cur>>

\* A thread of the origin executor begins the scheduled lambda.
StartJob(t) ==
  /\ pc[t] = "free"
  /\ jobs > 0
  /\ jobs' = jobs - 1
  /\ pc' = [pc EXCEPT ![t] = "job"]
  /\ UNCHANGED <<queue, idle, destroyed, cur, status>>

\* The first section under the mutex finds nothing to do: ~StrandExecutor
\* emptied the queue after the job was scheduled.
FindNothing(t) ==
  /\ pc[t] = "job"
  /\ queue = <<>>
  /\ idle' = TRUE
  /\ pc' = [pc EXCEPT ![t] = "free"]
  /\ UNCHANGED <<queue, jobs, destroyed, cur, status>>

\* ... or takes the front of the queue and releases the mutex to run it.
TakeWork(t) ==
  /\ pc[t] = "job"
  /\ queue # <<>>
  /\ cur' = [cur EXCEPT ![t] = Head(queue)]
  /\ queue' = Tail(queue)
  /\ status' = [status EXCEPT ![Head(queue)] = "running"]
  /\ pc' = [pc EXCEPT ![t] = "run"]
  /\ UNCHANGED <<idle, jobs, destroyed>>

\* The work returns or throws (the exception is swallowed).
FinishWork(t) ==
  /\ pc[t] = "run"
  /\ status' = [status EXCEPT ![cur[t]] = "finished"]
  /\ pc' = [pc EXCEPT ![t] = "relock"]
  /\ UNCHANGED <<queue, idle, jobs, destroyed, cur>>

\* Mutant: scheduleNextWork goes idle without looking at the queue again.
ScheduleNothing(t) ==
  /\ pc[t] = "relock"
  /\ idle' = TRUE
  /\ pc' = [pc EXCEPT ![t] = "free"]
  /\ cur' = [cur EXCEPT ![t] = NoWork]
  /\ UNCHANGED <<queue, jobs, destroyed, status>>

\* scheduleNextWork, after the mutex is taken back.
ScheduleNextWork(t) ==
  /\ pc[t] = "relock"
  /\ IF queue = <<>> THEN idle' = TRUE /\ UNCHANGED jobs
                     ELSE jobs' = jobs + 1 /\ UNCHANGED idle
  /\ pc' = [pc EXCEPT ![t] = "free"]
  /\ cur' = [cur EXCEPT ![t] = NoWork]
  /\ UNCHANGED <<queue, destroyed, status>>

JobStep(t) == \/ FindNothing(t) \/ TakeWork(t)
              \/ FinishWork(t) \/ ScheduleNextWork(t)

\* The strand is gone and its last job has returned: the system has stopped.
Quiescent == /\ destroyed
             /\ jobs = 0
             /\ \A t \in Threads : pc[t] = "free"
             /\ UNCHANGED strandVars

StrandNext ==
  \/ \E w \in Works : Exec(w)
  \/ Clear
  \/ \E t \in Threads : StartJob(t) \/ JobStep(t)
  \/ Quiescent

StrandSpec == StrandInit /\ [][StrandNext]_strandVars

\* The origin executor keeps running jobs, and the works return.
Fairness == /\ WF_strandVars(\E t \in Threads : StartJob(t))
            /\ \A t \in Threads : WF_strandVars(JobStep(t))

FairSpec == StrandSpec /\ Fairness

-----------------------------------------------------------------------------
Busy(t) == pc[t] # "free"

\* m_mutex and m_idle keep the variables in their ranges; in particular no
\* more than one job of the strand waits in the origin executor.
StrandTypeOK ==
  /\ queue \in Seq(Works)
  /\ idle \in BOOLEAN
  /\ jobs \in {0, 1}
  /\ destroyed \in BOOLEAN
  /\ pc \in [Threads -> {"free", "job", "run", "relock"}]
  /\ cur \in [Threads -> Works \cup {NoWork}]
  /\ status \in [Works -> {"new", "queued", "running", "finished", "discarded"}]

\* m_idle is the token of the strand: it is FALSE exactly while one job is
\* waiting in, or being run by, the origin executor, and never while two are.
\* A submission that saw a stale m_idle would lose its wake-up or start a
\* second job beside the first (strand-executor.cpp:23-26, 55-58, 70).
IdleIsToken ==
  /\ idle <=> jobs = 0 /\ \A t \in Threads : ~Busy(t)
  /\ jobs = 1 => \A t \in Threads : ~Busy(t)
  /\ \A t, u \in Threads : Busy(t) /\ Busy(u) => t = u
  /\ idle => queue = <<>>

\* The works of one strand never overlap, whatever threads run them and
\* whenever they are submitted (executor.h:60-64).
Sequential ==
  \A t, u \in Threads : pc[t] = "run" /\ pc[u] = "run" => t = u

\* A work that was accepted is run or, when the strand is destroyed first,
\* discarded; it is never forgotten in the queue of a strand that went idle.
EveryWorkServed ==
  \A w \in Works : status[w] = "queued" ~> status[w] \in {"finished", "discarded"}

\* The strand keeps the promise of a sequence executor: the order of
\* submission, one work at a time, and nothing dropped but by the destructor.
Abstract == INSTANCE SequenceExecutor
ImplementsSequenceExecutor == Abstract!Spec
=============================================================================
