------------------------------ MODULE TaskPool ------------------------------
(***************************************************************************)
(* What the worker pool promises its callers, and what the pipeline        *)
(* executor relies on: a submitted task is run by at most one worker, at   *)
(* most once and without interruption, a worker runs one task at a time,   *)
(* and a worker that has stopped runs nothing any more.  Nothing is said   *)
(* about when, or whether, a queued task is started: see WorkerPool, which *)
(* implements this specification, for why the code cannot promise it.      *)
(***************************************************************************)
CONSTANTS Workers, Tasks, NoTask

VARIABLES
  status,    \* what has happened to each task
  current,   \* the task whose body a worker is executing
  stopped    \* the workers whose thread has ended

vars == <<status, current, stopped>>

Init ==
  /\ status = [t \in Tasks |-> "new"]
  /\ current = [w \in Workers |-> NoTask]
  /\ stopped = {}

Submit(t) ==
  /\ status[t] = "new"
  /\ status' = [status EXCEPT ![t] = "queued"]
  /\ UNCHANGED <<current, stopped>>

Start(w, t) ==
  /\ status[t] = "queued"
  /\ current[w] = NoTask
  /\ w \notin stopped
  /\ status' = [status EXCEPT ![t] = "running"]
  /\ current' = [current EXCEPT ![w] = t]
  /\ UNCHANGED stopped

Finish(w) ==
  /\ current[w] \in Tasks
  /\ status' = [status EXCEPT ![current[w]] = "done"]
  /\ current' = [current EXCEPT ![w] = NoTask]
  /\ UNCHANGED stopped

Stop(w) ==
  /\ current[w] = NoTask
  /\ stopped' = stopped \cup {w}
  /\ UNCHANGED <<status, current>>

Next ==
  \/ \E t \in Tasks : Submit(t)
  \/ \E w \in Workers, t \in Tasks : Start(w, t)
  \/ \E w \in Workers : Finish(w) \/ Stop(w)

Spec == Init /\ [][Next]_vars
=============================================================================
