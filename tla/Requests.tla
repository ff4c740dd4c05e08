------------------------------ MODULE Requests ------------------------------
(* Requests of the Node process.  A handler reads what it needs and then runs
   its statements one by one, each awaited: `task[w]` holds the statements that
   worker w has still to run, computed from what it read.  Between two of them
   every other worker may run.  A statement that throws ends its request; a stop
   of the process ends them all.                                             *)
EXTENDS Naturals, Sequences, FiniteSets

CONSTANTS
  Workers,      \* requests handled at the same time
  MaxRequests,  \* requests ever accepted
  MaxCrashes    \* restarts of the process

ASSUME RequestsAssumption == {MaxRequests, MaxCrashes} \subseteq Nat

VARIABLES
  task,
  load          \* requests accepted so far, and restarts

requests == <<task, load>>

(* A table with one more row, or another one; and without a row.  *)
With(table, key, row) == [k \in DOMAIN table \cup {key} |-> IF k = key THEN row ELSE table[k]]
Without(table, key) == [k \in DOMAIN table \ {key} |-> table[k]]

Idle == <<>>
Busy == {w \in Workers : task[w] # Idle}

RequestsInit ==
  /\ task = [w \in Workers |-> Idle]
  /\ load = [requests |-> 0, crashes |-> 0]

RequestsOK ==
  /\ DOMAIN task = Workers
  /\ load \in [requests : 0..MaxRequests, crashes : 0..MaxCrashes]

Ready(w) == task[w] = Idle /\ load.requests < MaxRequests

(* A handler that read something and goes on with `todo`.  *)
Start(w, todo) ==
  /\ Ready(w)
  /\ load' = [load EXCEPT !.requests = @ + 1]
  /\ task' = [task EXCEPT ![w] = todo]

Now(w) == Head(task[w])
At(w, kind) == task[w] # Idle /\ Now(w).do = kind

(* The statement is done; it threw; the handler computes what comes next.  *)
Done(w) == task' = [task EXCEPT ![w] = Tail(@)] /\ UNCHANGED load
Fail(w) == task' = [task EXCEPT ![w] = Idle] /\ UNCHANGED load
Then(w, todo) == task' = [task EXCEPT ![w] = todo \o Tail(@)] /\ UNCHANGED load

(* The process stops and starts again.  *)
Crash ==
  /\ load.crashes < MaxCrashes /\ Busy # {}
  /\ load' = [load EXCEPT !.crashes = @ + 1]
  /\ task' = [w \in Workers |-> Idle]
=============================================================================
