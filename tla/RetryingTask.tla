------------------------------ MODULE RetryingTask ------------------------------
(***************************************************************************)
(* What a celery task with max_retries and early acknowledgement promises: *)
(* the attempts of a task follow one another, each starts only after the   *)
(* one before it has failed, there are at most MaxRetries + 1 of them, and *)
(* nothing is attempted after the task has ended.  A task may be lost: it  *)
(* left the queue when its attempt began.  Executor implements this.       *)
(***************************************************************************)
EXTENDS Integers

CONSTANTS Tasks, MaxRetries

VARIABLES
    phase,      \* phase[t]: "new", "waiting", "running" or "ended"
    try         \* try[t]: the number of retries so far

taskVars == <<phase, try>>

Init ==
    /\ phase = [t \in Tasks |-> "new"]
    /\ try = [t \in Tasks |-> 0]

Move(t, from, to) == phase[t] = from /\ phase' = [phase EXCEPT ![t] = to]

Submit(t) == Move(t, "new", "waiting") /\ UNCHANGED try
Start(t)  == Move(t, "waiting", "running") /\ UNCHANGED try
End(t)    == Move(t, "running", "ended") /\ UNCHANGED try

Retry(t) ==
    /\ Move(t, "running", "waiting")
    /\ try[t] < MaxRetries
    /\ try' = [try EXCEPT ![t] = @ + 1]

Next == \E t \in Tasks : Submit(t) \/ Start(t) \/ End(t) \/ Retry(t)

Spec == Init /\ [][Next]_taskVars
================================================================================
