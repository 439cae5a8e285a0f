-------------------------- MODULE MessageLifecycle --------------------------
(***************************************************************************)
(* What DialogScheduler::submit promises of a message: it is started at    *)
(* once, or queued and later dispatched (coordination/scheduler.rs:3).     *)
(* Once queued, a message leaves only by running or by a clear of its      *)
(* session's queue: a dispatcher that cannot start it puts it back.        *)
(***************************************************************************)
CONSTANTS
  Message,
  Session,
  Target      \* [Message -> Session]

VARIABLE place    \* where each message is

Init == place = [m \in Message |-> "caller"]

Moves(m, from, to) == place[m] = from /\ place' = [place EXCEPT ![m] = to]

\* Its caller starts it, which may fail and even then leave an execution behind,
StartNow(m) == Moves(m, "caller", "starting")
StartNowFails(m) == Moves(m, "starting", "caller")

\* or queues it, or gives up: submit returned an error, or injected the message.
Enqueue(m) == Moves(m, "caller", "queue")
GiveUp(m) == Moves(m, "caller", "over")

\* One dispatcher takes a queued message, and starts it or puts it back.
Take(m) == Moves(m, "queue", "dispatcher")
Start(m) == Moves(m, "dispatcher", "dispatching")
StartFails(m) == Moves(m, "dispatching", "dispatcher")
PutBack(m) == Moves(m, "dispatcher", "queue")

\* The start has been recorded: the execution answers for the message.
Finish(m) == Moves(m, "starting", "over") \/ Moves(m, "dispatching", "over")

\* A failed turn, and a submit that finds the session in error, clear the queue.
Clear(s) ==
  place' = [m \in Message |->
              IF place[m] = "queue" /\ Target[m] = s THEN "dropped" ELSE place[m]]

Next ==
  \/ \E m \in Message :
       \/ StartNow(m) \/ StartNowFails(m) \/ Enqueue(m) \/ GiveUp(m)
       \/ Take(m) \/ Start(m) \/ StartFails(m) \/ PutBack(m) \/ Finish(m)
  \/ \E s \in Session : Clear(s)

Spec == Init /\ [][Next]_place
=============================================================================
