---------------------------- MODULE JobLifecycle ----------------------------
(***************************************************************************)
(* What the job queue promises, without tables, runs, clocks or a process: *)
(* a document is accepted, attempted at most MaxAttempts times by a single *)
(* worker, and settled; the attempt that an interruption cuts off is lost. *)
(***************************************************************************)
EXTENDS Naturals

CONSTANTS Documents, MaxAttempts

VARIABLES
    status,     \* where each document is
    attempts    \* attempts begun since it was last accepted

lifecycle == <<status, attempts>>

Init ==
    /\ status = [d \in Documents |-> "unknown"]
    /\ attempts = [d \in Documents |-> 0]

\* A first request, or a reprocess request for a settled document.
Accept(d) ==
    /\ status[d] \in {"unknown", "settled"}
    /\ status' = [status EXCEPT ![d] = "waiting"]
    /\ attempts' = [attempts EXCEPT ![d] = 0]

\* The worker takes a document up only when it works on no other.
Start(d) ==
    /\ status[d] = "waiting"
    /\ \A e \in Documents : status[e] # "running"
    /\ attempts[d] < MaxAttempts
    /\ status' = [status EXCEPT ![d] = "running"]
    /\ attempts' = [attempts EXCEPT ![d] = @ + 1]

Settle(d) ==
    /\ status[d] = "running"
    /\ status' = [status EXCEPT ![d] = "settled"]
    /\ UNCHANGED attempts

Retry(d) ==
    /\ status[d] = "running"
    /\ attempts[d] < MaxAttempts
    /\ status' = [status EXCEPT ![d] = "waiting"]
    /\ UNCHANGED attempts

\* The worker disappears in the middle of the attempt; no action leaves "lost".
Lose(d) ==
    /\ status[d] = "running"
    /\ status' = [status EXCEPT ![d] = "lost"]
    /\ UNCHANGED attempts

Next == \E d \in Documents : Accept(d) \/ Start(d) \/ Settle(d) \/ Retry(d) \/ Lose(d)

Spec == Init /\ [][Next]_lifecycle
=============================================================================
