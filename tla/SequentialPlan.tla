---------------------------- MODULE SequentialPlan ----------------------------
(***************************************************************************)
(* What the plan executor promises its embedder (spec 4.7, 5 and 9), as an *)
(* atomic, sequential interpreter of the plan.  The cursor walks the steps *)
(* in order, one at a time and never back; the environment a step reads is *)
(* at every moment the output of the latest step of each name behind the   *)
(* cursor (a later step of a name overwrites an earlier one); a plan with  *)
(* no current step ends in Done, and a cursor run off the end of the plan  *)
(* ends in a panic.  A step that fails, or that is still in flight, is a   *)
(* stutter: nothing it does is visible until the cursor moves.             *)
(*                                                                         *)
(* A step is its name, or None for an unnamed step; an output is the index *)
(* of the step that produced it, as in Executor.tla.                       *)
(***************************************************************************)
EXTENDS Naturals, Sequences

CONSTANTS
    Names,      \* step names that a plan can use
    MaxSteps,   \* the longest plan
    None        \* an unnamed step, an empty cursor

VARIABLES
    steps,      \* the plan, by name
    cursor,     \* the 0-based index of the current step, or None
    env,        \* the named outputs a step can read: name -> index of its step
    status      \* "running", "done" (Done returned) or "panicked"

vars == <<steps, cursor, env, status>>

Plans == UNION {[1..k -> Names \cup {None}] : k \in 0..MaxSteps}

\* The index of the latest step named n among the first k steps of s.
LatestIndex(s, k, n) ==
    CHOOSE j \in 0..(k - 1) :
        /\ s[j + 1] = n
        /\ \A i \in (j + 1)..(k - 1) : s[i + 1] # n

\* The environment after the first k steps of s: every name they use,
\* bound to the latest of them.
Latest(s, k) ==
    [n \in {s[j + 1] : j \in 0..(k - 1)} \ {None} |-> LatestIndex(s, k, n)]

Init ==
    /\ steps \in Plans
    /\ cursor = IF Len(steps) > 0 THEN 0 ELSE None
    /\ env = Latest(steps, 0)
    /\ status = "running"

\* The current step completes and the cursor moves past it.
Advance ==
    /\ status = "running"
    /\ cursor # None
    /\ cursor < Len(steps)
    /\ cursor' = cursor + 1
    /\ env' = Latest(steps, cursor + 1)
    /\ UNCHANGED <<steps, status>>

\* No current step remains: Done.
Exhausted ==
    /\ status = "running"
    /\ cursor = None
    /\ status' = "done"
    /\ UNCHANGED <<steps, cursor, env>>

\* The cursor is past the last step: indexing the plan panics.
Overrun ==
    /\ status = "running"
    /\ cursor # None
    /\ cursor >= Len(steps)
    /\ status' = "panicked"
    /\ UNCHANGED <<steps, cursor, env>>

Next == Advance \/ Exhausted \/ Overrun

Spec == Init /\ [][Next]_vars

=============================================================================
