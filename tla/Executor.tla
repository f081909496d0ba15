------------------------------ MODULE Executor ------------------------------
(***************************************************************************)
(* The plan executor of src/ql/src/exec/mod.rs.  The embedder pulls on     *)
(* next(); each pull executes the step under the cursor through its        *)
(* protocol's execute() (an await), stores the output of a named step in  *)
(* the outputs map and advances the cursor.                                *)
(*                                                                         *)
(* A step is abstracted to its name (a member of Names, or None for an    *)
(* unnamed step); its body is one await whose outcome (Ok or Err) the     *)
(* network decides.  A StepOutput is abstracted to the index of the step  *)
(* that produced it, which is all the properties tell apart.             *)
(***************************************************************************)
EXTENDS Naturals, Sequences

CONSTANTS
    Names,      \* step names that a plan can use
    MaxSteps,   \* the longest plan
    None        \* Option::None: an unnamed step, an empty cursor

ASSUME ExecutorAssumption ==
    /\ MaxSteps \in Nat
    /\ None \notin Names
    /\ None \notin Nat

VARIABLES
    steps,      \* plan.steps, by name
    current,    \* self.current: Option<usize>, 0-based as in the code
    outputs,    \* self.outputs: a map from name to the index of the step whose output it holds
    pc,         \* the embedder's task: "idle", "awaiting" inside next(), "done", "panicked"
    runs        \* ghost: how often each step's body was executed, counted up to Twice

vars == <<steps, current, outputs, pc, runs>>

\* runs saturates here: once and more than once are all the properties tell apart.
Twice == 2

Plans == UNION {[1..k -> Names \cup {None}] : k \in 0..MaxSteps}

\* The step under a 0-based cursor.
StepAt(i) == steps[i + 1]

TypeOK ==
    /\ steps \in Plans
    /\ current \in 0..Len(steps) \cup {None}
    /\ DOMAIN outputs \subseteq Names
    /\ \A n \in DOMAIN outputs : outputs[n] \in 0..(Len(steps) - 1)
    /\ pc \in {"idle", "awaiting", "done", "panicked"}
    /\ runs \in [1..Len(steps) -> 0..Twice]

Init ==
    /\ steps \in Plans
    /\ current = IF Len(steps) > 0 THEN 0 ELSE None
    /\ outputs = << >>
    /\ pc = "idle"
    /\ runs = [i \in 1..Len(steps) |-> 0]

(***************************************************************************)
(* Mutants: plausible bugs in the code modelled below.                     *)
(***************************************************************************)

\* outputs.entry(name).or_insert(out): the first output of a name is kept.
StoreFirst(m, k, v) ==
    IF k \in DOMAIN m THEN m ELSE [n \in DOMAIN m \cup {k} |-> IF n = k THEN v ELSE m[n]]

\* HashMap::insert: a new key, or the old value overwritten.
Insert(m, k, v) == [n \in DOMAIN m \cup {k} |-> IF n = k THEN v ELSE m[n]]

\* The cursor moved past the following step as well.
StepStoredSkip ==
    /\ StepAt(current) # None
    /\ outputs' = Insert(outputs, StepAt(current), current)
    /\ current' = current + 2
    /\ pc' = "idle"
    /\ UNCHANGED <<steps, runs>>

\* A retry that restarts the plan from its first step on an error.
StepFailedRewind ==
    /\ pc' = "idle"
    /\ current' = IF current = None THEN None ELSE 0
    /\ outputs' = << >>
    /\ UNCHANGED <<steps, runs>>

(***************************************************************************)
(* next() up to the await of the step's execute().                         *)
(***************************************************************************)

\* let Some(current) = &mut self.current else { return Err(Done) }
NextDone ==
    /\ current = None
    /\ pc' = "done"
    /\ UNCHANGED <<steps, current, outputs, runs>>

\* &self.plan.steps[*current] with the cursor past the last step: a panic.
NextOutOfRange ==
    /\ current # None
    /\ current >= Len(steps)
    /\ pc' = "panicked"
    /\ UNCHANGED <<steps, current, outputs, runs>>

\* The step's body starts executing: its request goes on the wire.
NextExecute ==
    /\ current # None
    /\ current < Len(steps)
    /\ pc' = "awaiting"
    /\ runs' = [runs EXCEPT ![current + 1] = IF @ < Twice THEN @ + 1 ELSE @]
    /\ UNCHANGED <<steps, current, outputs>>

Pull ==
    /\ pc = "idle"
    /\ \/ NextDone
       \/ NextOutOfRange
       \/ NextExecute

(***************************************************************************)
(* The rest of next(), once execute() returns.                             *)
(***************************************************************************)

\* execute(..).await? : the error returns at once, nothing stored, no advance.
\* The embedder dropping the in-flight future when its timer fires (spec 5)
\* leaves the executor exactly so as well.
StepFailed ==
    /\ pc' = "idle"
    /\ UNCHANGED <<steps, current, outputs, runs>>

\* let Some(name) = step.name else { return Ok(out) }
StepUnnamed ==
    /\ StepAt(current) = None
    /\ pc' = "idle"
    /\ UNCHANGED <<steps, current, outputs, runs>>

\* self.outputs.insert(name, out.clone()); *current += 1
StepStored ==
    /\ StepAt(current) # None
    /\ outputs' = Insert(outputs, StepAt(current), current)
    /\ current' = current + 1
    /\ pc' = "idle"
    /\ UNCHANGED <<steps, runs>>

Return ==
    /\ pc = "awaiting"
    /\ \/ StepFailed
       \/ StepUnnamed
       \/ StepStored

Next ==
    \/ Pull
    \/ Return

(***************************************************************************)
(* The embedder keeps pulling while it is idle, and an awaited execute()   *)
(* eventually returns: the runtime polls the task whenever its I/O is      *)
(* ready, with Ok, Err or the embedder's own timeout.                      *)
(***************************************************************************)
Fairness == WF_vars(Pull) /\ WF_vars(Return)

Spec == Init /\ [][Next]_vars /\ Fairness

(***************************************************************************)
(* Properties.                                                             *)
(***************************************************************************)

(* What a step's inputs.previous lets it read (mod.rs:32-34,42): every    *)
(* name stored holds the output of the latest step of that name behind    *)
(* the cursor, and every named step behind the cursor has its name stored.*)
(* Duplicate names overwrite (spec 9), so the map must follow the last.   *)
StoredOutputIsLatest ==
    /\ \A n \in DOMAIN outputs :
          /\ current # None
          /\ outputs[n] < current
          /\ StepAt(outputs[n]) = n
          /\ \A j \in (outputs[n] + 1)..(current - 1) : StepAt(j) # n
    /\ current # None =>
          \A j \in 0..(current - 1) : StepAt(j) # None => StepAt(j) \in DOMAIN outputs

(* The embedder's pulls eventually return Done (spec 4.7: "if no current *)
(* step remains, fail with Done"), under the fairness above.              *)
EventuallyDone == <>(pc = "done")

\* The executor seen as the sequential interpreter it promises to be: an
\* embedder inside next() or between two calls sees a running plan.
Status == IF pc \in {"idle", "awaiting"} THEN "running" ELSE pc

Plan == INSTANCE SequentialPlan WITH cursor <- current, env <- outputs,
                                     status <- Status

(* Executor::next implements the sequential plan interpreter (spec 4.7,  *)
(* 5, 9): the await on the step's execute() is invisible, the cursor     *)
(* moves one step forward per completed next() and never back, the       *)
(* outputs map is exactly the latest output of each name behind the      *)
(* cursor, and Done and the out-of-range panic happen where the plan has *)
(* no current step.                                                      *)
ImplementsSequentialPlan == Plan!Spec

(* No step's body is executed twice: spec 5 runs the steps in strict     *)
(* sequence and spec 7 never retries an error, so every request of the    *)
(* plan goes on the wire at most once whatever next() returns.           *)
NoStepRunsTwice == \A i \in DOMAIN runs : runs[i] <= 1

=============================================================================
