--------------------------- MODULE ExecutorProofs ---------------------------
(***************************************************************************)
(* Proofs about Executor.tla for every plan length and every set of names. *)
(* StoredOutputIsLatest is not inductive by itself: a Return step reads    *)
(* the step under the cursor, so the invariant also needs that the cursor  *)
(* of an awaited next() is on a step of the plan.                          *)
(***************************************************************************)
EXTENDS Executor, TLAPS

\* While execute() is awaited the cursor is on a step of the plan.
Awaiting ==
    pc = "awaiting" => current # None /\ current \in 0..(Len(steps) - 1)

IInv == TypeOK /\ Awaiting /\ StoredOutputIsLatest

\* A plan is a finite sequence of optional names.
LEMMA PlanIsSeq ==
    ASSUME NEW p \in Plans
    PROVE  p \in Seq(Names \cup {None}) /\ Len(p) \in Nat
BY DEF Plans

LEMMA InitIInv == Init => IInv
<1> SUFFICES ASSUME Init PROVE IInv
    OBVIOUS
<1>1. Len(steps) \in Nat
    BY PlanIsSeq DEF Init
<1>2. TypeOK
    BY <1>1 DEF Init, TypeOK, Twice
<1>3. Awaiting
    BY DEF Init, Awaiting
<1>4. StoredOutputIsLatest
    <2>1. DOMAIN outputs = {}
        BY DEF Init
    <2>2. current # None => current = 0
        BY DEF Init
    <2>3. QED
        BY <2>1, <2>2 DEF StoredOutputIsLatest
<1>5. QED
    BY <1>2, <1>3, <1>4 DEF IInv

LEMMA NextIInv == IInv /\ [Next]_vars => IInv'
<1> SUFFICES ASSUME IInv, [Next]_vars PROVE IInv'
    OBVIOUS
<1>0. /\ Len(steps) \in Nat
      /\ None \notin Nat
      /\ None \notin Names
    BY PlanIsSeq, ExecutorAssumption DEF IInv, TypeOK
<1>1. CASE Pull
    <2>1. CASE NextDone
        BY <1>1, <2>1 DEF IInv, TypeOK, Awaiting, StoredOutputIsLatest, StepAt, NextDone, Pull
    <2>2. CASE NextOutOfRange
        BY <1>1, <2>2 DEF IInv, TypeOK, Awaiting, StoredOutputIsLatest, StepAt, NextOutOfRange, Pull
    <2>3. CASE NextExecute
        <3>1. TypeOK'
            BY <1>0, <2>3 DEF IInv, TypeOK, NextExecute, Twice
        <3>2. Awaiting'
            BY <1>0, <2>3 DEF IInv, TypeOK, Awaiting, NextExecute
        <3>3. StoredOutputIsLatest'
            BY <2>3 DEF IInv, StoredOutputIsLatest, NextExecute, StepAt
        <3>4. QED
            BY <3>1, <3>2, <3>3 DEF IInv
    <2>4. QED
        BY <1>1, <2>1, <2>2, <2>3 DEF Pull
<1>2. CASE Return
    <2>0. current \in 0..(Len(steps) - 1) /\ current # None
        BY <1>2 DEF IInv, Awaiting, Return
    <2>1. CASE StepFailed
        BY <1>2, <2>1 DEF IInv, TypeOK, Awaiting, StoredOutputIsLatest, StepAt, StepFailed, Return
    <2>2. CASE StepUnnamed
        BY <1>2, <2>2 DEF IInv, TypeOK, Awaiting, StoredOutputIsLatest, StepAt, StepUnnamed, Return
    <2>3. CASE StepStored
        <3> DEFINE k == StepAt(current)
        <3>1. /\ DOMAIN outputs' = DOMAIN outputs \cup {k}
              /\ outputs'[k] = current
              /\ \A n \in DOMAIN outputs \ {k} : outputs'[n] = outputs[n]
              /\ current' = current + 1
              /\ steps' = steps
              /\ k # None
            <4>1. /\ outputs' = Insert(outputs, k, current)
                  /\ current' = current + 1
                  /\ steps' = steps
                  /\ k # None
                BY <2>3 DEF StepStored
            <4>2. /\ DOMAIN Insert(outputs, k, current) = DOMAIN outputs \cup {k}
                  /\ Insert(outputs, k, current)[k] = current
                  /\ \A n \in DOMAIN outputs \ {k} :
                        Insert(outputs, k, current)[n] = outputs[n]
                BY DEF Insert
            <4>3. QED
                BY <4>1, <4>2
        <3>2. k \in Names
            <4>1. steps \in Seq(Names \cup {None})
                BY PlanIsSeq DEF IInv, TypeOK
            <4>2. QED
                BY <4>1, <2>0, <3>1 DEF StepAt
        <3>3. TypeOK'
            BY <1>0, <2>0, <3>1, <3>2, <2>3 DEF IInv, TypeOK, StepStored
        <3>4. Awaiting'
            BY <2>3 DEF Awaiting, StepStored
        <3>5. StoredOutputIsLatest'
            <4>1. ASSUME NEW n \in DOMAIN outputs'
                  PROVE  /\ current' # None
                         /\ outputs'[n] < current'
                         /\ steps'[outputs'[n] + 1] = n
                         /\ \A j \in (outputs'[n] + 1)..(current' - 1) : steps'[j + 1] # n
                <5>1. CASE n = k
                    BY <1>0, <2>0, <3>1, <5>1 DEF StepAt
                <5>2. CASE n # k
                    <6>1. n \in DOMAIN outputs /\ outputs'[n] = outputs[n]
                        BY <3>1, <5>2
                    <6>2. /\ outputs[n] < current
                          /\ StepAt(outputs[n]) = n
                          /\ \A j \in (outputs[n] + 1)..(current - 1) : StepAt(j) # n
                        BY <6>1, <2>0 DEF IInv, StoredOutputIsLatest
                    <6>3. outputs[n] \in Nat
                        BY <6>1 DEF IInv, TypeOK
                    <6>4. QED
                        BY <1>0, <2>0, <3>1, <5>2, <6>1, <6>2, <6>3 DEF StepAt
                <5>3. QED
                    BY <5>1, <5>2
            <4>2. \A j \in 0..(current' - 1) :
                      steps'[j + 1] # None => steps'[j + 1] \in DOMAIN outputs'
                BY <1>0, <2>0, <3>1 DEF IInv, StoredOutputIsLatest, StepAt
            <4>3. QED
                BY <4>1, <4>2, <3>1 DEF StoredOutputIsLatest, StepAt
        <3>6. QED
            BY <3>3, <3>4, <3>5 DEF IInv
    <2>4. QED
        BY <1>2, <2>1, <2>2, <2>3 DEF Return
<1>3. CASE UNCHANGED vars
    BY <1>3 DEF vars, IInv, TypeOK, Awaiting, StoredOutputIsLatest, StepAt
<1>4. QED
    BY <1>1, <1>2, <1>3 DEF Next

(* The outputs map that next() hands each step as inputs.previous          *)
(* (mod.rs:32-34) holds, for every stored name, the output of the latest   *)
(* step of that name behind the cursor, and holds every named step behind  *)
(* the cursor: for every plan and every set of names.                      *)
THEOREM OutputsAreLatest == Spec => []StoredOutputIsLatest
<1>1. IInv => StoredOutputIsLatest
    BY DEF IInv
<1>2. QED
    BY <1>1, InitIInv, NextIInv, PTL DEF Spec

(* The executor's state keeps its type: the cursor stays within the plan  *)
(* or None, and every stored output is the output of a step of the plan.  *)
THEOREM ExecutorTypeCorrect == Spec => []TypeOK
<1>1. IInv => TypeOK
    BY DEF IInv
<1>2. QED
    BY <1>1, InitIInv, NextIInv, PTL DEF Spec

-----------------------------------------------------------------------------
(***************************************************************************)
(* Refinement of SequentialPlan.  The outputs map is updated in place, one *)
(* insert per stored step; SequentialPlan recomputes the environment from  *)
(* the plan and the cursor.  LatestChar says that StoredOutputIsLatest     *)
(* pins the map down to that recomputation, so the invariant above is all  *)
(* the refinement needs, with the fact that the map is a function.         *)
(***************************************************************************)

\* HashMap::new() and insert() leave a function from names to outputs.
OutputsFn == outputs = [n \in DOMAIN outputs |-> outputs[n]]

LEMMA AlwaysOutputsFn == Spec => []OutputsFn
<1>1. Init => OutputsFn
    BY DEF Init, OutputsFn
<1>2. OutputsFn /\ [Next]_vars => OutputsFn'
    <2> SUFFICES ASSUME OutputsFn, [Next]_vars PROVE OutputsFn'
        OBVIOUS
    <2>1. CASE Return /\ StepStored
        BY <2>1 DEF StepStored, Insert, OutputsFn
    <2>2. CASE ~(Return /\ StepStored)
        BY <2>2 DEF Next, Pull, Return, NextDone, NextOutOfRange, NextExecute,
                    StepFailed, StepUnnamed, vars, OutputsFn
    <2>3. QED
        BY <2>1, <2>2
<1>3. QED
    BY <1>1, <1>2, PTL DEF Spec

\* A map that holds, for every name, the latest step of that name among the
\* first k steps, and holds every name they use, is Latest(s, k).
LEMMA LatestChar ==
    ASSUME NEW s \in Seq(Names \cup {None}), NEW k \in 0..Len(s), NEW o,
           None \notin Names,
           o = [n \in DOMAIN o |-> o[n]],
           DOMAIN o \subseteq Names,
           \A n \in DOMAIN o :
               /\ o[n] \in Nat
               /\ o[n] < k
               /\ s[o[n] + 1] = n
               /\ \A j \in (o[n] + 1)..(k - 1) : s[j + 1] # n,
           \A j \in 0..(k - 1) : s[j + 1] # None => s[j + 1] \in DOMAIN o
    PROVE  o = Plan!Latest(s, k)
<1>1. DOMAIN o = {s[j + 1] : j \in 0..(k - 1)} \ {None}
    <2>1. ASSUME NEW n \in DOMAIN o
          PROVE  n \in {s[j + 1] : j \in 0..(k - 1)} \ {None}
        <3>1. o[n] \in 0..(k - 1) /\ s[o[n] + 1] = n
            BY <2>1
        <3>2. n # None
            BY <2>1
        <3>3. QED
            BY <3>1, <3>2
    <2>2. ASSUME NEW m \in {s[j + 1] : j \in 0..(k - 1)} \ {None}
          PROVE  m \in DOMAIN o
        <3>1. PICK j \in 0..(k - 1) : s[j + 1] = m
            BY <2>2
        <3>2. QED
            BY <2>2, <3>1
    <2>3. QED
        BY <2>1, <2>2
<1>2. ASSUME NEW n \in DOMAIN o
      PROVE  Plan!LatestIndex(s, k, n) = o[n]
    <2> DEFINE Last(j) == /\ s[j + 1] = n
                         /\ \A i \in (j + 1)..(k - 1) : s[i + 1] # n
    <2>1. o[n] \in 0..(k - 1) /\ Last(o[n])
        BY <1>2
    <2>2. ASSUME NEW j \in 0..(k - 1), Last(j) PROVE j = o[n]
        <3>1. ~(j < o[n])
            BY <2>1, <2>2
        <3>2. ~(j > o[n])
            BY <2>1, <2>2
        <3>3. QED
            BY <2>1, <3>1, <3>2
    <2>3. QED
        BY <2>1, <2>2 DEF Plan!LatestIndex
<1>3. QED
    BY <1>1, <1>2 DEF Plan!Latest

\* The outputs map is SequentialPlan's environment for the cursor.
EnvIsLatest == current # None => outputs = Plan!Latest(steps, current)

LEMMA InvEnv == IInv /\ OutputsFn => EnvIsLatest
<1> SUFFICES ASSUME IInv, OutputsFn, current # None
             PROVE  outputs = Plan!Latest(steps, current)
    BY DEF EnvIsLatest
<1>1. /\ steps \in Seq(Names \cup {None})
      /\ current \in 0..Len(steps)
      /\ None \notin Names
      /\ DOMAIN outputs \subseteq Names
      /\ outputs = [n \in DOMAIN outputs |-> outputs[n]]
    BY PlanIsSeq, ExecutorAssumption DEF IInv, TypeOK, OutputsFn
<1>2. \A n \in DOMAIN outputs :
          /\ outputs[n] \in Nat
          /\ outputs[n] < current
          /\ steps[outputs[n] + 1] = n
          /\ \A j \in (outputs[n] + 1)..(current - 1) : steps[j + 1] # n
    BY <1>1 DEF IInv, TypeOK, StoredOutputIsLatest, StepAt
<1>3. \A j \in 0..(current - 1) :
          steps[j + 1] # None => steps[j + 1] \in DOMAIN outputs
    BY DEF IInv, StoredOutputIsLatest, StepAt
<1>4. QED
    BY <1>1, <1>2, <1>3, LatestChar

RInv == IInv /\ OutputsFn /\ EnvIsLatest

LEMMA AlwaysRInv == Spec => []RInv
    BY InitIInv, NextIInv, AlwaysOutputsFn, InvEnv, PTL DEF Spec, RInv

\* Every step of the executor is a step of SequentialPlan or leaves its
\* variables alone: starting a step's execute(), a failed or unnamed step
\* and the await itself are stutters.
LEMMA NextRefines == RInv /\ RInv' /\ [Next]_vars => [Plan!Next]_Plan!vars
<1> SUFFICES ASSUME RInv, RInv', [Next]_vars PROVE [Plan!Next]_Plan!vars
    OBVIOUS
<1>0. Len(steps) \in Nat /\ None \notin Nat
    BY PlanIsSeq, ExecutorAssumption DEF RInv, IInv, TypeOK
<1>1. CASE Pull /\ NextDone
    BY <1>1 DEF Pull, NextDone, Status, Plan!Next, Plan!Exhausted
<1>2. CASE Pull /\ NextOutOfRange
    BY <1>2 DEF Pull, NextOutOfRange, Status, Plan!Next, Plan!Overrun
<1>3. CASE Pull /\ NextExecute
    BY <1>3 DEF Pull, NextExecute, Status, Plan!vars
<1>4. CASE Return /\ (StepFailed \/ StepUnnamed)
    BY <1>4 DEF Return, StepFailed, StepUnnamed, Status, Plan!vars
<1>5. CASE Return /\ StepStored
    <2>1. /\ current \in Nat /\ current < Len(steps)
          /\ current' = current + 1 /\ steps' = steps
          /\ Status = "running" /\ Status' = "running"
        BY <1>0, <1>5 DEF Return, StepStored, RInv, IInv, Awaiting, Status
    <2>2. outputs' = Plan!Latest(steps, current + 1)
        <3>1. current' # None
            BY <1>0, <2>1
        <3>2. QED
            BY <2>1, <3>1 DEF RInv, EnvIsLatest
    <2>3. QED
        BY <1>0, <2>1, <2>2 DEF Plan!Next, Plan!Advance
<1>6. CASE UNCHANGED vars
    BY <1>6 DEF vars, Status, Plan!vars
<1>7. QED
    BY <1>1, <1>2, <1>3, <1>4, <1>5, <1>6 DEF Next, Pull, Return

(* Executor::next implements the sequential plan interpreter for every   *)
(* plan and every set of names: from Executor::new, every behaviour of   *)
(* the executor, with the await inside next() and the in-place inserts   *)
(* into the outputs map, is a behaviour of SequentialPlan under the      *)
(* mapping cursor <- current, env <- outputs, status <- Status.          *)
THEOREM ExecutorImplementsPlan == Spec => ImplementsSequentialPlan
<1>1. Init => Plan!Init
    <2> SUFFICES ASSUME Init PROVE Plan!Init
        OBVIOUS
    <2>1. outputs = Plan!Latest(steps, 0)
        <3>1. /\ steps \in Seq(Names \cup {None})
              /\ 0 \in 0..Len(steps)
              /\ None \notin Names
              /\ DOMAIN outputs = {}
              /\ outputs = [n \in DOMAIN outputs |-> outputs[n]]
            BY PlanIsSeq, ExecutorAssumption DEF Init
        <3>2. /\ DOMAIN outputs \subseteq Names
              /\ \A n \in DOMAIN outputs :
                    /\ outputs[n] \in Nat
                    /\ outputs[n] < 0
                    /\ steps[outputs[n] + 1] = n
                    /\ \A j \in (outputs[n] + 1)..(0 - 1) : steps[j + 1] # n
              /\ \A j \in 0..(0 - 1) :
                    steps[j + 1] # None => steps[j + 1] \in DOMAIN outputs
            BY <3>1
        <3>3. QED
            BY <3>1, <3>2, LatestChar
    <2>2. QED
        BY <2>1 DEF Init, Status, Plan!Init, Plans, Plan!Plans
<1>2. QED
    BY <1>1, AlwaysRInv, NextRefines, PTL
       DEF Spec, ImplementsSequentialPlan, Plan!Spec

=============================================================================
