-------------------------- MODULE HttpRunnerProofs --------------------------
(***************************************************************************)
(* Proofs about HttpRunner and the Http1Runner it wraps, for every value   *)
(* of the constants.  HttpTypeOK is not inductive by itself: finish() on   *)
(* the inner runner computes its output from the state it finds, and the   *)
(* step is well typed only because that state is still the Pending one     *)
(* new() built.  The modelled part of HttpRunner touches the inner runner  *)
(* only by letting time pass, by dropping it after a failed transport      *)
(* start and by finishing it then, so the inner runner stays Pending until *)
(* it is finished.  HInv adds that fact.                                   *)
(***************************************************************************)
EXTENDS HttpRunner, TLAPS

\* Until HttpRunner::finish has run r.finish(), the inner runner is the
\* Pending runner Http1Runner::new built.
InnerPending == hpc # "finished" => state = "Pending"

HInv == HttpTypeOK /\ InnerPending

-----------------------------------------------------------------------------
\* Http1Runner::new builds a well-typed runner.
LEMMA InitHInv == Init => HInv
  <1> SUFFICES ASSUME Init PROVE HInv
    OBVIOUS
  <1> USE HttpAssumption
  <1>1. H!TypeOK
    BY DEF Init, H!Init, H!TypeOK, H!Plans, H!Modes, H!PCs, H!States,
           H!Time, H!TimeOpt
  <1>2. QED
    BY <1>1 DEF Init, H!Init, HInv, HttpTypeOK, InnerPending

\* The steps that leave the inner runner's variables alone keep its type.
LEMMA InnerKept ==
    ASSUME H!TypeOK, UNCHANGED rvars
    PROVE  H!TypeOK'
  BY DEF H!TypeOK, rvars

\* HttpRunner::new pushes two or three transports.
LEMMA LayersRange == url \in URLs => Layers \in {2, 3}
  BY DEF URLs, Layers

\* Every step keeps HInv.  Only a failed transport start, finish() and the
\* clock change the inner runner: the first sets its driver's position to
\* done, finish() finds it Pending and so takes complete()'s Pending arm,
\* and the clock stays within its bound.
LEMMA NextHInv == HInv /\ [Next]_vars => HInv'
  <1> SUFFICES ASSUME HInv, [Next]_vars PROVE HInv'
    OBVIOUS
  <1> USE HttpAssumption DEF HInv, HttpTypeOK, InnerPending
  <1>1. CASE New
    BY <1>1, InnerKept DEF New, rvars
  <1>2. CASE SizeHint
    BY <1>2, InnerKept DEF SizeHint, rvars
  <1>3. CASE StartStack
    BY <1>3, InnerKept DEF StartStack, rvars
  <1>4. CASE StartTransport
    <2>1. CASE started' = started + 1 /\ UNCHANGED <<hpc, herr, rvars>>
      <3>1. started + 1 \in 0..3
        BY <1>4, LayersRange DEF StartTransport, StackUp
      <3>2. QED
        BY <1>4, <2>1, <3>1, InnerKept DEF StartTransport, rvars
    <2>2. CASE /\ herr' = "transport" /\ hpc' = "finish" /\ pc' = "done"
               /\ UNCHANGED started
               /\ UNCHANGED <<plan, state, start_time, req_header_start_time,
                              req_body_start_time, resp_start_time, end_time,
                              req_body_buf, hdr_sent, body_sent, rem, calls,
                              plan_body, out_request, out_error, out_duration,
                              now, panic>>
      BY <1>4, <2>2 DEF StartTransport, H!TypeOK, H!PCs
    <2>3. QED
      BY <1>4, <2>1, <2>2 DEF StartTransport
  <1>5. CASE StartInner
    BY <1>5, InnerKept DEF StartInner, rvars
  <1>6. CASE Finish
    <2>1. state = "Pending" /\ pc = "done"
      BY <1>6 DEF Finish, H!Finish
    <2>2. H!FinishIdle
      BY <1>6, <2>1 DEF Finish, H!Finish, H!FinishInvalid, H!FinishSending,
                        H!Sending
    <2>3. QED
      BY <1>6, <2>1, <2>2 DEF Finish, H!Finish, H!FinishIdle, H!TypeOK,
                              H!States, H!PCs
  <1>7. CASE Tick
    BY <1>7 DEF Tick, H!Tick, H!TypeOK, H!Time, hvars
  <1>8. CASE UNCHANGED vars
    BY <1>8, InnerKept DEF vars, hvars, rvars
  <1>9. QED
    BY <1>1, <1>2, <1>3, <1>4, <1>5, <1>6, <1>7, <1>8 DEF Next

LEMMA AlwaysHInv == Spec => []HInv
  BY InitHInv, NextHInv, PTL DEF Spec

-----------------------------------------------------------------------------
(* Every reachable state of HttpRunner and its inner runner is well typed: *)
(* the inner Http1Runner's fields as in Http1Runner, also after finish()   *)
(* on a runner whose stack failed to start, and HttpRunner's own state:    *)
(* the URL, the stack's Pending/Running state, the number of transports    *)
(* started, which never passes the three layers HttpRunner::new pushes,    *)
(* and the error HttpRunner::new or the stack's start returned.            *)
THEOREM HttpTypeCorrect == Spec => []HttpTypeOK
  <1>1. HInv => HttpTypeOK
    BY DEF HInv
  <1>2. QED
    BY <1>1, AlwaysHInv, PTL

=============================================================================
