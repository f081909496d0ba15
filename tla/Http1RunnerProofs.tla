------------------------- MODULE Http1RunnerProofs -------------------------
(***************************************************************************)
(* Proofs about Http1Runner for every value of the constants.  None of     *)
(* TypeOK, TimestampOrder and WriteCallsInSendingState is inductive by     *)
(* itself: a step taken from a reachable state preserves them only because *)
(* of what the driver's position pc says about the runner, the bytes left  *)
(* to write, and the stamps already taken.  IInv adds those facts.         *)
(***************************************************************************)
EXTENDS Http1Runner, TLAPS

\* Where the driving task is determines the runner's state; and nothing in
\* http1.rs ever installs ReceivingHeader or ReceivingBody.
PcState ==
    /\ pc = "start" => state = "Pending"
    /\ pc \in {"header", "reset"} => state = "SendingHeader"
    /\ pc \in {"execbody", "body", "flush", "read", "idle"} =>
            state = "SendingBody"
    /\ pc \in {"execbody", "body", "flush", "read"} => plan.mode = "step"
    /\ pc = "idle" => plan.mode = "transport"
    /\ state \in Sending => start_time # None
    /\ state \notin {"ReceivingHeader", "ReceivingBody"}

\* Header bytes accepted plus header bytes still to offer make the header.
Counting ==
    /\ pc = "start" /\ state = "Pending" => hdr_sent = 0
    /\ pc = "header" => hdr_sent + rem = HeaderLen

\* Which stamps have been taken at each point of the driver.
Stamps ==
    /\ pc = "start" /\ state = "Pending" =>
            /\ start_time = None
            /\ req_header_start_time = None
            /\ req_body_start_time = None
            /\ resp_start_time = None
            /\ end_time = None
    /\ pc \in {"header", "reset", "execbody", "body", "flush", "read", "idle"}
            \/ state = "SendingBody" =>
            req_header_start_time # None
    /\ pc \in {"reset", "execbody", "body", "flush", "read", "idle"}
            \/ state = "SendingBody" =>
            req_body_start_time # None
    /\ pc \in {"header", "reset", "execbody", "body", "flush"} =>
            resp_start_time = None

\* What complete() reads is the output of one driver only: only a
\* transport-mode caller shuts the stream down and only a step stamps the
\* response; the request output exists only once SendingBody was entered.
Outputs ==
    /\ plan.mode # "transport" => end_time = None
    /\ plan.mode # "step" => resp_start_time = None
    /\ state \in {"Pending", "StartFailed", "SendingHeader"} =>
            out_request = None
    /\ state = "Complete" /\ pc # "finished" => out_request = None

Core == TypeOK /\ PcState /\ Counting /\ Stamps /\ TimestampOrder

IInv == Core /\ Outputs /\ DurationsConsistent

-----------------------------------------------------------------------------
\* The plan fields the actions read.
LEMMA PlanType ==
    ASSUME plan \in Plans
    PROVE  /\ plan.mode \in Modes
           /\ plan.body_len \in 0..MaxBody
           /\ plan.size_hint \in (0..MaxBody) \cup {None}
           /\ plan.body_end_pause \in BOOLEAN
  BY DEF Plans, Modes

\* What start() returning Err leaves: a known error kind, and the driver done.
LEMMA ErrType ==
    ASSUME NEW e \in ErrorKinds \cup {None}, StartReturnsErr(e)
    PROVE  out_error' \in ErrorKinds \cup {None} /\ pc' = "done"
  BY DEF StartReturnsErr, ErrorKinds

LEMMA InitIInv == Init => IInv
  <1> SUFFICES ASSUME Init PROVE IInv
    OBVIOUS
  <1>1. TypeOK
    BY PlanType, Assumption DEF Init, TypeOK, Time, TimeOpt, PCs, States
  <1>2. PcState /\ Counting /\ Stamps
    BY <1>1, PlanType, Assumption DEF Init, PcState, Counting, Stamps, Sending
  <1>3. TimestampOrder
    BY Assumption DEF Init, TimestampOrder
  <1>4. Outputs /\ DurationsConsistent
    BY DEF Init, Outputs, DurationsConsistent
  <1>5. QED
    BY <1>1, <1>2, <1>3, <1>4 DEF IInv, Core

\* Every step keeps IInv: one case per action, and under a step with
\* alternatives one case per alternative; TypeOK, the driver facts and the
\* stamp order are shown apart.
LEMMA NextCore == Core /\ [Next]_vars => Core'
  <1> SUFFICES ASSUME Core, [Next]_vars PROVE Core'
    OBVIOUS
  <1> USE Assumption DEF Core
  <1>0. /\ plan.mode \in Modes
        /\ plan.body_len \in 0..MaxBody
        /\ plan.size_hint \in (0..MaxBody) \cup {None}
        /\ plan.body_end_pause \in BOOLEAN
        /\ now \in Nat /\ now # None
    BY PlanType DEF TypeOK, Time
  <1> USE <1>0
  <1>1. CASE Start
    <2>1. CASE state = "Pending" /\ StartTransportFailed
      <3>0. out_error' \in ErrorKinds \cup {None} /\ pc' = "done"
        BY <2>1, ErrType DEF StartTransportFailed, ErrorKinds
      <3>1. TypeOK'
        BY <1>1, <2>1, <3>0 DEF Start, StartTransportFailed, TypeOK, States, PCs
      <3>2. (PcState /\ Counting /\ Stamps)'
        BY <1>1, <2>1, <3>0 DEF Start, StartTransportFailed, PcState,
                                Counting, Stamps, Sending
      <3>3. TimestampOrder'
        BY <1>1, <2>1 DEF Start, StartTransportFailed, TimestampOrder
      <3>4. QED
        BY <3>1, <3>2, <3>3
    <2>2. CASE state = "Pending" /\ EnterSendingHeader
      <3>1. TypeOK'
        BY <1>1, <2>2 DEF Start, EnterSendingHeader, TypeOK, States, PCs,
                          Time, TimeOpt
      <3>2. (PcState /\ Counting /\ Stamps)'
        BY <1>1, <2>2 DEF Start, EnterSendingHeader, TypeOK, PcState,
                          Counting, Stamps, Sending
      <3>3. TimestampOrder'
        BY <1>1, <2>2 DEF Start, EnterSendingHeader, TypeOK, Stamps,
                          TimestampOrder, Time, TimeOpt
      <3>4. QED
        BY <3>1, <3>2, <3>3
    <2>3. QED
      BY <1>1, <2>1, <2>2 DEF Start
  <1>2. CASE HeaderWrite
    <2>1. /\ req_body_buf' \in Nat
          /\ req_body_start_time' \in TimeOpt
          /\ req_body_start_time' # None
          /\ TimestampOrder'
      BY <1>2 DEF HeaderWrite, RecordWrite, UnwrapOr, TypeOK, Stamps,
                  TimestampOrder, Time, TimeOpt
    <2>2. ASSUME NEW n \in 1..rem, HeaderAccepted(n)
          PROVE  Core'
      <3>1. TypeOK'
        BY <1>2, <2>1, <2>2 DEF HeaderWrite, HeaderAccepted, TypeOK, Counting, PCs
      <3>2. (PcState /\ Counting /\ Stamps)'
        BY <1>2, <2>1, <2>2 DEF HeaderWrite, HeaderAccepted, TypeOK, PcState,
                                Counting, Stamps, Sending
      <3>3. QED
        BY <2>1, <3>1, <3>2
    <2>3. CASE HeaderFailed
      <3>0. out_error' \in ErrorKinds \cup {None} /\ pc' = "done"
        BY <2>3, ErrType DEF HeaderFailed, TypeOK
      <3>1. TypeOK'
        BY <1>2, <2>1, <2>3, <3>0 DEF HeaderWrite, HeaderFailed, TypeOK, PCs
      <3>2. (PcState /\ Counting /\ Stamps)'
        BY <1>2, <2>3, <3>0 DEF HeaderWrite, HeaderFailed, PcState,
                                Counting, Stamps
      <3>3. QED
        BY <2>1, <3>1, <3>2
    <2>4. QED
      BY <1>2, <2>2, <2>3 DEF HeaderWrite
  <1>3. CASE StartReset
    <2>1. CASE ResetConfigError
      <3>0. out_error' \in ErrorKinds \cup {None} /\ pc' = "done"
        BY <2>1, ErrType DEF ResetConfigError, TypeOK
      <3>1. TypeOK'
        BY <1>3, <2>1, <3>0 DEF StartReset, ResetConfigError, TypeOK, States,
                                PCs
      <3>2. (PcState /\ Counting /\ Stamps)'
        BY <1>3, <2>1, <3>0 DEF StartReset, ResetConfigError, PcState,
                                Counting, Stamps, Sending
      <3>3. TimestampOrder'
        BY <1>3, <2>1 DEF StartReset, ResetConfigError, TimestampOrder
      <3>4. QED
        BY <3>1, <3>2, <3>3
    <2>2. CASE EnterSendingBody
      <3>1. TypeOK'
        BY <1>3, <2>2 DEF StartReset, EnterSendingBody, AfterStart, Modes,
                          EmptyRequest, TypeOK, States, PCs, Requests, Time,
                          TimeOpt
      <3>2. (PcState /\ Counting /\ Stamps)'
        BY <1>3, <2>2 DEF StartReset, EnterSendingBody, AfterStart, Modes,
                          TypeOK, PcState, Counting, Stamps, Sending
      <3>3. TimestampOrder'
        BY <1>3, <2>2 DEF StartReset, EnterSendingBody, TimestampOrder
      <3>4. QED
        BY <3>1, <3>2, <3>3
    <2>3. QED
      BY <1>3, <2>1, <2>2 DEF StartReset
  <1>4. CASE ExecBody
    <2>1. TypeOK'
      BY <1>4 DEF ExecBody, TypeOK, PCs
    <2>2. (PcState /\ Counting /\ Stamps)'
      BY <1>4 DEF ExecBody, TypeOK, PcState, Counting, Stamps
    <2>3. TimestampOrder'
      BY <1>4 DEF ExecBody, TimestampOrder
    <2>4. QED
      BY <2>1, <2>2, <2>3
  <1>5. CASE BodyWrite
    <2>1. /\ req_body_buf' \in Nat
          /\ req_body_start_time' \in TimeOpt
          /\ req_body_start_time' # None
          /\ TimestampOrder'
      BY <1>5 DEF BodyWrite, RecordWrite, UnwrapOr, TypeOK, PcState, Stamps,
                  TimestampOrder, Time, TimeOpt
    <2>2. ASSUME NEW n \in 1..rem, BodyAccepted(n)
          PROVE  Core'
      <3>1. TypeOK'
        BY <1>5, <2>1, <2>2 DEF BodyWrite, BodyAccepted, TypeOK, PCs
      <3>2. (PcState /\ Counting /\ Stamps)'
        BY <1>5, <2>1, <2>2 DEF BodyWrite, BodyAccepted, TypeOK, PcState,
                                Counting, Stamps
      <3>3. QED
        BY <2>1, <3>1, <3>2
    <2>3. CASE BodyFailed
      <3>1. TypeOK'
        BY <1>5, <2>1, <2>3 DEF BodyWrite, BodyFailed, TypeOK, PCs, ErrorKinds
      <3>2. (PcState /\ Counting /\ Stamps)'
        BY <1>5, <2>1, <2>3 DEF BodyWrite, BodyFailed, PcState, Counting,
                                Stamps
      <3>3. QED
        BY <2>1, <3>1, <3>2
    <2>4. QED
      BY <1>5, <2>2, <2>3 DEF BodyWrite
  <1>6. CASE ExecFlush
    <2>1. TypeOK'
      BY <1>6 DEF ExecFlush, TypeOK, Time, TimeOpt, PCs, ErrorKinds
    <2>2. (PcState /\ Counting /\ Stamps)'
      BY <1>6 DEF ExecFlush, TypeOK, PcState, Counting, Stamps
    <2>3. TimestampOrder'
      BY <1>6 DEF ExecFlush, TypeOK, Stamps, TimestampOrder, Time, TimeOpt
    <2>4. QED
      BY <2>1, <2>2, <2>3
  <1>7. CASE PollRead
    BY <1>7 DEF PollRead, TypeOK, PcState, Counting, Stamps, TimestampOrder, PCs
  <1>8. ASSUME NEW k \in 1..MaxChunk, TransportWrite(k)
        PROVE Core'
    <2>1. TypeOK'
      BY <1>8 DEF TransportWrite, RecordWrite, UnwrapOr, TypeOK, PcState,
                  Counting, Time, TimeOpt
    <2>2. (PcState /\ Counting /\ Stamps)'
      BY <1>8 DEF TransportWrite, RecordWrite, UnwrapOr, TypeOK, PcState,
                  Counting, Stamps
    <2>3. TimestampOrder'
      BY <1>8 DEF TransportWrite, RecordWrite, UnwrapOr, TypeOK, Stamps,
                  TimestampOrder, Time, TimeOpt
    <2>4. QED
      BY <2>1, <2>2, <2>3
  <1>9. CASE TransportShutdown
    <2>1. TypeOK'
      BY <1>9 DEF TransportShutdown, TypeOK, Time, TimeOpt
    <2>2. (PcState /\ Counting /\ Stamps)'
      BY <1>9 DEF TransportShutdown, TypeOK, PcState, Counting, Stamps
    <2>3. TimestampOrder'
      BY <1>9 DEF TransportShutdown, TypeOK, Stamps, TimestampOrder, Time, TimeOpt
    <2>4. QED
      BY <2>1, <2>2, <2>3
  <1>10. CASE TransportDone
    BY <1>10 DEF TransportDone, TypeOK, PcState, Counting, Stamps,
                 TimestampOrder, PCs
  <1>11. CASE Finish
    <2>1. CASE FinishInvalid
      BY <1>11, <2>1 DEF Finish, FinishInvalid, TypeOK, PCs, PcState, Counting,
                         Stamps, TimestampOrder
    <2>2. CASE FinishIdle
      <3>1. TypeOK'
        BY <1>11, <2>2 DEF Finish, FinishIdle, TypeOK, PCs, States
      <3>2. (PcState /\ Counting /\ Stamps /\ TimestampOrder)'
        BY <1>11, <2>2 DEF Finish, FinishIdle, PcState, Counting, Stamps,
                           Sending, TimestampOrder
      <3>3. QED
        BY <3>1, <3>2
    <2>3. CASE FinishSending
      <3>1. start_time \in Time
        BY <1>11, <2>3 DEF FinishSending, TypeOK, PcState, Sending, TimeOpt
      <3>2. End \in Time
        BY DEF End, UnwrapOr, TypeOK, TimeOpt
      <3>3. /\ ReqDuration(End) \in Time
            /\ ReqBodyDuration(End) \in TimeOpt
            /\ ReqTtfb \in TimeOpt
            /\ Elapsed(End, start_time) \in Time
        BY <3>1, <3>2 DEF ReqDuration, ReqBodyDuration, ReqTtfb, req_end_time,
                          UnwrapOr, Elapsed, TypeOK, Time, TimeOpt
      <3>4. out_request' \in Requests \cup {None}
        BY <1>11, <2>3, <3>3 DEF Finish, FinishSending, TypeOK, Requests
      <3>5. TypeOK'
        BY <1>11, <2>3, <3>3, <3>4 DEF Finish, FinishSending, TypeOK, PCs,
                                       States, Time
      <3>6. (PcState /\ Counting /\ Stamps /\ TimestampOrder)'
        BY <1>11, <2>3 DEF Finish, FinishSending, PcState, Counting, Stamps,
                           Sending, TimestampOrder
      <3>7. QED
        BY <3>5, <3>6
    <2>4. QED
      BY <1>11, <2>1, <2>2, <2>3 DEF Finish
  <1>12. CASE Tick
    <2>1. TypeOK'
      BY <1>12 DEF Tick, TypeOK, Time
    <2>2. (PcState /\ Counting /\ Stamps)'
      BY <1>12 DEF Tick, PcState, Counting, Stamps
    <2>3. TimestampOrder'
      BY <1>12 DEF Tick, TypeOK, TimestampOrder, Time, TimeOpt
    <2>4. QED
      BY <2>1, <2>2, <2>3
  <1>13. CASE UNCHANGED vars
    BY <1>13 DEF vars, TypeOK, PcState, Counting, Stamps, TimestampOrder
  <1>14. QED
    BY <1>1, <1>2, <1>3, <1>4, <1>5, <1>6, <1>7, <1>8, <1>9, <1>10, <1>11,
       <1>12, <1>13 DEF Next

\* The timings complete() computes from ordered stamps are consistent.
LEMMA FinishDurations ==
    ASSUME Core, Outputs, pc = "done", FinishSending, out_request # None
    PROVE  DurationsConsistent'
  <1> USE Assumption DEF Core
  <1>1. /\ start_time \in Time
        /\ now \in Time
        /\ End \in Time
        /\ start_time <= End
        /\ req_header_start_time # None =>
              /\ req_header_start_time \in Time
              /\ start_time <= req_header_start_time
              /\ req_header_start_time <= End
        /\ req_body_start_time # None =>
              /\ req_body_start_time \in Time
              /\ start_time <= req_body_start_time
        /\ resp_start_time # None =>
              resp_start_time \in Time /\ resp_start_time <= End
    <2>1. start_time \in Time /\ now \in Time
      BY DEF FinishSending, TypeOK, PcState, Sending, TimeOpt
    <2>2. plan.mode \in Modes
      BY PlanType DEF TypeOK, Modes
    <2>3. QED
      BY <2>1, <2>2 DEF End, UnwrapOr, TypeOK, TimestampOrder, Outputs, Time,
                        TimeOpt
  <1>2. out_request' = [duration |-> ReqDuration(End),
                        body_duration |-> ReqBodyDuration(End),
                        ttfb |-> ReqTtfb, body |-> req_body_buf]
    BY DEF FinishSending
  <1>3. state' = "Complete" /\ out_duration' = Elapsed(End, start_time)
    BY DEF FinishSending
  <1>4. ReqTtfb # None => ReqTtfb <= ReqDuration(End)
    BY <1>1 DEF ReqTtfb, ReqDuration, req_end_time, UnwrapOr, Elapsed, Time
  <1>5. ReqBodyDuration(End) # None => ReqBodyDuration(End) <= ReqDuration(End)
    BY <1>1 DEF ReqBodyDuration, ReqDuration, req_end_time, UnwrapOr, Elapsed,
                Time
  <1>6. /\ ReqDuration(End) = Elapsed(End, start_time)
        /\ Elapsed(End, start_time) \in Nat
    BY <1>1 DEF ReqDuration, req_end_time, UnwrapOr, Elapsed, Time
  <1>7. /\ out_request'.ttfb = ReqTtfb
        /\ out_request'.body_duration = ReqBodyDuration(End)
        /\ out_request'.duration = ReqDuration(End)
    BY <1>2
  <1>8. QED
    BY <1>3, <1>4, <1>5, <1>6, <1>7 DEF DurationsConsistent

\* Every step keeps Outputs and DurationsConsistent, given Core before and
\* after it.
LEMMA NextOutputs ==
    Core /\ Outputs /\ DurationsConsistent /\ [Next]_vars
        => (Outputs /\ DurationsConsistent)'
  <1> SUFFICES ASSUME Core, Outputs, DurationsConsistent, [Next]_vars
               PROVE  (Outputs /\ DurationsConsistent)'
    OBVIOUS
  <1>0. plan.mode \in Modes
    BY PlanType DEF Core, TypeOK
  <1> USE <1>0
  <1>1. CASE Start
    BY <1>1, ErrType DEF Start, StartTransportFailed, EnterSendingHeader,
                         Outputs, DurationsConsistent, Core, PcState
  <1>2. CASE HeaderWrite
    BY <1>2 DEF HeaderWrite, HeaderAccepted, HeaderFailed, StartReturnsErr,
                Outputs, DurationsConsistent, Core, PcState
  <1>3. CASE StartReset
    BY <1>3 DEF StartReset, ResetConfigError, EnterSendingBody,
                Outputs, DurationsConsistent, Core, PcState
  <1>4. CASE ExecBody
    BY <1>4 DEF ExecBody, Outputs, DurationsConsistent, Core, PcState
  <1>5. CASE BodyWrite
    BY <1>5 DEF BodyWrite, BodyAccepted, BodyFailed, RecordWrite,
                Outputs, DurationsConsistent, Core, PcState
  <1>6. CASE ExecFlush
    BY <1>6 DEF ExecFlush, Outputs, DurationsConsistent, Core, PcState
  <1>7. CASE PollRead
    BY <1>7 DEF PollRead, Outputs, DurationsConsistent, Core, PcState
  <1>8. ASSUME NEW k \in 1..MaxChunk, TransportWrite(k)
        PROVE  (Outputs /\ DurationsConsistent)'
    BY <1>8 DEF TransportWrite, RecordWrite, Outputs, DurationsConsistent,
                Core, PcState
  <1>9. CASE TransportShutdown
    BY <1>9 DEF TransportShutdown, Outputs, DurationsConsistent, Core, PcState
  <1>10. CASE TransportDone
    BY <1>10 DEF TransportDone, Outputs, DurationsConsistent, Core, PcState
  <1>11. CASE Finish
    <2>1. CASE FinishInvalid
      BY <1>11, <2>1 DEF Finish, FinishInvalid, Outputs, DurationsConsistent
    <2>2. CASE FinishIdle
      BY <1>11, <2>2 DEF Finish, FinishIdle, Outputs, DurationsConsistent
    <2>3. CASE FinishSending
      <3>1. Outputs'
        BY <1>11, <2>3 DEF Finish, FinishSending, Outputs
      <3>2. CASE out_request = None
        <4>1. out_request' = None
          BY <2>3, <3>2, Zenon DEF FinishSending
        <4>2. QED
          BY <3>1, <4>1, Zenon DEF DurationsConsistent
      <3>3. CASE out_request # None
        <4>1. pc = "done"
          BY <1>11 DEF Finish
        <4>2. QED
          BY <2>3, <3>1, <3>3, <4>1, FinishDurations, Zenon
      <3>4. QED
        BY <3>1, <3>2, <3>3
    <2>4. QED
      BY <1>11, <2>1, <2>2, <2>3 DEF Finish
  <1>12. CASE Tick
    BY <1>12 DEF Tick, Outputs, DurationsConsistent
  <1>13. CASE UNCHANGED vars
    BY <1>13 DEF vars, Outputs, DurationsConsistent
  <1>14. QED
    BY <1>1, <1>2, <1>3, <1>4, <1>5, <1>6, <1>7, <1>8, <1>9, <1>10, <1>11,
       <1>12, <1>13 DEF Next

LEMMA NextIInv == IInv /\ [Next]_vars => IInv'
  BY NextCore, NextOutputs DEF IInv

LEMMA AlwaysIInv == Spec => []IInv
  BY InitIInv, NextIInv, PTL DEF Spec

\* No step moves a phase stamp that is already taken: the stamping steps
\* find it None, and poll_write only fills req_body_start_time in.
LEMMA NextStampsKept == Core /\ [Next]_vars => StampsKept
  <1> SUFFICES ASSUME Core, [Next]_vars PROVE StampsKept
    OBVIOUS
  <1> USE DEF Core
  <1>1. CASE Start
    <2>1. CASE state = "Pending" /\ EnterSendingHeader
      BY <1>1, <2>1 DEF Start, EnterSendingHeader, Stamps, StampsKept
    <2>2. CASE state = "Pending" /\ StartTransportFailed
      BY <1>1, <2>2 DEF Start, StartTransportFailed, StampsKept
    <2>3. QED
      BY <1>1, <2>1, <2>2 DEF Start
  <1>2. CASE HeaderWrite
    BY <1>2 DEF HeaderWrite, RecordWrite, UnwrapOr, StampsKept
  <1>3. CASE StartReset
    BY <1>3 DEF StartReset, StampsKept
  <1>4. CASE ExecBody
    BY <1>4 DEF ExecBody, StampsKept
  <1>5. CASE BodyWrite
    BY <1>5 DEF BodyWrite, RecordWrite, UnwrapOr, StampsKept
  <1>6. CASE ExecFlush
    BY <1>6 DEF ExecFlush, Stamps, StampsKept
  <1>7. CASE PollRead
    BY <1>7 DEF PollRead, StampsKept
  <1>8. ASSUME NEW k \in 1..MaxChunk, TransportWrite(k)
        PROVE  StampsKept
    BY <1>8 DEF TransportWrite, RecordWrite, UnwrapOr, StampsKept
  <1>9. CASE TransportShutdown
    BY <1>9 DEF TransportShutdown, StampsKept
  <1>10. CASE TransportDone
    BY <1>10 DEF TransportDone, StampsKept
  <1>11. CASE Finish
    BY <1>11 DEF Finish, StampsKept
  <1>12. CASE Tick
    BY <1>12 DEF Tick, StampsKept
  <1>13. CASE UNCHANGED vars
    BY <1>13 DEF vars, StampsKept
  <1>14. QED
    BY <1>1, <1>2, <1>3, <1>4, <1>5, <1>6, <1>7, <1>8, <1>9, <1>10, <1>11,
       <1>12, <1>13 DEF Next

-----------------------------------------------------------------------------
(* Every reachable state of the runner and its drivers is well typed: the  *)
(* state is one of the enum's variants, every stamp is an Option<Instant>, *)
(* and the output fields are what complete() writes.                      *)
THEOREM TypeCorrect == Spec => []TypeOK
  <1>1. IInv => TypeOK
    BY DEF IInv, Core
  <1>2. QED
    BY <1>1, AlwaysIInv, PTL

(* The stamps start(), poll_write, execute() and poll_shutdown take are    *)
(* ordered start <= header <= body <= response/end <= now, so the          *)
(* subtractions in complete() measure the phases they are named for.       *)
THEOREM TimestampsOrdered == Spec => []TimestampOrder
  <1>1. IInv => TimestampOrder
    BY DEF IInv, Core
  <1>2. QED
    BY <1>1, AlwaysIInv, PTL

(* Wherever start(), execute() or a transport-mode caller writes to or     *)
(* flushes the runner, it is in SendingHeader or SendingBody, so the       *)
(* `_ => panic!()` arms of poll_write and poll_flush are never taken.      *)
THEOREM WritesInSendingState == Spec => []WriteCallsInSendingState
  <1>1. IInv => WriteCallsInSendingState
    BY DEF IInv, Core, PcState, WriteCallsInSendingState, Sending
  <1>2. QED
    BY <1>1, AlwaysIInv, PTL

(* The timings finish() reports through complete() are consistent in every *)
(* run of a step or of a transport-mode caller: time to                    *)
(* first byte and                                                          *)
(* body duration within the request's duration, and that within the       *)
(* step's duration.                                                        *)
THEOREM DurationsAreConsistent == Spec => []DurationsConsistent
  <1>1. IInv => DurationsConsistent
    BY DEF IInv
  <1>2. QED
    BY <1>1, AlwaysIInv, PTL

(* A phase stamp that start(), poll_write or execute()'s flush has taken   *)
(* is never taken again by any later step of any driver, so the phase     *)
(* durations complete() reports start where the phase started.           *)
THEOREM StampsNeverRetaken == Spec => StampsTakenOnce
  <1>1. IInv /\ [Next]_vars => [StampsKept]_vars
    BY NextStampsKept DEF IInv
  <1>2. QED
    BY <1>1, AlwaysIInv, PTL DEF StampsTakenOnce, Spec

=============================================================================
