---------------------------- MODULE Http1Runner ----------------------------
(***************************************************************************)
(* The HTTP/1 runner of src/src/exec/http1.rs: its State enum, the         *)
(* Option<Instant> timestamps it stamps lazily, the request-body recording *)
(* of poll_write, and the async operations start, execute and finish.      *)
(*                                                                         *)
(* One task drives the runner (the runtime is single-threaded and every    *)
(* method takes &mut self), so the only interleaving is between the        *)
(* runner's steps and the outcomes its transport chooses at each await:    *)
(* a write accepts some of the offered bytes or fails, a flush or the      *)
(* transport's start succeeds or fails.  Two drivers are modelled:         *)
(*   "step"      execute() then finish(): spec 4.5's HTTP-as-step;         *)
(*   "transport" start(size_hint), then poll_write / poll_shutdown /       *)
(*               poll_read calls of a higher layer, then finish().         *)
(* Each calls start() once, on the Pending runner new() built.             *)
(* Bytes are abstracted to counts; time to a bounded monotonic clock.      *)
(* The receive arms of poll_read (ReceivingHeader, ReceivingBody) and      *)
(* receive_header are not part of this module: no assignment in the code   *)
(* ever puts the runner in either state.                                   *)
(***************************************************************************)
EXTENDS Naturals

CONSTANTS
    HeaderLen,  \* length of the buffer compute_header builds
    MaxBody,    \* largest plan body length
    MaxChunk,   \* largest buffer a transport-mode caller passes to poll_write
    MaxCalls,   \* bound on the transport-mode caller's calls
    MaxTime,    \* bound on the monotonic clock
    None        \* Option::None of every Option field

ASSUME Assumption ==
    /\ HeaderLen \in Nat \ {0}   \* the request line alone is never empty
    /\ MaxBody \in Nat
    /\ MaxChunk \in Nat \ {0}
    /\ MaxCalls \in Nat
    /\ MaxTime \in Nat
    /\ None \notin Nat

VARIABLES
    plan,                   \* the driver and the plan fields the runner reads
    pc,                     \* where the driving task is
    state,                  \* Http1Runner.state (the variant tag)
    start_time,             \* start_time held by the Sending*/Receiving* variants
    req_header_start_time,
    req_body_start_time,
    resp_start_time,
    end_time,
    req_body_buf,           \* length of Http1Runner.req_body_buf
    hdr_sent,               \* header bytes the transport accepted
    body_sent,              \* bytes after the header the transport accepted
    rem,                    \* bytes left in the buffer write_all is writing
    calls,                  \* transport-mode calls made
    plan_body,              \* length of out.plan.body, the echoed plan body
    out_request,            \* out.request
    out_error,              \* out.error
    out_duration,           \* out.duration
    now,                    \* Instant::now()
    panic                   \* "none", or the site of the panic that ended the task

vars == <<plan, pc, state, start_time, req_header_start_time,
          req_body_start_time, resp_start_time, end_time, req_body_buf,
          hdr_sent, body_sent, rem, calls, plan_body, out_request,
          out_error, out_duration, now, panic>>

States == {"Pending", "StartFailed", "SendingHeader", "SendingBody",
           "ReceivingHeader", "ReceivingBody", "Complete", "Invalid"}
Sending == {"SendingHeader", "SendingBody"}
PCs == {"start", "header", "reset", "execbody", "body", "flush", "read",
        "idle", "done", "finished", "panicked"}
Time == 0..MaxTime
TimeOpt == Time \cup {None}
ErrorKinds == {"transport start", "send headers", "io"}
Modes == {"step", "transport"}
Plans == {p \in [mode: Modes, body_len: 0..MaxBody,
                 size_hint: (0..MaxBody) \cup {None}, body_end_pause: BOOLEAN] :
            p.mode = "step" => p.size_hint = p.body_len}
Requests == [duration: Time, body_duration: TimeOpt, ttfb: TimeOpt, body: Nat]

\* Http1Runner.req_end_time is read by complete() and never assigned.
req_end_time == None

\* Option::unwrap_or
UnwrapOr(opt, default) == IF opt = None THEN default ELSE opt

\* Instant - Instant, which saturates at zero
Elapsed(later, earlier) == IF later >= earlier THEN later - earlier ELSE 0

-----------------------------------------------------------------------------
TypeOK ==
    /\ plan \in Plans
    /\ pc \in PCs
    /\ state \in States
    /\ start_time \in TimeOpt
    /\ req_header_start_time \in TimeOpt
    /\ req_body_start_time \in TimeOpt
    /\ resp_start_time \in TimeOpt
    /\ end_time \in TimeOpt
    /\ req_body_buf \in Nat
    /\ hdr_sent \in 0..HeaderLen
    /\ body_sent \in Nat
    /\ rem \in Nat
    /\ calls \in 0..MaxCalls
    /\ plan_body \in 0..MaxBody
    /\ out_request \in Requests \cup {None}
    /\ out_error \in ErrorKinds \cup {None}
    /\ out_duration \in Time
    /\ now \in Time
    /\ panic \in {"none", "read", "finish"}

\* Http1Runner::new: Pending, every timestamp None, every buffer empty.
Init ==
    /\ plan \in Plans
    /\ pc = "start"
    /\ state = "Pending"
    /\ start_time = None
    /\ req_header_start_time = None
    /\ req_body_start_time = None
    /\ resp_start_time = None
    /\ end_time = None
    /\ req_body_buf = 0
    /\ hdr_sent = 0
    /\ body_sent = 0
    /\ rem = 0
    /\ calls = 0
    /\ plan_body = plan.body_len
    /\ out_request = None
    /\ out_error = None
    /\ out_duration = 0
    /\ now = 0
    /\ panic = "none"

-----------------------------------------------------------------------------
(* Variants of definitions below, each the shape of a plausible bug in the *)
(* code it models; the properties are validated by catching each one.     *)

\* RecordWrite without the is_none() guard: every write restamps.
RecordWriteRestamp(offered) ==
    /\ req_body_buf' = req_body_buf + offered
    /\ req_body_start_time' = now

\* start() installing SendingHeader without stamping req_header_start_time.
EnterSendingHeaderUnstamped ==
    /\ state' = "SendingHeader"
    /\ start_time' = now
    /\ req_header_start_time' = req_header_start_time
    /\ rem' = HeaderLen
    /\ pc' = "header"
    /\ UNCHANGED out_error

\* start() writing the header before installing SendingHeader.
EnterSendingHeaderLate ==
    /\ state' = state
    /\ start_time' = now
    /\ req_header_start_time' = now
    /\ rem' = HeaderLen
    /\ pc' = "header"
    /\ UNCHANGED out_error

\* request.duration ended at req_end_time.unwrap_or_else(Instant::now).
ReqDurationNow(end) == Elapsed(UnwrapOr(req_end_time, now), start_time)

\* request.duration as req_end_time.map(..), dropping the default.
ReqDurationOption(end) ==
    IF req_end_time = None THEN None ELSE Elapsed(req_end_time, start_time)

-----------------------------------------------------------------------------
(* start() returning Err.  In step mode execute() overwrites out.error     *)
(* with "send headers" and returns; a transport-mode caller gets the Err  *)
(* and the runner is finished.  err is out.error as start() left it.       *)
StartReturnsErr(err) ==
    /\ out_error' = IF plan.mode = "step" THEN "send headers" ELSE err
    /\ pc' = "done"

\* poll_write on a Ready poll (Ok or Err): stamp req_body_start_time once and
\* record the whole offered buffer, whatever the poll says was written.
RecordWrite(offered) ==
    /\ req_body_buf' = req_body_buf + offered
    /\ req_body_start_time' = UnwrapOr(req_body_start_time, now)

\* start(): transport.start() failed.  The runner goes to StartFailed and
\* start() calls complete(), which turns StartFailed into Complete without
\* computing any duration.
StartTransportFailed ==
    /\ state' = "Complete"
    /\ StartReturnsErr("transport start")
    /\ UNCHANGED <<start_time, req_header_start_time, rem>>

\* start(): the transport started.  SendingHeader is installed with
\* start_time, req_header_start_time is stamped, write_all_buf(header) begins.
EnterSendingHeader ==
    /\ state' = "SendingHeader"
    /\ start_time' = now
    /\ req_header_start_time' = now
    /\ rem' = HeaderLen
    /\ pc' = "header"
    /\ UNCHANGED out_error

\* start() moves the state out with mem::replace, leaving Invalid, and
\* returns Err unless it was Pending; both drivers call it once, on the
\* Pending runner new() built, so only the Pending arm is taken.
Start ==
    /\ pc = "start"
    /\ state = "Pending"
    /\ StartTransportFailed \/ EnterSendingHeader
    /\ UNCHANGED <<plan, req_body_start_time, resp_start_time, end_time,
                   req_body_buf, hdr_sent, body_sent, calls, plan_body,
                   out_request, out_duration, now, panic>>

\* The transport accepted n of the rem header bytes offered.
HeaderAccepted(n) ==
    /\ hdr_sent' = hdr_sent + n
    /\ rem' = rem - n
    /\ pc' = IF n = rem THEN "reset" ELSE "header"
    /\ UNCHANGED out_error

\* The poll was Ready(Err) or Ready(Ok(0)): the `?` returns it from start().
HeaderFailed ==
    /\ StartReturnsErr(out_error)
    /\ UNCHANGED <<hdr_sent, rem>>

\* One poll_write of write_all_buf(header) through the runner itself.
HeaderWrite ==
    /\ pc = "header"
    /\ state \in Sending
    /\ RecordWrite(rem)
    /\ (\E n \in 1..rem : HeaderAccepted(n)) \/ HeaderFailed
    /\ UNCHANGED <<plan, state, start_time, req_header_start_time,
                   resp_start_time, end_time, body_sent, calls,
                   plan_body, out_request, out_duration, now, panic>>

\* The request output start() installs once the header is written.
EmptyRequest == [duration |-> 0, body_duration |-> None, ttfb |-> None, body |-> 0]

\* start() after the header resets the pause groups.  Without a size hint a
\* non-empty request_body.end pause is a configuration error, returned
\* after the state was moved out: Invalid stays.
ResetConfigError ==
    /\ plan.size_hint = None /\ plan.body_end_pause
    /\ state' = "Invalid"
    /\ StartReturnsErr(out_error)
    /\ UNCHANGED out_request

\* Where start() returns Ok to: execute() goes on with the body, a
\* transport-mode caller starts writing.
AfterStart == [step |-> "execbody", transport |-> "idle"]

\* Otherwise the runner enters SendingBody with an empty request output and
\* start() returns Ok to its caller.
EnterSendingBody ==
    /\ ~(plan.size_hint = None /\ plan.body_end_pause)
    /\ state' = "SendingBody"
    /\ out_request' = EmptyRequest
    /\ pc' = AfterStart[plan.mode]
    /\ UNCHANGED out_error

StartReset ==
    /\ pc = "reset"
    /\ state = "SendingHeader"
    /\ ResetConfigError \/ EnterSendingBody
    /\ UNCHANGED <<plan, start_time, req_header_start_time, req_body_start_time,
                   resp_start_time, end_time, req_body_buf, hdr_sent, body_sent,
                   rem, calls, plan_body, out_duration, now, panic>>

\* execute() after start(): an empty body goes straight to flush; otherwise
\* the body is moved out of out.plan and write_all(body) begins.
ExecBody ==
    /\ pc = "execbody"
    /\ \/ /\ plan.body_len = 0
          /\ pc' = "flush"
          /\ UNCHANGED <<rem, plan_body>>
       \/ /\ plan.body_len > 0
          /\ plan_body' = 0
          /\ rem' = plan.body_len
          /\ pc' = "body"
    /\ UNCHANGED <<plan, state, start_time, req_header_start_time,
                   req_body_start_time, resp_start_time, end_time, req_body_buf,
                   hdr_sent, body_sent, calls, out_request, out_error,
                   out_duration, now, panic>>

\* The transport accepted n of the rem body bytes; once all are written the
\* body is moved back into out.plan.
BodyAccepted(n) ==
    /\ body_sent' = body_sent + n
    /\ rem' = rem - n
    /\ pc' = IF n = rem THEN "flush" ELSE "body"
    /\ plan_body' = IF n = rem THEN plan.body_len ELSE plan_body
    /\ UNCHANGED out_error

\* A write error: execute() records it and returns with the body still
\* moved out of out.plan.
BodyFailed ==
    /\ out_error' = "io"
    /\ pc' = "done"
    /\ UNCHANGED <<body_sent, rem, plan_body>>

\* One poll_write of execute()'s write_all(body).
BodyWrite ==
    /\ pc = "body"
    /\ state \in Sending
    /\ RecordWrite(rem)
    /\ (\E n \in 1..rem : BodyAccepted(n)) \/ BodyFailed
    /\ UNCHANGED <<plan, state, start_time, req_header_start_time,
                   resp_start_time, end_time, hdr_sent, calls, out_request,
                   out_duration, now, panic>>

\* execute(): flush through poll_flush (which only delegates), then stamp
\* resp_start_time and start read_to_end; a flush error is recorded and
\* execute() returns.
ExecFlush ==
    /\ pc = "flush"
    /\ state \in Sending
    /\ \/ /\ resp_start_time' = now
          /\ pc' = "read"
          /\ UNCHANGED out_error
       \/ /\ out_error' = "io"
          /\ pc' = "done"
          /\ UNCHANGED resp_start_time
    /\ UNCHANGED <<plan, state, start_time, req_header_start_time,
                   req_body_start_time, end_time, req_body_buf, hdr_sent,
                   body_sent, rem, calls, plan_body, out_request,
                   out_duration, now, panic>>

\* poll_read, from execute()'s read_to_end or a transport-mode caller.  The
\* state is moved out under a scopeguard and matched: only ReceivingHeader
\* and ReceivingBody are handled, any other state hits `_ => panic!()`.
PollRead ==
    /\ pc \in {"read", "idle"}
    /\ state \notin {"ReceivingHeader", "ReceivingBody"}
    /\ panic' = "read"
    /\ pc' = "panicked"
    /\ UNCHANGED <<plan, state, start_time, req_header_start_time,
                   req_body_start_time, resp_start_time, end_time,
                   req_body_buf, hdr_sent, body_sent, rem, calls,
                   plan_body, out_request, out_error, out_duration, now>>

\* A transport-mode caller's single poll_write of k bytes: the transport
\* accepts n of them (n = 0 standing for Ready(Err) or Ready(Ok(0))).
TransportWrite(k) ==
    /\ pc = "idle"
    /\ calls < MaxCalls
    /\ state \in Sending
    /\ RecordWrite(k)
    /\ \E n \in 0..k : body_sent' = body_sent + n
    /\ calls' = calls + 1
    /\ UNCHANGED <<plan, pc, state, start_time, req_header_start_time,
                   resp_start_time, end_time, hdr_sent, rem, plan_body,
                   out_request, out_error, out_duration, now, panic>>

\* A transport-mode caller's poll_shutdown: when the transport's shutdown is
\* ready (Ok or Err) end_time is stamped, overwriting an earlier stamp.
TransportShutdown ==
    /\ pc = "idle"
    /\ calls < MaxCalls
    /\ state \in Sending
    /\ end_time' = now
    /\ calls' = calls + 1
    /\ UNCHANGED <<plan, pc, state, start_time, req_header_start_time,
                   req_body_start_time, resp_start_time, req_body_buf,
                   hdr_sent, body_sent, rem, plan_body, out_request,
                   out_error, out_duration, now, panic>>

\* The transport-mode caller is done with the stream and finishes the runner.
TransportDone ==
    /\ pc = "idle"
    /\ pc' = "done"
    /\ UNCHANGED <<plan, state, start_time, req_header_start_time,
                   req_body_start_time, resp_start_time, end_time,
                   req_body_buf, hdr_sent, body_sent, rem, calls,
                   plan_body, out_request, out_error, out_duration,
                   now, panic>>

-----------------------------------------------------------------------------
(* complete(), called by finish().                                         *)

\* end_time, or now when poll_shutdown never stamped it
End == UnwrapOr(end_time, now)

\* request.duration: req_end_time (never set) or the end, from start_time
ReqDuration(end) == Elapsed(UnwrapOr(req_end_time, end), start_time)

\* request.body_duration: from req_body_start_time to resp_start_time or the end
ReqBodyDuration(end) ==
    IF req_body_start_time = None THEN None
    ELSE Elapsed(UnwrapOr(resp_start_time, end), req_body_start_time)

\* request.time_to_first_byte: from start_time to req_header_start_time
ReqTtfb ==
    IF req_header_start_time = None THEN None
    ELSE Elapsed(req_header_start_time, start_time)

\* complete() on the Invalid placeholder panics.
FinishInvalid ==
    /\ state = "Invalid"
    /\ panic' = "finish"
    /\ pc' = "panicked"
    /\ UNCHANGED <<state, out_request, out_duration>>

\* From Complete, Pending or StartFailed complete() only installs Complete.
FinishIdle ==
    /\ state \in {"Complete", "Pending", "StartFailed"}
    /\ state' = "Complete"
    /\ pc' = "finished"
    /\ UNCHANGED <<out_request, out_duration, panic>>

\* From a Sending or Receiving state complete() fills in the request's
\* timings and body (the response branch needs out.response, which only
\* receive_header sets) and out.duration.
FinishSending ==
    /\ state \in Sending \cup {"ReceivingHeader", "ReceivingBody"}
    /\ state' = "Complete"
    /\ pc' = "finished"
    /\ out_request' =
            IF out_request = None THEN None
            ELSE [duration |-> ReqDuration(End),
                  body_duration |-> ReqBodyDuration(End),
                  ttfb |-> ReqTtfb,
                  body |-> req_body_buf]
    /\ out_duration' = Elapsed(End, start_time)
    /\ UNCHANGED panic

\* finish() = complete(), then take the Complete state apart.
Finish ==
    /\ pc = "done"
    /\ FinishInvalid \/ FinishIdle \/ FinishSending
    /\ UNCHANGED <<plan, start_time, req_header_start_time, req_body_start_time,
                   resp_start_time, end_time, req_body_buf, hdr_sent, body_sent,
                   rem, calls, plan_body, out_error, now>>

\* Time passes while the task is suspended at an await.
Tick ==
    /\ pc \notin {"finished", "panicked"}
    /\ now < MaxTime
    /\ now' = now + 1
    /\ UNCHANGED <<plan, pc, state, start_time, req_header_start_time,
                   req_body_start_time, resp_start_time, end_time,
                   req_body_buf, hdr_sent, body_sent, rem, calls,
                   plan_body, out_request, out_error, out_duration, panic>>

\* A panic unwinds the task (pc = "panicked"): nothing happens after it.
Next ==
    \/ Start
    \/ HeaderWrite
    \/ StartReset
    \/ ExecBody
    \/ BodyWrite
    \/ ExecFlush
    \/ PollRead
    \/ \E k \in 1..MaxChunk : TransportWrite(k)
    \/ TransportShutdown
    \/ TransportDone
    \/ Finish
    \/ Tick

Spec == Init /\ [][Next]_vars

-----------------------------------------------------------------------------
(* Properties.                                                             *)

(* Every stamp is set no earlier than the stamp of the phase before it,    *)
(* and only once that one is set: start_time <= req_header_start_time <=   *)
(* req_body_start_time <= resp_start_time and <= end_time, none after now. *)
(* complete() subtracts these pairwise, so a stamp taken in the wrong      *)
(* order or restamped by a later poll_write/poll_shutdown shows up here.   *)
TimestampOrder ==
    /\ req_header_start_time # None =>
            start_time # None /\ start_time <= req_header_start_time
    /\ req_body_start_time # None =>
            req_header_start_time # None
            /\ req_header_start_time <= req_body_start_time
    /\ resp_start_time # None =>
            req_body_start_time # None /\ req_body_start_time <= resp_start_time
    /\ end_time # None =>
            req_body_start_time # None /\ req_body_start_time <= end_time
    /\ \A t \in {start_time, req_header_start_time, req_body_start_time,
                  resp_start_time, end_time} : t # None => t <= now

(* A phase stamp, once taken, is never taken again: poll_write stamps     *)
(* req_body_start_time only while it is None (http1.rs:161-167), and the   *)
(* Sending variants carry start_time over from SendingHeader to           *)
(* SendingBody, so a later write, reset or flush never moves a phase's     *)
(* start.  end_time is left out: poll_shutdown restamps it on purpose.     *)
StampsKept ==
    /\ start_time # None => start_time' = start_time
    /\ req_header_start_time # None =>
            req_header_start_time' = req_header_start_time
    /\ req_body_start_time # None => req_body_start_time' = req_body_start_time
    /\ resp_start_time # None => resp_start_time' = resp_start_time

(* In every step of every driver the four phase stamps are kept once taken. *)
StampsTakenOnce == [][StampsKept]_vars

(* The timings finish() reports are consistent (spec section 8): the       *)
(* request's time to first byte and body duration never exceed its        *)
(* duration, which never exceeds the step's duration, even when a          *)
(* transport-mode caller shut the stream down early.                       *)
DurationsConsistent ==
    state = "Complete" /\ out_request # None =>
        /\ out_request.ttfb # None => out_request.ttfb <= out_request.duration
        /\ out_request.body_duration # None =>
                out_request.body_duration <= out_request.duration
        /\ out_request.duration <= out_duration

(* poll_write and poll_flush panic unless the runner is in SendingHeader   *)
(* or SendingBody: every point where start(), execute() or a transport-    *)
(* mode caller writes or flushes finds the runner in one of them.          *)
WriteCallsInSendingState ==
    pc \in {"header", "body", "flush", "idle"} => state \in Sending

(* Running a plan step, execute() then finish(), never panics: a request  *)
(* that was sent and flushed has its response read (spec section 4.5).    *)
StepNeverPanics == plan.mode = "step" => panic = "none"

(* The Invalid placeholder is never seen by a caller: whenever start() or  *)
(* execute() has returned, the state is a real one (spec section 4.5).     *)
InvalidNeverObserved ==
    pc \in {"idle", "done", "finished"} => state # "Invalid"

(* request.body in the output is exactly the body bytes written below the  *)
(* runner (spec section 8: the header is not part of it; spec section 3:   *)
(* the bytes observed being written, however the transport split them).   *)
RequestBodyIsWrittenBody ==
    state = "Complete" /\ out_request # None => out_request.body = body_sent

(* A step whose transport failed to start reports that failure (spec 7:   *)
(* a failed transport start is surfaced and the step still emits its      *)
(* output with this error): the error kind in the output is the one       *)
(* start() recorded for it (http1.rs:367-370), not one execute() puts in  *)
(* its place.  In a step, only a failed transport start leaves the runner *)
(* Complete with no start stamp.                                          *)
TransportStartErrorReported ==
    plan.mode = "step" /\ state = "Complete" /\ start_time = None
        => out_error = "transport start"

(* execute() moves the body out of out.plan and back, so the echoed plan   *)
(* keeps its body (spec section 4.5).                                      *)
PlanBodyEchoed == pc = "finished" => plan_body = plan.body_len

=============================================================================
