----------------------------- MODULE HttpRunner -----------------------------
(***************************************************************************)
(* HttpRunner of src/src/exec/http.rs composed with the Http1Runner it     *)
(* wraps.  HttpRunner::new builds the transport stack (RawTcp, Tcp, and    *)
(* Tls for https), start() starts it bottom-up and then calls the inner    *)
(* runner's start(transport) on its top; finish() finishes the inner       *)
(* runner and converts its output.                                         *)
(*                                                                         *)
(* The inner runner is Http1Runner.tla, instantiated on the same           *)
(* variables; HttpRunner adds its own state and the position of the task   *)
(* that calls it.  http.rs was written against another revision of        *)
(* http1.rs: it calls r.start(transport) and r.execute(), where this       *)
(* http1.rs has start(size_hint) (the transport was given to new()) and an *)
(* execute() that calls start() itself.  The model therefore follows       *)
(* HttpRunner up to the call r.start(transport) and stops there: what that *)
(* call, and HttpRunner::execute after it, would do has no code in this    *)
(* revision.  The inner runner is finished only on the path where it was   *)
(* never started, a failed transport.  The transports' own runners are     *)
(* not under src/: each start() is an await that succeeds or fails.        *)
(***************************************************************************)
EXTENDS Naturals

CONSTANTS HeaderLen, MaxBody, MaxChunk, MaxCalls, MaxTime, None

\* The inner runner's constants, with what Http1Runner assumes of them;
\* and Option::None is none of the errors HttpRunner returns.
ASSUME HttpAssumption ==
    /\ HeaderLen \in Nat \ {0}
    /\ MaxBody \in Nat
    /\ MaxChunk \in Nat \ {0}
    /\ MaxCalls \in Nat
    /\ MaxTime \in Nat
    /\ None \notin Nat
    /\ None \notin {"url", "transport"}

VARIABLES
    plan, pc, state, start_time, req_header_start_time, req_body_start_time,
    resp_start_time, end_time, req_body_buf, hdr_sent, body_sent, rem, calls,
    plan_body, out_request, out_error, out_duration, now, panic

H == INSTANCE Http1Runner

VARIABLES
    url,        \* the plan's URL: its scheme, and whether it has a host and port
    hstate,     \* HttpRunner.state: "Pending", "Running"
    started,    \* transports of the stack whose start() returned Ok
    hpc,        \* the calling task: where it is in new, size_hint, start, finish
    herr        \* the error HttpRunner::new or the stack's start returned, or None

\* The inner runner's variables, as in Http1Runner.
rvars == <<plan, pc, state, start_time, req_header_start_time,
           req_body_start_time, resp_start_time, end_time, req_body_buf,
           hdr_sent, body_sent, rem, calls, plan_body, out_request, out_error,
           out_duration, now, panic>>
hvars == <<url, hstate, started, hpc, herr>>
vars == <<rvars, hvars>>

URLs == [https: BOOLEAN, has_host_port: BOOLEAN]

\* A stack with one layer more than HttpRunner::new pushes.
LayersExtra == IF url.https THEN 4 ELSE 3

\* The transports HttpRunner::new pushes: RawTcp and Tcp, and Tls for https.
Layers == IF url.https THEN 3 ELSE 2

HttpTypeOK ==
    /\ H!TypeOK
    /\ url \in URLs
    /\ hstate \in {"Pending", "Running"}
    /\ started \in 0..3
    /\ hpc \in {"new", "hint", "start", "stack", "inner", "finish", "finished",
                "failed"}
    /\ herr \in {None, "url", "transport"}

Init ==
    /\ H!Init
    /\ url \in URLs
    /\ hstate = "Pending"
    /\ started = 0
    /\ hpc = "new"
    /\ herr = None

(***************************************************************************)
(* The calling task.                                                       *)
(***************************************************************************)

\* HttpRunner::new: every `url.host().ok_or_else(..)?` and
\* `port_or_known_default().ok_or_else(..)?` returns Err when the URL has
\* no host or no known port; otherwise the stack is built, Pending.
New ==
    /\ hpc = "new"
    /\ \/ url.has_host_port /\ hpc' = "hint" /\ UNCHANGED herr
       \/ ~url.has_host_port /\ hpc' = "failed" /\ herr' = "url"
    /\ UNCHANGED <<rvars, url, hstate, started>>

\* HttpRunner::size_hint, which panics outside Pending and otherwise folds
\* the hint down the stack (the layers' size_hint is not under src/).
SizeHint ==
    /\ hpc = "hint"
    /\ hstate = "Pending"
    /\ hpc' = "start"
    /\ UNCHANGED <<rvars, url, hstate, started, herr>>

\* HttpRunner::start: mem::replace puts Running in place of Pending and
\* takes the transports.
StartStack ==
    /\ hpc = "start"
    /\ hstate = "Pending"
    /\ hstate' = "Running"
    /\ hpc' = "stack"
    /\ UNCHANGED <<rvars, url, started, herr>>

\* The whole stack is started.
StackUp == started >= Layers

\* `t.start(transport, 1).await?` on the next layer up: Ok, or Err, which
\* returns at once: the layers already started and the failed one are
\* dropped, the inner runner is never started, and the caller finishes it.
StartTransport ==
    /\ hpc = "stack"
    /\ ~StackUp
    /\ \/ started' = started + 1 /\ UNCHANGED <<hpc, herr, rvars>>
       \/ /\ herr' = "transport"
          /\ hpc' = "finish"
          /\ pc' = "done"
          /\ UNCHANGED started
          /\ UNCHANGED <<plan, state, start_time, req_header_start_time,
                         req_body_start_time, resp_start_time, end_time,
                         req_body_buf, hdr_sent, body_sent, rem, calls,
                         plan_body, out_request, out_error, out_duration,
                         now, panic>>
    /\ UNCHANGED <<url, hstate>>

\* The loop ran to its end: `transport.expect(..)` holds the top layer and
\* r.start(transport).await is called on it.  That method has no code in
\* this revision of http1.rs, so the modelled part of the task ends here.
StartInner ==
    /\ hpc = "stack"
    /\ StackUp
    /\ hpc' = "inner"
    /\ UNCHANGED <<rvars, url, hstate, started, herr>>

\* HttpRunner::finish: r.finish(), then the Http1 output converted field by
\* field into the HttpOutput, with protocol "HTTP/1.1".
Finish ==
    /\ hpc = "finish"
    /\ H!Finish
    /\ hpc' = "finished"
    /\ UNCHANGED <<url, hstate, started, herr>>

\* Time passes while the task is suspended.
Tick ==
    /\ hpc \notin {"finished", "failed"}
    /\ H!Tick
    /\ UNCHANGED hvars

Next ==
    \/ New
    \/ SizeHint
    \/ StartStack
    \/ StartTransport
    \/ StartInner
    \/ Finish
    \/ Tick

Spec == Init /\ [][Next]_vars

(***************************************************************************)
(* Properties.                                                             *)
(***************************************************************************)

(* A transport that fails to start is reported in the step's output: the *)
(* failed runner's finish() returns an output whose errors carry it (spec *)
(* 4.3), and the HttpOutput is made from the stack's outputs.             *)
StartFailureReported ==
    hpc = "finished" /\ herr = "transport" => out_error # None

=============================================================================
