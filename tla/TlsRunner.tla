------------------------------ MODULE TlsRunner ------------------------------
(***************************************************************************)
(* TLSRunner of src/src/exec/tls.rs run as a step, on the runtime thread   *)
(* it shares with a sibling: the embedder's timer that races next() (spec  *)
(* 5).  new() performs the handshake, execute() writes the body, flushes   *)
(* and reads to the end, finish() reports the version and the duration.    *)
(* Both pauses, "open" after the handshake and "request_body" after the    *)
(* flush, are a std::thread::sleep: the thread is held until it ends.      *)
(*                                                                         *)
(* Time is a discrete clock.  The thread is free whenever the step's task  *)
(* is suspended at an await; a free thread runs a due timer before the     *)
(* clock moves on, a held one cannot.                                      *)
(***************************************************************************)
EXTENDS Naturals

CONSTANTS
    MaxTime,    \* the last instant of the clock
    MaxPause,   \* the longest pause duration a plan gives
    None        \* Option::None: no pause of that name, no start instant

VARIABLES
    pauses,     \* req.pause: the duration of the "open" and "request_body" pauses, or None
    pc,         \* where the step's task is: new, connect, write, flush, read, finish, done
    sleeping,   \* what is left of a std::thread::sleep the thread is blocked in
    start,      \* TLSRunner.start, taken before the handshake
    result,     \* what the step ended with: None, "new" (Err), "execute" (Err), "ok"
    duration,   \* response.duration that finish() reports, or None
    now,        \* the clock
    deadline,   \* the instant the sibling timer is due
    timer       \* the sibling timer: "armed" or "fired"

vars == <<pauses, pc, sleeping, start, result, duration, now, deadline, timer>>

PauseOpt == (0..MaxPause) \cup {None}

TypeOK ==
    /\ pauses \in [open: PauseOpt, request_body: PauseOpt]
    /\ pc \in {"new", "connect", "write", "flush", "read", "finish", "done"}
    /\ sleeping \in 0..MaxPause
    /\ start \in (0..MaxTime) \cup {None}
    /\ result \in {None, "new", "execute", "ok"}
    /\ duration \in (0..MaxTime) \cup {None}
    /\ now \in 0..MaxTime
    /\ deadline \in 0..MaxTime
    /\ timer \in {"armed", "fired"}

Init ==
    /\ pauses \in [open: PauseOpt, request_body: PauseOpt]
    /\ pc = "new"
    /\ sleeping = 0
    /\ start = None
    /\ result = None
    /\ duration = None
    /\ now = 0
    /\ deadline \in 0..MaxTime
    /\ timer = "armed"

\* `if let Some(p) = req.pause.iter().find(..) { std::thread::sleep(..) }`:
\* the thread is held for the pause, if the plan has one.
Sleep(p) == IF p = None THEN 0 ELSE p

\* The thread is free: the step's task is at an await, not in a sleep.
ThreadFree == sleeping = 0

(***************************************************************************)
(* The step's task.                                                        *)
(***************************************************************************)

\* ServerName::try_from(req.host) fails: new() returns Err.
NewBadHost ==
    /\ pc = "new"
    /\ pc' = "done"
    /\ result' = "new"
    /\ UNCHANGED <<pauses, sleeping, start, duration, now, deadline, timer>>

\* The host is a valid name: start = Instant::now(), then connect() is awaited.
NewConnect ==
    /\ pc = "new"
    /\ start' = now
    /\ pc' = "connect"
    /\ UNCHANGED <<pauses, sleeping, result, duration, now, deadline, timer>>

\* The handshake's await returns: Err leaves new() through `?`; Ok is
\* followed by the "open" pause and the runner is returned.
Handshake ==
    /\ pc = "connect"
    /\ ThreadFree
    /\ \/ pc' = "done" /\ result' = "new" /\ UNCHANGED sleeping
       \/ pc' = "write" /\ sleeping' = Sleep(pauses.open) /\ UNCHANGED result
    /\ UNCHANGED <<pauses, start, duration, now, deadline, timer>>

\* execute(): write_all(body).await?, an Err returning from execute().
Write ==
    /\ pc = "write"
    /\ ThreadFree
    /\ \/ pc' = "flush" /\ UNCHANGED result
       \/ pc' = "finish" /\ result' = "execute"
    /\ UNCHANGED <<pauses, sleeping, start, duration, now, deadline, timer>>

\* flush().await?, then the "request_body" pause.
Flush ==
    /\ pc = "flush"
    /\ ThreadFree
    /\ \/ pc' = "read" /\ sleeping' = Sleep(pauses.request_body) /\ UNCHANGED result
       \/ pc' = "finish" /\ result' = "execute" /\ UNCHANGED sleeping
    /\ UNCHANGED <<pauses, start, duration, now, deadline, timer>>

\* read_to_end(..).await?, Ok or Err; execute() returns.
Read ==
    /\ pc = "read"
    /\ ThreadFree
    /\ \/ result' = "ok"
       \/ result' = "execute"
    /\ pc' = "finish"
    /\ UNCHANGED <<pauses, sleeping, start, duration, now, deadline, timer>>

\* finish(): the Tee's parts, the negotiated version (always established
\* after a handshake that returned Ok) and start.elapsed().
Finish ==
    /\ pc = "finish"
    /\ duration' = now - start
    /\ pc' = "done"
    /\ UNCHANGED <<pauses, sleeping, start, result, now, deadline, timer>>

(***************************************************************************)
(* The runtime.                                                            *)
(***************************************************************************)

TimerDue == timer = "armed" /\ now >= deadline

\* The sibling timer fires; it can only run on a free thread.
Fire ==
    /\ TimerDue
    /\ ThreadFree
    /\ timer' = "fired"
    /\ UNCHANGED <<pauses, pc, sleeping, start, result, duration, now, deadline>>

\* The clock moves on, and a blocking sleep with it.  A free thread serves
\* a due timer first.
Tick ==
    /\ now < MaxTime
    /\ ~ThreadFree \/ ~TimerDue
    /\ now' = now + 1
    /\ sleeping' = IF sleeping > 0 THEN sleeping - 1 ELSE 0
    /\ UNCHANGED <<pauses, pc, start, result, duration, deadline, timer>>

Next ==
    \/ NewBadHost
    \/ NewConnect
    \/ Handshake
    \/ Write
    \/ Flush
    \/ Read
    \/ Finish
    \/ Fire
    \/ Tick

Spec == Init /\ [][Next]_vars

(***************************************************************************)
(* Properties.                                                             *)
(***************************************************************************)

(* A pause never delays a sibling task's timer (spec 5: pause suspensions *)
(* must yield to the runtime so that timers on sibling tasks make         *)
(* progress): the embedder's timer never stays armed past its deadline.   *)
(* tls.rs:83 and :100 pause with std::thread::sleep.                      *)
TimerNeverLate == timer = "armed" => now <= deadline

=============================================================================
