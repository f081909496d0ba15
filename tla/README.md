# TLA+ verification of the apivuln execution core

These are TLA+ models of the Rust code that executes a plan's steps. TLC
model-checks them on small instances, and TLAPS proves their main
invariants for every instance. `PROJECT.json` lists the following:

- the components;
- every run, with its properties and the code mutation that each property catches;
- the map from each definition to the source lines it translates;
- the findings, the hazards and the theorems.

## The system and its parts

| Part | Source | What it does | Model |
|---|---|---|---|
| Http1Runner | `src/src/exec/http1.rs` | The HTTP/1 state machine (Pending, StartFailed, SendingHeader, SendingBody, ReceivingHeader, ReceivingBody, Complete, Invalid). It is driven as a step (`execute()`) or as a byte-stream transport for a higher layer. It records the request bytes and timestamps, and `finish()`/`complete()` turns them into the output. | `Http1Runner.tla` (partly) |
| HttpRunner | `src/src/exec/http.rs` | Builds the RawTcp → Tcp → (Tls) stack. It folds `size_hint` through the stack in reverse, starts it bottom-up, and delegates to Http1Runner. | `HttpRunner.tla` (partly), on an instance of `Http1Runner.tla`; proofs in `HttpRunnerProofs.tla` |
| TLSRunner | `src/src/exec/tls.rs` | Handshake, the `open` / `request_body` pauses, `execute`, and `finish`. | `TlsRunner.tla`, as a step beside the embedder's timer |
| Executor | `src/ql/src/exec/mod.rs` | `next()` walks the plan's steps and stores named outputs. | `Executor.tla`, refining `SequentialPlan.tla`; proofs in `ExecutorProofs.tla` |
| Output types | `src/src/output/http.rs` | Pure data. | Abstracted in `Http1Runner.tla` |
| PauseStream, Tee, RawTcp/Tcp runners | not under `src/` | Transports below Http1Runner. | Only as the outcomes of their polls |

How the parts interact:

1. The Executor calls a protocol's `execute` for each step.
2. For HTTP, HttpRunner builds the transport stack and hands the top transport to Http1Runner.
3. Http1Runner wraps that transport in a PauseStream. It writes the header and then the body through itself, so every byte passes through `poll_write`.
4. `finish()` runs `complete()`, which computes the durations from the timestamps.

## Http1Runner.tla

| Variable | Code |
|---|---|
| `state` | `Http1Runner.state`, reduced to its variant name |
| `start_time` | The `start_time` field of the Sending/Receiving variants |
| `req_header_start_time`, `req_body_start_time`, `resp_start_time`, `end_time` | The `Option<Instant>` fields of the same names. `None` is a model value, and the clock `now` runs over `0..MaxTime`. |
| `req_body_buf` | The length of `req_body_buf`. |
| `hdr_sent`, `body_sent` | Bytes the transport accepted. The code does not keep these counts; they are ghost variables that the properties compare against. |
| `rem` | Bytes left to offer in the current `write_all`. |
| `plan_body` | The length of `out.plan.body`. |
| `out_request`, `out_error`, `out_duration` | `out.request`, `out.error`, `out.duration`. A request holds `duration`, `body_duration`, `ttfb` and `body` length. |
| `pc` | Where the driving task is suspended. |
| `panic` | A panic has unwound the task (`pc = "panicked"`). |

Actions. Each one is a whole poll or a whole synchronous stretch of code between two awaits.

- **`Start`**: `start()` up to the header write. The transport either fails to start (`StartTransportFailed`: StartFailed, then `complete()`, giving Complete) or enters SendingHeader and stamps `start_time` and `req_header_start_time` (`EnterSendingHeader`).
- **`HeaderWrite`**: one `poll_write` of `write_all_buf(header)`. The transport accepts `n` bytes (`HeaderAccepted`), or the poll fails and the `?` returns (`HeaderFailed`). In both cases `poll_write` stamps `req_body_start_time` once and records the whole offered buffer (`RecordWrite`).
- **`StartReset`**: the rest of `start()`. With no size hint and a non-empty `request_body.end` pause it returns the configuration error with Invalid left in place (`ResetConfigError`). Otherwise it enters SendingBody with an empty request output (`EnterSendingBody`).
- `Start` keeps the Pending guard of the `let ... else` at lines 351-361. Both drivers call `start()` exactly once, on the Pending runner that `new()` built, so the other branch (Err with Invalid left) is never taken.
- **`StartReturnsErr`**: a step's `execute()` turns every `start()` error into `"send headers"` and returns.
- **`ExecBody`, `BodyWrite` (`BodyAccepted` / `BodyFailed`), `ExecFlush`**: the rest of `execute()`. The body is taken out of `out.plan` and written, then put back, then flushed, and `resp_start_time` is stamped.
- **`PollRead`**: `poll_read` from `execute()`'s `read_to_end` or from a transport-mode caller. It panics in every state other than ReceivingHeader and ReceivingBody.
- **`TransportWrite(k)`, `TransportShutdown`, `TransportDone`**: a higher layer using the runner as a transport. Its number of calls is bounded by `MaxCalls`.
- **`Finish`**: `finish()`/`complete()`. It panics on Invalid (`FinishInvalid`). From Complete, Pending or StartFailed it only installs Complete (`FinishIdle`). Otherwise it computes the request's timings and `out.duration` (`FinishSending`).
- **`Tick`**: time passes while the task is suspended.

Abstractions:

- The bytes are abstracted to counts.
- `compute_header` is abstracted to `HeaderLen`.
- The pause observations are left out, because no property reads them.
- The response branch of `complete()` is left out, because `out.response` is only set by `receive_header`, which is unreachable.
- `Instant - Instant` saturates at zero (`Elapsed`), as Rust's does.
- The two `Instant::now()` calls at lines 377 and 395 read the same `now`. That is one of the outcomes the code can produce.

Plans cover the two drivers (`plan.mode`); `AfterStart[plan.mode]` is where `start()` returns Ok to:

- `"step"`, with `size_hint = Some(len(body))`;
- `"transport"`, with any hint, including `None`, with or without a body-end pause.

## Executor.tla

Variables: `steps` (the plan, by step name; an unnamed step is `None`), `current` (the 0-based cursor or `None`), `outputs` (the `HashMap`, from name to the index of the step whose output it holds), `pc` (the embedder's task: idle, awaiting `execute()`, done, panicked) and the ghost `runs` (how often each step's request went out, saturating at 2).

- **`Pull`** is `next()` up to the await: `NextDone` (`current` is None: Err(Done)), `NextOutOfRange` (`steps[*current]` past the end: a panic) or `NextExecute` (the request goes out).
- **`Return`** is the rest of `next()`: `StepFailed` (the `?` returns; the embedder cancelling the future leaves the same state), `StepUnnamed` (return before advancing) or `StepStored` (`insert`, modelled by `Insert`, then `*current += 1`).

`SequentialPlan.tla` is what the executor promises its embedder (spec 4.7, 5, 9): an atomic interpreter whose cursor walks the plan in order, one step at a time and never back. Its environment is declarative: `Latest(s, k)` binds every name used by the first `k` steps to the latest of them. `Advance`, `Exhausted` and `Overrun` are its steps; a failed or in-flight step is a stutter. Spec 4.7 also has a failed or unnamed step advance; the code does not, and that divergence is what `executor_step_runs_twice` shows, so the abstract spec does not require it. `Executor.tla` maps to it by `Plan == INSTANCE SequentialPlan WITH cursor <- current, env <- outputs, status <- Status`, where `Status` is "running" while idle or awaiting. `ImplementsSequentialPlan == Plan!Spec` is checked by TLC and proved by TLAPS.

Fairness: `WF_vars(Pull) /\ WF_vars(Return)`. The embedder keeps pulling while idle, and an awaited `execute()` is polled by the runtime until it returns Ok, Err, or is dropped on the embedder's timeout; no step is assumed to succeed.

## HttpRunner.tla

`H == INSTANCE Http1Runner` on the same variables. HttpRunner adds `url` (scheme, and whether it has a host and a port), `hstate` (Pending, Running), `started` (layers whose `start()` returned Ok), `herr` (the error that `new` or a layer's `start` returned) and `hpc` (the calling task).

- **`New`**: the `ok_or_else(..)?` on host and port.
- **`SizeHint`**: the Pending check (the hint values are not modelled).
- **`StartStack`**, **`StartTransport`**: `mem::replace` with Running, then the bottom-up loop with its early `?` return. On a failed layer the caller finishes the runner, whose inner runner was never started.
- **`StartInner`**: the loop ran to its end, and `r.start(transport)` is called. The modelled part of the task ends here.
- **`Finish`**: `r.finish()` (`H!Finish`); the field-by-field conversion to `HttpOutput` is left out.

http.rs was written against another revision of http1.rs. It calls `Http1Runner::new(ctx, plan, ..)`, `r.start(transport)` and `r.execute()`. This http1.rs has `new(ctx, transport, plan)`, a `start(size_hint)`, and an `execute()` that calls `start()` itself; the two files do not compile together. So the model follows HttpRunner up to the call `r.start(transport)`, and `HttpRunner::execute` is not modelled. A model of those calls would bind them to methods of a different signature. The inner runner is finished only on the path where it was never started.

`herr` labels the errors by their origin: `"url"` or `"transport"` (a layer's `start()`). `HttpAssumption` restates Http1Runner's `Assumption` for the shared constants, and adds that `None` is none of those labels.

## TlsRunner.tla

TLSRunner as a step, on the single runtime thread of spec 5, beside a sibling: the embedder's timer that races `next()`. Variables: `pauses` (the plan's `open` and `request_body` pause durations, or None), `pc` (the step's task), `sleeping` (what is left of a blocking sleep), `start`, `result`, `duration`, the clock `now`, and the timer's `deadline` and state.

- **`NewBadHost`**, **`NewConnect`**, **`Handshake`**: `ServerName::try_from`, `start = Instant::now()`, the awaited `connect` with its `?`, then the `open` pause.
- **`Write`**, **`Flush`**, **`Read`**: `execute()`, each await with its `?`; the `request_body` pause follows the flush.
- **`Finish`**: `start.elapsed()`. The version is always established after a handshake that returned Ok, so the error at tls.rs:116 is not an action.
- **`Fire`**, **`Tick`**: the runtime. The thread is free exactly when no blocking sleep is running. A free thread runs a due timer before the clock moves on, the way tokio's driver wakes expired timers before it parks. A sleeping thread lets the clock move while the timer waits.

`MCTlsRunner` has four instants and pauses of up to two.

## Runs

The Http1Runner runs use `MCHttp1Runner.tla`, which fixes the instance:

- a 2-byte header;
- bodies of 0 to 2 bytes;
- at most 2 transport-mode calls of up to 2 bytes;
- clock values 0 to 2.

These bounds are enough for the following:

- Every write can be split by the transport (1 + 1) or fail after a partial write.
- A transport-mode caller can interleave a write with a shutdown.
- Stamps can fall on different instants, which is what the order and duration properties need.

The run reaches 40 530 distinct states and fires every action. Deadlock is not checked: the runner really stops after `finish()` or a panic.

| Run | Expect | What it shows |
|---|---|---|
| `http1_safety` | pass | `TypeOK`. `TimestampOrder`: stamps are taken in phase order. `DurationsConsistent`: ttfb and body duration are at most the request duration, which is at most `out.duration`. `WriteCallsInSendingState`: every write, flush or shutdown site finds a Sending state. `StampsTakenOnce` (an action property): no step changes a stamp once it is taken. |
| `http1_step_panics` | violation | Every step whose request is sent and flushed panics in `read_to_end`. `poll_read` handles only the Receiving states, and nothing ever installs them (http1.rs:145). |
| `http1_invalid_observed` | violation | The configuration error of `start()` leaves Invalid, and `finish()` panics on it (http1.rs:421). |
| `http1_request_body_recorded` | violation | `RequestBodyIsWrittenBody`: `request.body` includes the header, because the header is written through the runner's own `poll_write` (http1.rs:396). The same property also catches the second recording bug, that a short or failed write records the whole offered buffer (http1.rs:166). |
| `http1_plan_body_lost` | violation | A body write error leaves `out.plan.body` empty (http1.rs:475). |
| `http1_transport_error_kind` | violation | `TransportStartErrorReported`: in a step whose transport fails to start, `execute()` replaces the kind `"transport start"` that `start()` recorded with `"send headers"` (http1.rs:461). The output then no longer says the transport failed, against spec 7. |
| `executor_safety` | pass | `TypeOK`, `StoredOutputIsLatest`: the outputs map a step reads holds the latest output of each name behind the cursor, and every named step behind it. `ImplementsSequentialPlan`: every behaviour is one of `SequentialPlan` under the mapping above (its mutant restarts the plan on an error). |
| `executor_eventually_done` | violation | `EventuallyDone` fails under the fairness above: the cursor never becomes None, so after the last named step `next()` panics (mod.rs:31); an unnamed or failing step is pulled forever. |
| `executor_step_runs_twice` | violation | `NoStepRunsTwice`: a failed, cancelled or unnamed step stays under the cursor, and its request is sent again (mod.rs:36, :40). |
| `http_composition` | pass | `HttpTypeOK`: HttpRunner's state and the inner runner's stay well typed. This includes `finish()` on the inner runner after a failed layer, and the layer counter, which never passes the layers `new()` pushed (its mutant pushes one layer too many). |
| `tls_pause_blocks_timer` | violation | `TimerNeverLate`: the `open` pause (tls.rs:83) is a `std::thread::sleep`, so the embedder's timer, due while it runs, fires late; spec 5 requires pauses to yield. |
| `http_start_failure_lost` | violation | `StartFailureReported`: a layer failing to start returns from `HttpRunner::start` before anything is recorded, so the output has no error (http.rs:189). |

`MCExecutor` has two names and plans of up to 3 steps, enough for a repeated name, an unnamed step between named ones and a failure at any position (845 states). `MCHttpRunner` covers http and https URLs, with and without host and port, any layer failing, a 2-byte header and bodies up to 2 bytes (2 610 states). Deadlock is not checked in either: a finished or panicked task really stops.

Each property of a passing run has a mutant, listed in `PROJECT.json`. A mutant is an operator that models a plausible bug, for example:

- a restamping `poll_write`;
- a late state install in `start()`;
- a request duration taken from `now`;
- an `Option`-valued duration.

TLC finds each mutant's property violated.

Fairness is assumed only in `Executor.tla` (see above); the runners' progress depends on the network and is not claimed.

## Proofs

### `Http1RunnerProofs.tla`

Theorems, each proved for every value of the constants that satisfies `Assumption`:

- `TypeCorrect`: `Spec => []TypeOK`.
- `TimestampsOrdered`: `Spec => []TimestampOrder`.
- `WritesInSendingState`: `Spec => []WriteCallsInSendingState`.
- `DurationsAreConsistent`: `Spec => []DurationsConsistent`.
- `StampsNeverRetaken`: `Spec => StampsTakenOnce`, the action property `[][StampsKept]_vars`.

`Assumption` requires the following:

- `HeaderLen` and `MaxChunk` are at least 1.
- The other bounds are naturals.
- `None` is not a number.

None of these properties is inductive on its own, so all four follow from one inductive invariant, `IInv = Core /\ Outputs /\ DurationsConsistent`. `Core` is made of these parts:

- `PcState`: the driver's position fixes the runner's state and the plan's mode. Also, a Sending state has a `start_time`, and no Receiving state is ever entered.
- `Counting`: header bytes accepted plus header bytes left equal `HeaderLen`.
- `Stamps`: which stamps exist at each driver position.
- `TimestampOrder`.

`Outputs` says the following:

- Only a transport-mode caller stamps `end_time`.
- Only a step stamps `resp_start_time`.
- Before SendingBody, and in a Complete state that was not finished from Sending, there is no request output.

These facts are what make `complete()`'s subtractions consistent. For example, the body duration ends at `resp_start_time` only when no shutdown stamped `end_time`.

The proof has three parts:

- `InitIInv`.
- `NextCore`: one case per action and per alternative of an action. TypeOK, the driver facts and the stamp order are shown separately.
- `NextOutputs`. This part uses `FinishDurations` for the arithmetic of `complete()`.

`AlwaysIInv` combines them by PTL. `IInv` was checked by TLC, as an invariant of the `http1_safety` instance, before it was proved.

`StampsNeverRetaken` rests on `NextStampsKept`: `Core /\ [Next]_vars => StampsKept`. `EnterSendingHeader` finds both start stamps None by `Stamps`; `poll_write` fills `req_body_start_time` only when it is None (`UnwrapOr`); and `ExecFlush` finds `resp_start_time` None, which is the `Stamps` clause for the positions before the flush. With `AlwaysIInv`, PTL turns the step lemma into the action property.

`PcState` says that `start()` is reached only on the Pending runner, which is why `Start` needs no other branch.

### `ExecutorProofs.tla`

- `OutputsAreLatest`: `Spec => []StoredOutputIsLatest`, for every set of names and every plan length.
- `ExecutorTypeCorrect`: `Spec => []TypeOK`.

`ExecutorAssumption` asks only that `MaxSteps` is a natural and `None` is neither a name nor a number. `StoredOutputIsLatest` is not inductive alone: `StepStored` reads the step under the cursor, so `IInv` adds `Awaiting` (while `execute()` is awaited the cursor is on a step of the plan). The case for `StepStored` shows what `Insert` returns and splits on whether a stored name is the one inserted.

- `ExecutorImplementsPlan`: `Spec => ImplementsSequentialPlan`, that is `Spec => Plan!Spec`.

The refinement proof has three parts:

- `LatestChar` (for any sequence, prefix length and map): a map that satisfies `StoredOutputIsLatest`'s two clauses for a prefix, and is a function, is `Latest` of that prefix. The domain is shown equal in both directions; each value is `LatestIndex`'s CHOOSE, because the latest index is unique.
- `RInv = IInv /\ OutputsFn /\ EnvIsLatest`:
  - `OutputsFn` (the map is a function) is its own small invariant;
  - `EnvIsLatest` follows from the other two by `LatestChar`.
  Carrying it in the invariant gives its primed form in the step proof by PTL.
- `NextRefines`: `RInv /\ RInv' /\ [Next]_vars => [Plan!Next]_Plan!vars`.
  - `NextDone` is `Exhausted` and `NextOutOfRange` is `Overrun`.
  - `NextExecute`, `StepFailed` and `StepUnnamed` are stutters.
  - `StepStored` is `Advance`; its environment is `Latest(steps, current + 1)` by `EnvIsLatest'`.

The initial state maps to `Plan!Init`, because the empty map is `Latest(steps, 0)`.

### `HttpRunnerProofs.tla`

- `HttpTypeCorrect`: `Spec => []HttpTypeOK`, for every value of the constants that satisfies `HttpAssumption`.

`HttpTypeOK` is not inductive by itself. `finish()` computes the inner runner's output from the state it finds, and the step is well typed only because that state is still Pending.

The inductive invariant is `HInv = HttpTypeOK /\ InnerPending`. `InnerPending` says the inner runner stays Pending until HttpRunner's `finish()` has run. The modelled part of HttpRunner changes the inner runner in three places:
- the clock;
- a failed layer, which sets the inner runner's position to done;
- `finish()`, which on a Pending runner can take only `complete()`'s idle arm (`H!FinishIdle`).

`LayersRange` bounds the stack counter: a layer starts only while fewer than `Layers` have, and `Layers` is at most three. TLC checked `HInv` on the `http_composition` instance before it was proved.

TLAPS's SMT backend fails on any obligation that holds a string literal with a space. For that reason HttpRunner's error labels are single words, and no proof expands Http1Runner's `ErrorKinds`.

### What stays model-checked only

- The violations above.
- `EventuallyDone`, because liveness under fairness and ENABLED are outside TLAPS's reach.
- `TlsRunner.tla`, whose only run is a violation.

## Not modelled yet, and the plan

1. **Receive path.** `receive_header` and the Receiving arms of `poll_read`, with the states entered the way spec 4.5 describes; an abstract specification of the runner's state diagram, with `Http1Runner` shown to refine it where the code agrees.
2. **Abstract specification of the send path.** The request bytes recorded equal the bytes accepted, as a refinement mapping from `Http1Runner`; it fails where `http1_request_body_recorded` does, so it is stated for the fixed behaviour only.
3. **HttpRunner after the inner start.** Model it once http.rs and http1.rs come from the same revision.
