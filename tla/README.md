# Formal models of the data-collector session

This directory holds TLA+ models of `src/newrelic/core/data_collector.py`, the
agent's communications layer with the New Relic data collector. It also holds
TLC configurations that model-check them on small instances, and TLAPS proofs of
their main invariants for every instance.

## The system

`data_collector.py` is the only implementation file under `src/`. Its parts are
these:

| Part | Lines | What it does |
|---|---|---|
| `create_session` | 302-309 | Reads `global_settings()` and instantiates `ServerlessModeSession` if serverless mode is on, else `DeveloperModeSession` if developer mode is on, else `Session`. |
| `Session.__init__` | 34-41 | Connects the primary protocol, then the OTLP protocol. Either may raise. It then sets `_rpc = None`. |
| `connect_span_stream` | 54-79 | Lazily constructs a `StreamingRpc` and stores it in `self._rpc`, when no channel is stored, a trace-observer host is configured and tracing is fully enabled. It then connects the channel and returns it. |
| `shutdown_span_stream` | 81-83 | Closes the stored channel, if there is one. |
| payload methods | 85-271 | Each method sends to one endpoint of the primary protocol, or of the OTLP protocol for ML events and dimensional metrics. `send_transaction_traces` returns early on an empty list. |
| `get_log_events_common_block`, `send_log_events` | 148-205 | Build the common attribute block of a log payload. The block holds the custom attributes, capped at `MAX_NUM_USER_ATTRIBUTES`, plus label tags minus a case-insensitive exclusion list. Any exception yields `{}`. An empty block is not attached. |
| `close_connection`, `finalize` | 51-52, 273-274 | Delegate to the primary protocol. |
| `DeveloperModeSession` | 277-282 | Calls the base `connect_span_stream` only when the debug flag is set, and discards its result. |
| `ServerlessModeSession` | 285-299 | Its `connect_span_stream` is a no-op, `get_agent_commands` returns `()`, and `shutdown_session` does nothing. |

The protocol classes and `StreamingRpc` are imported from modules that are not
in this repository. The model keeps only the connection state the session relies
on.

The host, the agent's application loop, creates the session, calls it from its
harvest thread and shuts it down. Spec section 5 assumes a single harvest caller,
but nothing in the code enforces it. For that reason the span-stream operations
are also checked with two threads.

The files under `src/tests/` test instrumentation hooks: Elasticsearch async,
Genshi and W3C trace context. They have no state machine that concerns this
layer, so they are not modelled.

## Modules

### `DataCollector.tla`: the factory, the session and its span stream

- **Constants.**
  - `Connectors` and `Stoppers` are the host threads that call `connect_span_stream` and `shutdown_span_stream`.
  - `MaxFailures` bounds the failed `create_session` calls.
  - `Methods` is the set of payload methods called.
- **Variables.**
  - `settings` and `config` are the process settings and the protocol configuration. Every combination is an initial state.
  - `session` is the class `create_session` chose, or none.
  - `failures` and `orphans` count the failed constructions, and among them the ones that left a primary protocol connected.
  - `primary` and `finalized` record the calls delegated to the primary protocol.
  - `rpc` is `self._rpc`, as an index into `chans`, with 0 standing for None.
  - `chans` is every `StreamingRpc` ever constructed, with its state: new, open or closed.
  - `pc`, `mine` and `ret` give, per thread, its place in `connect_span_stream`, its local `rpc` and what its call returned.
  - `lastSent` is the protocol and endpoint of the last request.
  - `shutdowns` is a history of what the shutdowns found.
- **Actions.**
  - `CreateSession` covers `create_session` with `__init__`. It has three outcomes: the primary connect raises, the OTLP connect raises after the primary connected, or both succeed.
  - `connect_span_stream` is split at its shared-state accesses:
    - `StartConnect` is the check of line 55 together with the configuration checks of lines 56-69, and the class's override.
    - `CreateChannel` is line 75.
    - `ConnectChannel` is lines 78-79. Connecting a channel another thread closed is left to `StreamingRpc`, whose contract is unspecified, so the channel may end up open or closed.
  - `ShutdownSpanStream` models lines 81-83.
  - `SendPayload(m)` covers every payload method, including the serverless overrides and the early return.
  - `CloseConnection` and `Finalize` model the calls delegated to the primary protocol.
- **Refinement.** `StreamState` maps `self._rpc` and the channel's state onto the abstract Absent/Active/Closed lifecycle of `SpanStream.tla`. `StreamPermitted` says whether the chosen class and the configuration allow streaming. `SpanStreamRefinement` is `SpanStream!Spec` under that mapping.

### `SpanStream.tla`: the abstract span-stream lifecycle

This module is written from spec section 4.2.

- `Connect` goes from Absent to Active, only when streaming is allowed, and creates one channel.
- `Shutdown` goes to Closed from Absent or from Active.
- Closed is terminal.

### `LogCommonBlock.tla`: one `send_log_events` call

This module follows `get_log_events_common_block` step by step.

- **Inputs.** The attribute list, the labels, the forwarding flag and the exclusion list are chosen nondeterministically from small sets.
- **Actions.**
  - `CustomAttribute` is one iteration below the cap.
  - `EndCustom` ends the loop, at the end of the list or at the cap, and merges the attributes into `common`.
  - `NoLabels` covers the early return.
  - `StartTags` begins the tag comprehension.
  - `TagLabel` handles one label.
  - `EndTags` returns `common`.
  - `Fault` models the blanket `except`, which any statement of the try may reach.
  - `SendLogEvents` sends the payload.
- **Abstractions.**
  - `process_user_attribute` is abstracted to a predicate that rejects the values in `BadValues`.
  - `str.lower` is abstracted to the constant map `Lowercase`.
  - The exclusion list is a subset of `ExcludeEntries`, taken as the configuration gives it. The code lower-cases the label type only, at line 184.
- **Reference definition.** `SpecBlock` states the result without loops, from spec section 4.4. It keeps the accepted attributes before the first point where `MAX_NUM_USER_ATTRIBUTES` distinct keys are held. A later pair with the same key wins. Tags of non-excluded labels override the attributes. Exclusion is decided by `SpecExcluded`, the spec's case-insensitive test, and not by the code's `Tagged`, so a case slip in the code shows as a difference.

### `Host.tla`: the session driven by the host

The host agent that calls the session is not in this repository. This module
models its call order from spec sections 2 and 5, by extending `DataCollector`
and using its actions unchanged.

- **Variables.** `hostPhase` is running, stopping or stopped. `done` records which of `shutdown_session` and `shutdown_span_stream` the host has called.
- **Actions.**
  - `Running`: while running, the host creates the session (retrying after failures), starts the span stream, harvests and calls `finalize`.
  - `InFlight(t)`: a `connect_span_stream` call under way continues to its end, whatever the phase.
  - `BeginStop`: the process end begins.
  - `StopSession` and `StopStream`: the host calls `shutdown_session` and `shutdown_span_stream`, in either order. In a serverless session `shutdown_session` is the no-op override.
  - `CloseAtExit`: `close_connection` comes last.
- **Assumption.** `HostAssumption`: the host's methods include `shutdown_session`.

### `MCDataCollector.tla`, `MCLogCommonBlock.tla` and `MCHost.tla`

These modules give the model values used by the configurations.

### Proof modules

- `DataCollectorProofs.tla` holds the proofs about the session.
- `HostProofs.tla` holds the proofs about the host composition.
- `LogCommonBlockProofs.tla` holds the proofs about the log common block.

## Runs

| Run | cfg | Result | What it shows |
|---|---|---|---|
| session_single | `DataCollector_single.cfg` | pass | With one host thread, the following hold. `AtMostOneChannel`: no second channel is created. `ShutdownFinal`: after a shutdown that closed a channel, none is open. `ChannelOnlyWhenEnabled`: a channel exists only if the class and the configuration allow it. `ServerlessNoRunRequests`: serverless mode never sends `get_agent_commands` or `shutdown`. The session also refines `SpanStream`. |
| session_concurrent | `DataCollector_concurrent.cfg` | pass | With two threads both connecting and shutting down, the mode properties still hold. `NoNewStreamAfterShutdown`, an action property: once a shutdown has closed the stored channel, no `connect_span_stream` call that begins afterwards goes on to construct a channel. |
| host_shutdown | `Host.cfg` | pass | `ChannelNotOutliveAuth`: with one host thread that follows the shutdown order, no channel is open after `close_connection`. A `connect_span_stream` call may still be under way when the host begins to stop. |
| common_block | `LogCommonBlock.cfg` | pass | `LogPayloadMatchesSpec`: with the exclusion entries in lower case, the payload's common block equals `SpecBlock`, or is absent when that is empty or a fault occurred. |
| mixed_case_exclude | `LogCommonBlock_mixed_case.cfg` | violation | An exclusion entry `Env` does not exclude the label of type `env`. The code lower-cases only the label type, while spec 4.4 compares case-insensitively. |
| double_channel | `DataCollector_double_channel.cfg` | violation | Two connectors construct two channels. |
| close_race | `DataCollector_close_race.cfg` | violation | A shutdown between lines 75 and 78 is followed by a connect that leaves the channel open. |
| orphan | `DataCollector_orphan.cfg` | violation | A failed OTLP connect leaks the connected primary protocol. |
| dev_return | `DataCollector_dev_return.cfg` | violation | The developer session returns None for a channel it created. |
| shutdown_first | `DataCollector_shutdown_first.cfg` | violation | A shutdown before any connect does not make the stream Closed. |

`PROJECT.json` records the findings these violations show. Four of them are
disagreements with the spec, or places where the spec is silent, and one is a
resource leak. It also lists the hazards of this code and a mutant per property:
a plausible bug that TLC catches.

### Bounds

- **Threads.** Two threads suffice for every race in `connect_span_stream`, because it has only two shared accesses, at lines 55 and 75, and one close.
- **Host.** The host run uses one thread, the harvest thread of spec section 5. With two threads the close race of `close_race` breaks `ChannelNotOutliveAuth` whatever the host's order, so that race is already covered. It uses `MaxFailures = 1` and four payload methods: one primary, one OTLP, one run request and `shutdown_session`. Those are enough for every host step and every session class, and they keep the run small.
- **Failures.** `MaxFailures = 2` lets both failure outcomes of `__init__` occur before a success.
- **Settings and configuration.** Every combination of the settings flags and the configuration flags is an initial state.
- **Log block.**
  - Attribute lists have up to 3 pairs over 3 names and 2 values, one of them rejected.
  - The cap is 2.
  - Label lists have up to 2 labels over two types that differ only in case.
  - The exclusion entries are `{"env"}` in `common_block` and `{"env", "Env"}` in `mixed_case_exclude`.
  - With these sizes the cap is reached with a pair still left, duplicate keys and rejected values both occur, and a label is either excluded together with its other-case twin or not excluded.

### Fairness

No run assumes fairness, and no liveness property is checked. Every session
operation is called by the host when the host decides to, so the code
guarantees no progress of its own. The host's shutdown sequence is
straight-line code once begun. A property that it completes would hold
under any fairness on those steps, whatever the session does, so it would
say nothing about this code. Deadlock is checked in the session runs, where a
payload method or a close is always possible once a session exists.

The host run and the common-block run set `CHECK_DEADLOCK FALSE`. In the host
run the process really stops after `close_connection`. The common-block run is
one call that returns.

## Proofs

`DataCollectorProofs.tla` proves the following for all `Connectors`, `Stoppers`,
`MaxFailures` and `Methods` that satisfy `DataCollectorAssumption`.

- **`TypeCorrect`**, `Spec => []TypeOK`. `TypeOK` is split into three parts, `TypeFlags`, `TypeSession` and `TypeStream`. Each action's step proves the primed parts separately. `TypeStream` includes the fact that a thread at `ConnectChannel` holds a valid channel index, which makes `TypeOK` inductive.
- **`ModeCorrect`**, `Spec => [](ChannelOnlyWhenEnabled /\ ServerlessNoRunRequests)`. Neither property is inductive by itself. The strengthening `ModeInv` adds three facts:
  - the session is `Factory(settings)`;
  - every thread past the checks of `connect_span_stream`, and every channel, exists only under `StreamPermitted`;
  - serverless sessions have sent no run request.

  TLC checked `ModeInv` on the two-thread instance before it was proved. It is preserved because settings and configuration are never written (lemma `PermittedStable`), and because the payload routes are distinct (lemma `RouteDistinct`).

Under the hypothesis of a single host thread (`Threads = {c}`), which is the
assumption of spec section 5, the following are proved:

- **`SingleThreadSafe`** proves `AtMostOneChannel` and `ShutdownFinal`, and **`SingleThreadOneChannel`** states the first alone.
  - Both rest on `SingleInv(c)`, checked with TLC first. It has four parts:
    - `self._rpc` is the only channel (`rpc = Len(chans)`, at most one);
    - a thread about to create a channel found `self._rpc` unset;
    - a thread about to connect holds the fresh stored channel;
    - a shutdown that closed a channel left it closed.
  - With two threads, both properties fail: see the runs `double_channel` and `close_race`.
- **`SingleThreadRefinement`** proves `Spec => SpanStreamRefinement`.
  - Initial states map to `SpanStream!Init`.
  - `CreateChannel` maps to `Connect`. It is permitted by `ModeInv`.
  - Closing an unclosed stored channel maps to `Shutdown`.
  - Every other step, `rpc.connect()` included, is a stutter.
- **`ServerlessCorrect`** states `ServerlessNoRunRequests` alone. It holds for any number of threads.

For any number of threads, **`NoNewStreamAfterShutdownCorrect`** proves the
action property `Spec => NoNewStreamAfterShutdown`.
- It rests on the invariant `ShutdownKept`: a shutdown that found a channel leaves `self._rpc` set. Only `CreateChannel` writes `rpc`, and it writes a fresh index.
- From this, a step of an idle thread cannot enter `"create"`. Its own `StartConnect` sees `rpc # 0` at line 55. Every other thread's step leaves its `pc` alone.
- The step fact is lifted to `[][...]_vars` with PTL.
- This property and `ShutdownFinal` do not contradict each other. The close race breaks `ShutdownFinal` only through a call already past line 55 when the shutdown ran.

`HostProofs.tla` proves the following:

- **`HostImplementsSession`** (a lemma): every host step is a session step or leaves the session alone, so the session theorems hold under the host.
- **`HostShutdownOrder`**: for one host thread, `HostSpec => []ChannelNotOutliveAuth`. The proof uses the invariant `HostInv`:
  - the connection is closed only after the stream was shut down;
  - the stream is shut down only from an idle thread;
  - after that, no connect runs and no channel is open.

  It uses `SingleInv` through `HostImplementsSession`.

`LogCommonBlockProofs.tla` proves the following, for every input and every cap
`MaxAttrs >= 1`:

- **`LogTypeCorrect`**: the loop indexes stay within their lists.
- **`LogPayloadCorrect`**, `ExcludeLowerCase => (Spec => []LogPayloadMatchesSpec)`. The payload carries exactly the block of spec 4.4, provided every exclusion entry is lower case. Without that hypothesis the theorem is false: see the run `mixed_case_exclude`. Lemma `TaggedAgrees` uses the hypothesis: with lower-case entries, the code's test and the spec's test skip the same labels.

`LogPayloadCorrect` rests on the loop invariant `LogInv`, which TLC checked on
the `common_block` instance (407,512 states) before it was proved. `LogInv` has
one conjunct per phase of the call:

- **In the attribute loop.** `custom` equals `PartialCustom(i)`, the dict built by the accepted pairs before `i`. The cap was not reached at any earlier position, and `common` is empty.
- **After the loop.** `common` equals `SpecCustom`.
- **In the tag comprehension.** `common` equals `Update(SpecCustom, PartialTags(j))`.
- **At the return.** `block` equals `SpecBlock`, or `{}` after a fault.

The invariant's argument uses the following lemmas:

- **One iteration.** `PartialCustomStep` and `PartialTagsStep` show that one iteration extends the partial dict the way `d[k] = v` does. This holds because the last position of a key is the new one (`LastOfAppended`).
- **Stopping at the cut.** The loop stops at the spec's cut (`CutAt`): the `CHOOSE` in `Cut` picks the first position at which the cap is reached. This uses the invariant's "not before `i`".
- **Counting keys.** The cap compares a natural number, because the accepted keys are finite (`KeysBeforeFinite`, from `FS_Surjection`).
- **Dict updates.** `UpdatePut`, `UpdateEmptyDict` and `UpdateWithEmpty` cover `d.update` after `d[k] = v`, `{}.update(e)` and `d.update({})`.
- **Fixed inputs.** `ReferenceFixed` shows that no step changes the spec's dicts, because the configuration is never written.

No induction over data is needed. The spec's dicts are non-recursive
definitions, so the loop invariant ties each step to them directly.

The following are left to TLC:

- `AtMostOneChannel` and `ShutdownFinal` are proved only for one thread. With two threads they fail (runs `double_channel` and `close_race`), and the refinement fails with them, since `SpanStream` creates one channel.

## What is not modelled

- The protocol classes, `StreamingRpc` and the HTTP clients are not in this repository. Only their connection state is kept.
- Payload encoding (`encode_metric_data`, `encode_ml_event_data`, the tuples) is left out because no property depends on the content.
- The tests under `src/tests/`.

## Plan for later work

1. Compose `LogCommonBlock` into `SendPayload` for `send_log_events`. The block does not depend on session state, so this would add the common block to `lastSent` and little else.
