# Verification of computer-use

computer-use lets an MCP client look at a desktop and act on it. Two
implementations of the same controller live in the repository: the Python port
(`src/desktop/*.py`, the default installation) and the Rust preview
(`src/desktop/rust/`). Both drive the same native helper
(`src/native/cghelper.c`), a process spawned for every read and every input.

This directory holds TLA+ modules translated from that code, TLC
configurations that check them on small instances, and TLAPS proofs of what
matters most for every instance. Every definition that models code is listed
with its source lines under `map` in `PROJECT.json`.

| module | models | kind |
|---|---|---|
| `McpServer` | the Rust stdio service: reader thread, worker thread, channel, cancellation handle | state machine, safety, liveness |
| `PyServer` | the Python stdio service: reader, executor thread, futures and callbacks, active call | state machine, safety |
| `CallLifecycle` | what either service promises a client | abstract specification |
| `McpServerProofs` | theorems about `McpServer`, and that it implements `CallLifecycle` | proofs |
| `PyServerProofs` | theorems about `PyServer`, and that it implements `CallLifecycle` | proofs |
| `HelperInput` | one native input: supervisor (both ports) and helper process | state machine, safety, liveness |
| `HelperInputProofs` | theorems about `HelperInput` | proofs |
| `FrameGuard` | observations, the frame store and coordinate authority (both ports) | state machine, safety |
| `FrameGuardProofs` | theorems about `FrameGuard` | proofs |
| `Keyboard` | one keyboard command from preflight to envelope (both ports) | state machine, safety |
| `KeyboardProofs` | theorems about `Keyboard` | proofs |
| `BatchRun` | a batch call with nested batches and deadlines (both ports) | state machine, safety, liveness |
| `BatchRunProofs` | theorems about `BatchRun` | proofs |
| `NativeRead` | one child process that only reads, and the three ways it is run | state machine, safety |
| `NativeReadProofs` | theorems about `NativeRead` | proofs |
| `Policy` | validation and confirmation of a request before it runs (both ports) | operators and their reference definitions |
| `CommandLine` | the Rust command line, from words to a request | operators |
| `CaptureLimits` | layout, region and byte budget of an observation, with machine integers | operators and their reference definitions |
| `DesktopCommand` | one command from its words to its answer; composes the four above | state machine, safety, liveness |
| `DesktopCommandProofs` | theorems about `DesktopCommand` and the operators it is built from | proofs |
| `MCMcpServer`, `MCPyServer`, `MCFrameGuard`, `MCBatchRun`, `MCDesktopCommand` | instances for TLC | constants |

## 1. The system

### 1.1 Components

Paths below omit `src/desktop/` where it is clear; `rust/` is
`src/desktop/rust/src/`.

| component | state | operations | correct when | status |
|---|---|---|---|---|
| Rust stdio service, `rust/mcp.rs` | two threads, a one-call channel, the two ends of stdio | read a line, answer it, pass a call on, serve it, end | every accepted call is answered once, in order; the session ends when its input does | `McpServer` |
| Cancellation handle, `rust/controller.rs` | the active call's id, generation and token; the next generation | begin, cancel, cancel_request, finish | a stop reaches the running call and no other | `McpServer` |
| Call entry and dispatch, `rust/controller.rs` | (none between calls but the frame store) | 20 commands behind one validation and preflight | checks precede effects, in one order | partly: `McpServer`, `FrameGuard`, `Keyboard`, `BatchRun`, `DesktopCommand` |
| Frame store, `rust/frames.rs` | one frame, one picture file, the frame sequence | insert, insert_path, clear, authorizes, Drop | coordinates act only on what was observed; at most one picture, gone at shutdown; the byte budget does not wrap | `FrameGuard`, `CaptureLimits`, `DesktopCommand` |
| Input supervision, `rust/provider.rs`, `platforms/macos.py` | a child process, two clocks, a stop flag | spawn, feed, poll, signal, kill, collect, release | the receipt never overstates; nothing is posted after it; nothing stays held | `HelperInput` |
| Native helper, `src/native/cghelper.c` | a signal flag, a held button or key, a count | move, drag, click, scroll, type, key, release | stops promptly, lifts what it pressed, counts what it posted | `HelperInput`; its reads in `NativeRead` |
| Batch execution, `rust/controller.rs`, `controller.py` | nested deadlines, receipts, position | run actions, preflight each, final observation | deadlines nest, receipts match effects | `BatchRun` |
| Keyboard input, `rust/controller.rs`, `controller.py` | (the desktop is read up to three times) | type, click_type, press, hotkey | never types into a secure field; receipts of the click survive | `Keyboard`, without effect verification |
| Validation and confirmation, `rust/validation.rs`, `safety.py` | none | key policy, risk, batch preflight, inheritance | nothing risky without confirmation, however deep; what is checked is what is run | `Policy`, `DesktopCommand` |
| Safety classification, `rust/safety.rs`, `safety.py` | none | classify a UI state | secure UI stops | `Keyboard` |
| Backend reads and focus, `rust/provider.rs`, `platforms/macos.py` | a child process, two pipes, a timeout | run a child, look at the front application, activate, poll | end within their timeout; focus is claimed only when seen | partly: `NativeRead`, `DesktopCommand` (not the parsing of JSON and pictures) |
| Rust command line, `rust/cli.rs`, `rust/bin/desktop.rs` | none | parse words, default to a dry run, refuse what one process cannot do | acts only when told to before `--` | `CommandLine`, `DesktopCommand` (not the exit codes) |
| Python service, `mcp_server.py` | an executor thread, its queue, futures and callbacks | read, submit, cancel, drain | as the Rust service | `PyServer` |
| Python controller, `controller.py` | command lock, active call, frame store | as the Rust controller | as the Rust controller | partly: `PyServer`, `FrameGuard`, `Keyboard`, `BatchRun`, `HelperInput`, `DesktopCommand` |
| Python frame store, `frames.py` | as the Rust one | as the Rust one | as the Rust one | `FrameGuard`, `CaptureLimits` |
| Motion, typing gaps | none | floating-point curves and gaps | shape only | not modelled: no state, reals |
| Envelopes, Python command line | none | build JSON, parse arguments with argparse | wording and layout | not modelled: no state |
| Linux and Windows adapters | none | refuse everything | - | not modelled: one answer |
| Fixture, install, benchmark, skills | - | - | - | not modelled: outside the program |

### 1.2 How they interact

The **client** writes lines to the service's stdin. The **reader** thread
answers protocol lines, applies `notifications/cancelled` and `stop` to the
**cancellation handle** directly, and passes any other `tools/call` to the
**worker** thread through a channel of capacity one with `try_send`, so that it
never blocks and can always hear a cancellation. The worker calls the
**controller**, which validates, consults the **frame store** and the desktop
(frame preflight, dynamic preflight), registers the call with the handle, and
dispatches the command. An **input** spawns the **helper** with a probe that
combines the call's token and the deadline in force, and polls it. A **batch**
runs a sequence of commands in the same call, each behind its own preflight,
with deadlines that nest. A **keyboard command** looks at the application in
front and the focused element before it starts and again before its keys. An
**observation** replaces the one stored frame,
whose id later coordinates must name. A **read** is a child too: the helper, or
a script of the system, whose two pipes must be emptied while it runs. Bringing
an application to the front is a sequence of such reads. The **command line**
makes one request of a controller of its own and ends.

The **Python service** has the same three parties in another arrangement: its
reader submits every line but cancellations and stops to an executor with one
thread and an unbounded queue, and attaches to each line's future a callback
that writes the response.

### 1.3 What is hard here

- two threads write responses and share the handle, so a cancellation races
  begin and finish, ids are reused, and the channel may be full or closed;
- the helper is a second process: signals race its handler installation, its
  loop and its exit; it can hang, die, or lose its output after acting;
- the desktop belongs to the user, who changes it between any two reads, and a
  click of the controller's own may move the focus anywhere;
- in the Python service a future may resolve before its callback is attached, so
  either thread may write the response;
- deadlines, stops, exceptions, refusals and final observations end a batch in
  many ways and all must leave one deadline, one frame and the receipts right.

- a child whose output fills a pipe waits for its reader, and its runner waits
  for the child;
- an application takes its time to come to the front, and the look that says so
  may be older than the activation;
- an action inherits risk, confirmation and application from batches around it,
  and four pieces of code pass them down, each in its own way;
- region and budget are sums and products of numbers a client chooses.

`PROJECT.json` lists the hazards with their lines and the properties that
cover each.

## 2. The models

### 2.1 McpServer and CallLifecycle

A **line** is known by its position in `log`; the server compares only ids, so
two lines may carry the same one. `Lines` keeps the kinds of line the code
tells apart: a call with or without an id, a cancellation with or without a
generation, a stop with an id to answer or without, and everything else.

| code | action |
|---|---|
| `run_stdio`'s loop, by kind of line | `ReadCancel`, `ReadStop`, `ReadCall`, `ReadPlain` |
| end of input, I/O error on stdin | `ReadEof`, `ReadError` |
| `write_line(..)?` in the reader | `ReaderWrite` |
| drop of the sender, `join`; the early returns through `?` | `Join`; `Exit` |
| `receiver.recv()` | `Receive`, `WorkerEnds` |
| `handle_line` on a call without an id | `Ignore` |
| validation and preflight errors | `Refuse` |
| `begin`, dispatch | `Begin` |
| the token looked at; one native input, sleep or batch action | `Probe`, `Step` |
| reads, `focus_app`, `launch`, `doctor`: no look at the token | `WorkBlind` |
| `finish`, the response | `Finish`, `WorkerWrite` |

One action is one critical section: the handle's mutex makes `cancel`,
`cancel_request`, `begin` and `finish` atomic, and everything between them
interleaves. Applying a stop and computing its answer are one step because
`cancel()` returns whether there was an active call.

The work of a command is a bounded number of **primitives**, each behind a look
at the token: one native input from the helper's start to its end, one sleep of
`wait`, or one action of a batch that does not look at the token itself. A
primitive is not an event of the helper. While an input runs, `provider.rs`
looks at the token every 10 ms and then has `/bin/kill` signal the helper, whose
loops test only their own flag: any number of events may be posted between the
line and the signal, and how the helper stops after it is `HelperInput`'s
`StopsPrompt`. Here such an input is one `Step`, which may end early
(*cancelled*). A command that never looks at its token goes to `WorkBlind`
(`Begin` chooses) and is not counted; neither is the final observation that a
batch takes even when it is stopped. Ghost variables (`wfrom`, `wto`, `wlate`)
remember what part of the input was read while a call ran.

`CallLifecycle` gives every line a stage and a client's view of it: calls run
one at a time and in order, a call ends cancelled only out of the stage
*stopping*, and a line is answered once, after its call is settled.
`McpServer!Stage` is the refinement mapping, and `ImplementsLifecycle` the
abstract specification under it.

### 2.2 HelperInput

Both supervisors in one module, because the helper is the same program:
`port` is chosen in `Init` and guards what only one of them does. The Rust one
writes all of stdin before it first polls (`Feed`); the Python one writes
inside `communicate` (`CommunicateWrites`). `Poll` keeps the order of the
loop's checks: the 120 seconds, the second of grace, the first sight of a
cancellation. `Collect` maps exit status and output to a receipt in the order
of the code. `Answer` is the caller's handler, which decides whether
`release_all` is called.

The helper's actions are the points at which a signal makes a difference:
before the handler is installed (fatal), the trust check, the reading of stdin,
the button down of a drag, the test of the flag, the event (for clicks,
characters and keys a down and an up), the button up, the buffered count and
the exit. A failure to create an event may happen at each posting point.

Assumption: only the supervisor signals the helper. A `SIGTERM` from elsewhere
would give exit status 130 with no cancellation; the models do not contain it.

### 2.3 FrameGuard

`port` is chosen in `Init`; the ports agree but for three things, which
`Forgotten`, `ObserveAgain` and `Abort` keep apart: what `clear` does with a
directory that is not empty, whether bytes that are no picture clear the store,
and what the end of a broken reader leaves behind. The controller reads the desktop in several steps. `Change` lets the user do
something between any two of them. `ObserveLayout`, `ObserveWindow`,
`Capture`, `ObserveAgain` and `Insert`/`InsertPath` are `observe` in the order
of the code, with the second look at the frontmost application that clears the
store when it differs; `ActLayout`, `ActWindow` and `Post` are
`frame_preflight` and `pointer`. `call.targets` holds one or two points, since
a drag names two. `Clear`, `FileDropped` and `Replace` are the store's
`clear`, `drop_path` and `replace_frame`. `InsertPath` keeps the case in which
`replace_path` has renamed the picture into place and then refuses it.

A coordinate is one of a few points and geometry is two sets per arrangement:
the points in the bounding box and those on some display. A picture is known by
what was on the desktop when it was taken (`View`), which includes the number
of changes so far: that number is the clock by which the properties say
"nothing changed since".

`Shutdown` is the end of input (the store is dropped or closed); `Abort` is the
reader's I/O error, where the Rust process ends without that and the Python one
skips `close()`; whether its interpreter still finalizes the store is open.

### 2.4 BatchRun

A request is a sequence of nodes in preorder with the last node of each batch,
so nesting needs no recursion: `stack` holds the running batches and `Settled`
ends the current action of the innermost one. The tests before an action differ
between the ports and are kept apart in `LoopCode` (order and strictness) and
`Interruption` (which of two causes is reported). `Preflight` is the second
frame and dynamic preflight of each action; `Escape` is the exception that, in
the Python port, leaves `_batch` from there. `FinalObserve` runs whatever the
outcome of the actions, after the parent's deadline has been restored.

What an action does inside is one step, possibly interrupted if it is an input
or a wait; `HelperInput` and `FrameGuard` look inside. `focus_app`, `launch`
and `doctor` are reads here: they poll no probe. A dry run changes nothing and
is left out.

### 2.5 PyServer

The shape of `McpServer`, from `mcp_server.py` and `Controller.command`. The
differences are the point: every call is queued, none is busy; the call is
registered (`Register`) before it is validated, so `Refuse` may follow a
registration; and one line has two sides, its place in the executor's queue and
its future.

| code | action |
|---|---|
| `run`'s loop: cancellation, stop, anything else | `ReadCancel`, `ReadStop`, `Submit` |
| `_is_stop_request` on a `desktop` call whose arguments are no object | `ReadOdd` |
| `add_done_callback(emit)` | `Attach`: writes at once if the future has resolved |
| the reader's own write | `ReaderWrite` |
| end of input or an exception, the `with` block's exit, `close()` | `ReadEnds`, `Join` |
| `handle_line` on the executor's thread | `Take`, `HandleLine`, `Register`, `Refuse`, `Pass` |
| `_check_abort` and the probes, one primitive (as in 2.1) | `Probe`, `Step` |
| `command`'s `finally` | `Finish` |
| `set_result` and the callbacks it finds | `Resolve`, `WorkerEmit` |

`_is_stop_request` asks the arguments for their `command` outside its `try`. For
a list, a string or null that raises out of the loop: the line is neither
submitted nor answered, the `with` block still waits for what was queued, and
`close()` is skipped (`ReadOdd`).

The executor's queue and the future come from the standard library and are
modelled from how `run` uses them: first in, first out, one thread, callbacks
called by the thread that resolves the future or, later, by the one that
attaches them, their exceptions swallowed. `output_lock` makes a write one
step. `PyServer!Stage` maps a line to `CallLifecycle`'s stages by its future.

### 2.6 Keyboard

`guard` says which look at the desktop is next: `preflight` (before the
dispatch), `first` (the Python port looks again at the start of its handlers)
and `last` (after the pointer's travel and the click, before the keys). A look
has two reads, `LookAtApp` and `LookAtElement`, and the user may change
something between any two steps. `Refused` is `input_state_issue`. `Travel`,
`Click`, `ClickFails` and `KeysEnd` end an input in the ways `HelperInput`
allows. `InTry` is the part of `_type` and `_keys_impl` that looks inside the
`try` meant for the typing; `Raised` and `Returned` keep apart an exception,
which in the Python port leaves `_click_type` without the click's receipt, and
an error envelope, which is put into a partial one. An envelope is its code and
what it says of the click, of the keys and of their number.

### 2.7 NativeRead

One child and its runner. `runner` says which: Rust's `output_with_timeout`
with a thread per pipe (`threads`), Python's `_run`, which communicates in
slices of 10 ms (`helper`), and `subprocess.run` with a timeout (`tool`). They
share the child's actions and differ where the code does.

| code | action |
|---|---|
| `spawn`, `Popen` | `Spawn`, `SpawnFails` |
| a thread's `read_to_end`; `communicate`'s selector | `Drain`, `SeeEof`, `ReaderFails` |
| `try_wait` with a status, with an error | `Reap`, `PollFails` |
| `communicate` returns | `Communicated` |
| the timeout, `kill`, `wait` | `Overdue`, `Kill`, `Wait` |
| `join` of both threads | `Join` |

The child looks at the desktop once (`Produce`), which also decides how much it
writes into each pipe; `Write` waits while the pipe is full and its reading end
open, `Fail` is every other end. `Hang` lets it stop for good
anywhere; `TimeIsUp` may come only for a child that hangs or when nobody can go
on, which is what separates a child that was too slow from one that its own
runner blocked.

### 2.8 Policy

A request is the tree of its actions in document order, as in `BatchRun`, and a
node has a value for each field the policy asks about: absent, null, of another
type, or what it is. `Preflight` is `preflight` and `preflight_batch`: each node
is judged (`OwnIssue`, the tests in the order of the code) with the values it
inherits (`Effective`), and the first refusal counts. `KeyParts` and `KeyIssue`
are the chord's normal form and its policy, `PostedChord` what the helper is
given. `CheckedApp` and `DispatchedApp` are the two places after the policy at
which an action's application is found again: two pieces of code with one rule,
each compared with the reference. Arguments that concern one
parameter alone (its name, type or range) are one flag, `args`.

`FirstIssue`, `Preflight`, `KeyParts` and the sums of `ActionCount` are written
with least elements, subsequences and functions over the nodes, so that they can
be reasoned about without recursion over data. `IsTree` is what the request's
JSON guarantees of the document order, and `IsSequence` what it guarantees of
the sequences in it.

The second half of the module is what a request *has to* be, read off the tree:
the nearest word around a node, the chord as a set and a key, the faults of a
node. `VerdictRight`, `OneTarget` and `OneChord` compare the two.

### 2.9 CommandLine

`Parse` takes the words as `normalize_flags`, `parse` and
`apply_defaults_and_positionals` do: the two global flags before the separator,
options with the next word as their value whatever it is, defaults before the
required parameters are looked for, conversion. Words are members of a small
set; what the code makes of a word's characters is a table. The loop over the
words has no state but whether the last one waits for a value, so that state is
a function of the row of options before a word (`IsValue`). `OneShot` is `main`:
what is answered without a controller.

### 2.10 CaptureLimits

`ValidLayout`, `RoughlyInside` and `ContainsRegion` are the tests of the layout
and the region, `RustTotal` the chain of checked operations of
`preflight_capture`, `PythonTotal` the unbounded sum of `capture_budget`, which is exact by
itself: for Python only the layout and the region are put to the test. The
widths (`MaxInt`, `MaxSize`) are parameters; `Overflow` is the end of a checked
chain, and `Saturating` what `observe` uses before the layout is validated.
`ExactRust` and `OnScreen` say without machine arithmetic what the answer
should be. Python's three shifts of the PNG overhead are one divisor.

### 2.11 DesktopCommand

One command: `ParseWords` (when it comes from the command line), `ApplyPolicy`,
and then `AnswerAtOnce`, `Observe` or `Dispatch`. Inputs, waits, batches and
`doctor` are *handed* to the modules that say what becomes of them. The others
are made of `NativeRead`s, one after another (`StartRead`):

| code | action |
|---|---|
| `active_window`: the script, then the helper | `ScriptSaysNothing`, `ActiveWindow` |
| `focus_app`: the first look, activation | `FocusShown`, `Activate` |
| `activate`, `_open_app`: script, `open`, script | `ActivationEnds` |
| the loop of five seconds | `LookAgain`, `NotYet`, `GiveUp` |
| `list_apps` | `ListEnds` |

`See` is the moment at which a child looks at the desktop: the application in
front is the wanted one or another, without a reason, since the user or a slow
application may change it at any moment. `sample` remembers what was seen, and
whether the activation had been sent by then. `FiveSeconds` is the loop's clock,
which the code reads only between two looks.

## 3. What the runs check

Counts are distinct states. Every passing run exhausts its state space.

| run | bounds | states | checks |
|---|---|---|---|
| `mcp_server` | 3 lines, 2 ids, generation 1, channel 1, 2 primitives | 703,902 | five invariants, `ImplementsLifecycle`, `EveryCallAnswered`, `ShutsDown` |
| `helper_input` | 3 primitives, both ports, 6 subcommands | 47,313 | four invariants and `InputReturns` |
| `frame_guard` | both ports, 2 observations, 2 changes, 2 applications, 2 arrangements, 2 points | 1,017,394 | five invariants |
| `batch_run` | 3 shapes of request up to 3 deep, deadlines 0-2, clock 0-3, both ports | 572,144 | five invariants and `BatchEnds` |
| `py_server` | 3 lines, 1 id and null, generation 1, 2 primitives | 922,576 | five invariants and `ImplementsLifecycle` |
| `keyboard` | both ports, 2 keys, 2 changes, 9 states of an element | 1,258,308 | three invariants |
| `desktop_command` | 21,000 requests, integers to 15, sizes to 63, limit 60, 3 actions a batch, pipe of 1 chunk, 2 chunks | 469,071 | six invariants and `CommandEnds` |
| `helper_held`, `frame_shutdown`, `batch_receipts`, `batch_image`, `keyboard_mismatch` | smaller | - | one disagreement each, section 4 |

**mcp_server.** `HandleExact`: the handle holds a token exactly while a command
runs, and it is that command's (`HandleOwned`); the token is set if and only if
the reader took a line aimed at the call since its begin, so that nothing is
lost and nothing else is heard (`TokenExact`). `CancelScoped`: a call answered
*cancelled* was really aimed at while it ran, even if its id was used before.
`CancelPrompt`: at most the one native input, sleep or batch action that the
command had been cleared for still runs, perhaps in part; it says nothing about
the helper's events inside an input. `AnsweredInOrder`: two writers, no
duplicate (`OneReplyPerLine`), calls in order (`InOrder`). `EveryCallAnswered`:
under fairness a call in the channel is answered; excused are a client that
stops reading and an I/O error of the reader, but not the end of the input, at
which the worker has to drain the channel. `ShutsDown`: an ended or failed
session ends the process. Three lines are a running
call, a waiting call and a line that aims at either; or two calls of one id with
a stale cancellation; or the call that finds the channel full. Generation 1 goes
stale as soon as a second call begins. Two primitives tell a probe before each
from one before the first. No symmetry is used.

**helper_input.** `ReceiptTells`: no receipt claims more than was posted, an *ok*
claims all of it (`ReceiptHonest`), and the count of a cancelled receipt is
exact when the helper ended by itself (`PartialExact`). `StopsPrompt`: at most
one primitive begins after the flag is set (here a primitive is the helper's: one
event, or the down and up of a click, character or key). `ReturnsClean`: no helper lives when
the supervisor has concluded (`NoInputAfterReceipt`), and something may still be
held on return in exactly the cases named (`HeldIsAccountedFor`).
`InputReturns`: the supervisor comes back. Three
primitives are a first, a middle and a last one.

**frame_guard.** `PictureShowsWindow`: the application a frame names is in its
picture unless the user switched away *and back* during the capture: the second
look catches every single switch. `UndisturbedInputLands`: if nothing changed
since the picture was taken, input lands in the named frame's region, on a
display, in the named application. `StaleOnlyByRace`: otherwise the change fell
into that very call. `FileTracksFrame`: the picture on disk is the stored frame's
(`FileIsCurrent`) and gone after the shutdown (`ShutdownRemoves`). Two changes are the least in which a user leaves
and returns; two observations the least in which an id is stale. The two points
differ in that one lies in both bounding boxes but on a display of only one
arrangement.

**batch_run.** `DeadlineIsEarliest`: the deadline in force is the earliest of
the batches running their actions, however inner ones ended. `AtMostOneLate`:
after a stop or its deadline, no batch dispatches more than the action already
cleared, nested ones included. `DispatchedFresh`: an input acts on the frame
stored at that moment. `AnswerTrue`: the receipts are those of the actions
dispatched, in order and with their outcome, unless an exception escaped
(`ReceiptsTell`), and complete, cancelled and deadline_exceeded mean what they
say (`OutcomeTrue`). The three shapes are a flat batch; one with a batch between two inputs and an
observation in it; and batches three deep. A deadline of 2 under a clock of 3
lets each of them be the earlier one and lets time pass both.

**py_server.** `CancelScoped` and `CancelPrompt` as for the Rust service, with
the cancellation that names the id null and hits any call, and with the
preflight inside the window. `AnsweredInOrder`: what the executor serves is
answered once and in order, although the reader writes some of it.
`NothingOwedAtExit`: the process never ends owing a request its response unless
the client stopped reading, so no response falls between a future and its
callback and everything queued is served, also when the reader's loop breaks.
The line that broke it is the one exception, and it is named
(`BrokeTheLoop`; section 4). One id is enough because the null id
is a second one. Deadlock is checked: the service always has a step until it
has exited.

**keyboard.** `KeysLandChecked`: a key lands in the named application and in an
element known to be harmless, unless the user changed something after the last
look began; what the command's own click did is no excuse.
`EnvelopeTells`: an envelope claims no click and no key that was not posted, and
a refusal means that none was (`AnswerHonest`); it never leaves out keys that
were posted, and leaves out the click only when the rest was cancelled or
unsupported, or when a Python exception left `_click_type` (`AnswerComplete`).
Two keys have a first and a last one; one
change of the user may fall before and one after the last look.

**desktop_command.** `ReadTells`: an output is accepted only from a child that
ended by itself with success and was read to its end; a child is called too slow
only if it hung, never because its runner left a pipe full; and no child or
reader is left behind. `PlanRight`: a request is admitted when no action of it
has a fault, at any depth, the code answered is a fault of the first faulty
action, and an admitted action runs with the application and the chord it was
admitted with. `FocusSeen`: success is claimed only for a look that saw the
application in front, after the activation if there was one; an application
already in front is not activated again; giving up takes the five seconds.
`CaptureExact`: an observation is taken when, and only when, the region is on
the screen that the displays make up and its exact worst case fits.
`OneShotSafe`: the command line acts only when told to before the separator,
never posts at coordinates, leaves no picture, and confirms nothing with a word
behind the separator. `CommandEnds`: every command is answered, whatever its
children do.

The requests are sets by kind (`MCRequests`): single actions with every value of
risk, confirmation and application; chords of up to two words and orderings of
the blocked ones; batches three deep with each way of passing a value on, and
one action too many; fourteen screens by regions at both ends of the integers;
command lines with one or two words inserted at each place, which puts every
option in the place of a value; and the commands that run children. With 15 as
the largest integer, 63 as the largest size and 60 as the limit every sum and
product of the code overflows for some request and fits for another. A pipe of
one chunk under two chunks of output fills.

Bounds in the guards: `MaxLines`, `MaxSteps`, `Capacity` (`McpServer`),
`MaxTotal` (`HelperInput`), `MaxFrames`, `MaxChanges` (`FrameGuard`),
`MaxKeys`, `MaxChanges` (`Keyboard`), `MaxLines`, `MaxSteps` (`PyServer`), `MaxTime` and
the finite set `Plans` (`BatchRun`), `MaxOut`, `PipeSize` (`NativeRead`). `MaxActions`,
`MaxInt`, `MaxSize` and `Limit` are the code's own limits, made small.

No run turns off the check for deadlock: a session, call or operation that is
over has an explicit stuttering action.

### Fairness

- `McpServer!FairSpec`: the operating system keeps running both threads (weak
  fairness of the worker, of the reader's write, of join and of exit). A command
  returns, as `InputReturns`, `BatchEnds` and `CommandEnds` say, and a write to
  stdout returns or fails: a client that neither reads nor closes a full pipe is
  assumed away. The client is never obliged to send, to end its input or to
  close its output.
- `HelperInput!FairSpec`: the supervisor's thread runs and its two clocks
  advance. The helper may hang anywhere. `InputReturns` leaves out the one
  place where the code has no bound: the Rust port inside `write_all` with a
  text larger than the pipe, where it looks at neither the probe nor the clock.
- `BatchRun!FairSpec`: the controller's thread runs and every action it starts
  ends, because reads have timeouts, waits are at most a minute and
  `InputReturns` bounds an input. The clock and the client are not fair.
- `DesktopCommand!FairSpec`: the controller's thread and the readers run, the
  clocks go on, and a child that does not hang goes on. A child may hang at any
  moment. `Prepares` is an action that is enabled exactly when `Prepare` is and
  cheaper to evaluate.
- `PyServer` and `Keyboard` have safety properties only; what a session of the
  Python service must bring about is `NothingOwedAtExit` with the absence of
  deadlock.

## 4. Where code and text disagree

| run | what it shows |
|---|---|
| `helper_held` | In the Rust port, a drag, click or key that is cancelled and has to be killed after its second of grace (or cannot create the up event) returns with the button or key down and nothing lifts it: `release_all` is called on a failure, not on a cancellation. README.md: "Held keys and buttons are released on failures." The Python port releases in both cases. |
| `frame_shutdown` | When the reader thread fails on an I/O error, `run_stdio` returns without joining the worker, so the store is never dropped and `current.png` stays. README.md: path mode "removes it at shutdown". |
| `batch_receipts` | In the Python port an exception in the preflight of an action (reading the layout or the active window) leaves `_batch`, and the receipts of the actions before it are lost. The docstring of `_dispatch_caught` says an exception cannot "escape and discard receipts already earned by earlier actions". |
| `keyboard_mismatch` | In the Python port, when the user switches applications during the pointer's travel of a `type`, the look after it raises inside the `try` of the typing: the answer is `exec_failed` with unknown completion, though nothing was typed. `skills/type.md`: "A focus mismatch sends zero input events and returns `focus_failed`." |
| `batch_image` | In both ports a nested batch's final image is copied with its data into a receipt of the batch around it. `docs/protocol/observation-batching.md`: "no more than one image per batch request", "Keep image bytes out of receipts and logs." |

The passing invariants beside them state what does hold: `HeldIsAccountedFor`,
`ShutdownRemoves`, `ReceiptsTell` and `AnswerHonest` name exactly these
exceptions.

Differences met while modelling that have no run of their own, kept here for the
code's owners:

- Python service: a `desktop` call whose `arguments` are a list, a string or null
  ends the process without a response (`mcp_server.py:285-290`), although the
  service means to answer "arguments must be an object"
  (`mcp_server.py:203-204`) and to read "until EOF" (`mcp_server.py:293`).
  `NothingOwedAtExit` names this exception; without the disjunct
  `BrokeTheLoop(n)` one line of input violates it.

- Rust command line: `--confirm=false` confirms, as the inline value of a switch
  is ignored; an option takes any next word, `--` included; `click_type` without
  `--app` passes the command line's own check and is refused by the policy;
  `stop` accepts further arguments.
- The ports differ on a batch's `confirm: null` (Rust passes it down, Python
  does not), on `deadline_ms: null` (an error in Rust), and on whether a badly
  typed `confirm` or a missing confirmation is reported first.
- A chord with `win` passes the policy and fails as an unsupported input.
- After a failed look, the Rust focus error still names the application of the
  look before.
- In Rust a cancellation in the typing of `click_type`, in Python a
  `FocusError`, loses the receipt of the click; `AnswerComplete` names both.

## 5. What is proved

TLAPS checks, for every value of the constants allowed by the named
assumptions (`ServerAssumption`, `HelperAssumption`,
`FrameAssumption`, `KeyboardAssumption`, `ReadAssumption`, `PolicyAssumption`,
`CaptureAssumption`, `CommandAssumption`, `BatchSpecAssumption`,
`PyServerAssumption`, `BatchAssumption`), each of these. Every safety invariant
that a passing run checks, and the refinement of `CallLifecycle` by both
services, is among them.

| theorem | property |
|---|---|
| `McpServerProofs!TypeCorrect` | `TypeOK` |
| `McpServerProofs!SlotMatchesWorker` | `HandleOwned` |
| `McpServerProofs!NoCancellationLost` | `TokenExact` |
| `McpServerProofs!CancellationScoped` | `CancelScoped` |
| `McpServerProofs!CancellationPrompt` | `CancelPrompt` |
| `McpServerProofs!SingleResponse` | `OneReplyPerLine` |
| `McpServerProofs!ResponsesInOrder` | `InOrder` |
| `McpServerProofs!HandleIsExact` | `HandleExact` (the conjunction) |
| `McpServerProofs!AnswersInOrder` | `AnsweredInOrder` (the conjunction) |
| `McpServerProofs!Implementation` | `ImplementsLifecycle` |
| `PyServerProofs!TypeCorrect` | `TypeOK` |
| `PyServerProofs!CancellationScoped` | `CancelScoped` |
| `PyServerProofs!CancellationPrompt` | `CancelPrompt` |
| `PyServerProofs!AnswersInOrder` | `AnsweredInOrder` |
| `PyServerProofs!NothingOwed` | `NothingOwedAtExit` |
| `PyServerProofs!Implementation` | `ImplementsLifecycle` |
| `BatchRunProofs!TypeCorrect` | `TypeOK` |
| `BatchRunProofs!EarliestDeadlineInForce` | `DeadlineIsEarliest` |
| `BatchRunProofs!OneLateAtMost` | `AtMostOneLate` |
| `BatchRunProofs!FreshAtDispatch` | `DispatchedFresh` |
| `BatchRunProofs!TrueOutcome` | `OutcomeTrue` |
| `BatchRunProofs!TrueAnswer` | `AnswerTrue` (the conjunction) |
| `HelperInputProofs!HelperTypeCorrect` | `TypeOK` |
| `HelperInputProofs!ReceiptsHonest` | `ReceiptHonest` |
| `HelperInputProofs!PartialsExact` | `PartialExact` |
| `HelperInputProofs!HelperStopsPromptly` | `StopsPrompt` |
| `HelperInputProofs!NothingAfterReceipt` | `NoInputAfterReceipt` |
| `HelperInputProofs!HeldAccounted` | `HeldIsAccountedFor` |
| `HelperInputProofs!ReceiptsTrue` | `ReceiptTells` (the conjunction) |
| `HelperInputProofs!LeavesNothing` | `ReturnsClean` (the conjunction) |
| `FrameGuardProofs!TypeCorrect` | `TypeOK` |
| `FrameGuardProofs!FileBelongsToFrame` | `FileIsCurrent` |
| `FrameGuardProofs!RemovedAtEndOfInput` | `ShutdownRemoves` |
| `FrameGuardProofs!FileFollowsFrame` | `FileTracksFrame` (the conjunction) |
| `FrameGuardProofs!SecondLookCatches` | `PictureShowsWindow` |
| `FrameGuardProofs!InputLandsWhereSeen` | `UndisturbedInputLands` |
| `FrameGuardProofs!StaleInputIsARace` | `StaleOnlyByRace` |
| `KeyboardProofs!TypeCorrect` | `TypeOK` |
| `KeyboardProofs!KeysGoWhereChecked` | `KeysLandChecked` |
| `KeyboardProofs!EnvelopeHonest` | `AnswerHonest` |
| `KeyboardProofs!EnvelopeComplete` | `AnswerComplete` |
| `KeyboardProofs!EnvelopeTrue` | `EnvelopeTells` (the conjunction) |
| `NativeReadProofs!ReadIsTrue` | `ReadTypeOK` and `ReadTells`, of one read |
| `DesktopCommandProofs!ReadsOfCommandsTrue` | `ReadTells`, of every read of a command |
| `DesktopCommandProofs!FocusIsSeen` | `FocusSeen` |
| `DesktopCommandProofs!BudgetExact` | the checked chain accepts a size if and only if the exact total is within the limit |
| `DesktopCommandProofs!CaptureIsExact` | `CaptureExact` |
| `DesktopCommandProofs!TypeCorrect` | `TypeOK` |
| `DesktopCommandProofs!OneShotIsSafe` | `OneShotSafe` |
| `DesktopCommandProofs!PlanIsRight` | `PlanRight` |

**The Rust service.** Four inductive invariants, each built on the ones before.

- `TypeInv` is `TypeOK` and `OutcomeKnown`: a response takes its kind from the
  worker's outcome, so `TypeOK` alone is not inductive. It says that the channel
  and the worker hold positions of calls, which is what lets every later
  argument index the input.
- `CancelInv` is `HandleOwned`, `TokenExact`, `LateBound`, `OutcomeJustified`
  and `RepliesJustified`. A line read extends the window of the running call by
  one position and sets its token exactly when it aims at that call; this takes
  `HandleOwned` to identify the slot's id and generation with the worker's.
  `LateBound` adds the control point to `CancelPrompt`: at a probe a late
  primitive has been executed only if the token is set, and before the next
  command the count starts again. When the outcome is
  decided `TokenExact` becomes `OutcomeJustified`, and when the response is
  written `RepliesJustified`, because an append to the input does not change a
  window that is over.
- `OrderInv` is `QueueSorted`, `NoneYet`, `AnsweredBehind`, `OneReplyPerLine`
  and `InOrder`: the reader's pending response, the channel and the worker each
  hold lines nobody has answered, and they are ordered along that path.
- `LifeInv` is for the refinement. The mapping gives each line the stage it is
  at (`Stage`), and a step of the service has to move one line by one stage and
  no other. `HeldApart` is what this needs: the line in the reader's hands is
  neither queued, nor the worker's, nor answered, so that the stages exclude
  each other (`StagesKnown`). Each action is then a step of `CallLifecycle` or
  leaves every stage as it is.

**The Python service.** There is no cell that tells where a line is: its future
is pending, resolved by the executor, and answered by whichever thread runs the
callback.

- `TypeInv` is `TypeOK` with `QueueInv` (the futures that are pending are
  exactly the tasks in the queue and the one in the thread, in input order) and
  `OutcomeInv` (what a future may hold, by the kind of its line).
- `CancelInv` is built as in the Rust service, but an outcome waits in a future:
  `ResultsJustified` carries the window of the cancellation over from the
  thread's outcome to the future, and `RepliesJustified` from there to the
  answer. `WindowKept` says that reading a further line changes no such window.
- `OrderInv` is `AnsweredInOrder` with `NoneYet` and `AnsweredBehind`: nobody who
  holds a line has answered it, and what is answered lies before the queue. The
  callback runs in the thread or, when the future is done before the reader
  attaches it, in the reader; both write the answer of the oldest line.
- `OwedInv` follows an answer that is owed: it is written, or its line is in the
  queue, with the thread, or in the reader's hands, or it broke the reader's
  loop. At the exit the first three are empty. `OddIsLast` says that no line is
  read after one that broke the loop.

**The batch.** For plans of any size and depth, any deadlines and any clock.

- `NestInv`: the batches on the stack are nested as they are in the request.
- `TimeInv`: each batch saves the earliest deadline of those around it, and the
  deadline in force is the earliest of all while the loop runs.
  `DeadlineIsEarliest` alone is not inductive: when an inner batch returns, the
  deadline becomes what that batch saved.
- `LateInv`: an action is cleared only by batches none of which has been late.
  Without it a second late action could not be excluded.
- `FreshInv`: from the check of an input's frame to its dispatch nothing is
  stored in between.
- `CodeInv` and `RanInv`: an error code names what happened, and while the loop
  goes on every action before the current one ran and succeeded.
- `KeptInv`: the receipts on the levels of the stack together are the actions
  that ran, in their order, each once; what the innermost batch is about to
  return counts as its level (`Level`). An exception that escapes is the one
  exception, and `ReceiptsKept` shows it.

**The helper.** The inductive invariant is `TypeOK`, `HelperLives` (when there
is a helper and when it has been joined), `HelperFacts` (the helper's counts
and its held button at each control point), `LateFacts` and `ReceiptFacts` (what
the receipt was computed from). It is needed because `ReceiptHonest`,
`PartialExact` and `HeldIsAccountedFor` speak of the end and hold because of
the way there: the count is printed after the last event, with nothing down,
and the receipt is read after the exit.

**The frames.** `FrameAssumption` says only that every display layout shows
points inside its bounds, so the theorems hold for any desktop and any number of
user changes. Four inductive invariants:

- `TypeInv` is `TypeOK` and, while an observation runs, an id left for its
  frame.
- `FileInv` adds to `FileIsCurrent` that a lost directory or a picture left at
  the end of the input is a refused one. `Clear` disturbs it most: it unlinks
  the frame's own picture and, in the Python port, cannot remove the directory
  around a refused one.
- `PictureInv` follows an observation: after the first look at the window the
  reading is of the moment or the user has moved since, and at the store the
  picture and the name agree or the user left and returned between the looks.
- `InputInv` follows an input: the reading of each control point is of the
  moment or older than a change, and a frame is never newer than the call that
  uses it. Without that last fact `UndisturbedInputLands` is not inductive: it
  compares the user's clock at the picture with the clock at the post, and the
  reading that authorized the input lies between them.

**The keyboard.** For any number of keys and of the user's changes. `ClickInv`
says when the desktop has had the click: never before the look after it, always
at that look if the command is click_type. `LookInv` says that what the latest
look saw still holds until the user changes something: after the first half the
application, before the keys the element too, and until then nothing was posted.
`KeysLandChecked` is not inductive without it, since it compares a key with a
look that is over. `AnswerInv` is `AnswerHonest` and `AnswerComplete`; lemma
`Ending` reduces them to what each ending puts into its envelope.

**The reads.** `ReadInv` is the type with, at each control point of the runner,
what child and readers may be (`RunnerWhere`, `ReaderWhere`), what the runner
has concluded (`ResultWhere`) and what an end of the child means (`ChildWhere`).
`ReadTells` speaks only of the end; that a child called too slow did hang needs
lemma `PollingGoesOn`: while the runner polls, somebody can always go on, because
both readers read, so `TimeIsUp` needs a child that hangs. `DesktopCommand` keeps
the same invariant through every read it starts. `FocusInv` adds that while a
command is at a look, what the child will say is what was in front when it
looked, and that every look after the activation began after it.

**The budget.** Each checked operation returns the exact number or the overflow
that every later one keeps, so the chain computes `ExactRust` or overflows; and
it overflows only above the limit, since from four bytes on the Base64 length is
no less than the padded sum it is computed from. `CaptureAssumption` leaves the
widths, the limit and the constants open. `CaptureIsExact` puts the same
question to the whole observation. `Hull` is the least and greatest of finite
sets of edges, `ObservationExact` shows that the tests of the region in machine
integers agree with the exact ones on every validated layout, and `ObserveInv`
says that an admitted observation is answered by nothing else.

**The command line.** `OneShotIsSafe` holds for every sequence of words.
`NormalizedIs` describes the words after the two global flags have been taken
out: those before the separator, then all from it on. `OptionsEnd` is the heart:
behind a separator a word is literal unless an option in front of the separator
took it for a value. `ParsedInv` says that the plan still is what the words
parse to.

**The policy.** `PlanIsRight` compares, for every tree of requests, what the
code computes on the way down with what the module reads off the tree.
`EffectiveIs`, `OneTargetHolds` and `ActionCountIs` show that what is passed
from batch to batch is the nearest word around a node, and that the count is
the size of what lies inside it; `ChordWords`, `KeyIssueIs` and `PostedIs` do
the same for chords of any length. A batch cannot say "blank" to its actions
without being refused itself (`BlankIsOwn`), which is why `OwnIssueIs` speaks of
a node behind nodes without a fault; `PreflightIs` takes the first faulty one.
`RequestInv` and `PlanInv` carry the verdict to the answer. Recursive functions
over the nodes are met by exhibiting a closed form and showing, with the least
counterexample, that the recursion has no other solution (`Upwards` and
`Downwards` over an interval, from `LeastOf`): this needs no induction theorem.

**Model-checked only.** Liveness under fairness (`EveryCallAnswered`,
`ShutsDown`, `InputReturns`, `BatchEnds`, `CommandEnds`) needs `ENABLED`, which
is out of the prover's reach. That a state without successor is never reached
(deadlock) is checked by TLC for the same reason. The properties of the five
runs that expect a violation are false and have no theorem.

## 6. Not modelled, and simplifications

- JSON shapes, wording, logging and envelopes: only the kind of an answer.
- A stop line without an id is ignored, as the code does. A `tools/call` with
  malformed arguments is one of the refusals, except in the Python service when
  they are no object (`ReadOdd`).
- How many events a helper posts between a stop line and the signal: the 10 ms
  of the polling loop are not measured, only that the signal is sent and that at
  most one event begins after it was noticed.
- An `unknown` or failure receipt for an input: that it claims nothing is all
  `ReceiptTells` says of it.
- After a reader's I/O error in the Rust port the process ends while a helper may
  be running: `RemovedAtShutdown` is about the picture only.
- Motion and typing gaps: floating-point, stateless; only the number of points
  matters, as `total`.
- The capture budget is one of the reasons an observation is refused in
  `FrameGuard`; `CaptureLimits` computes it. In `DesktopCommand` the reads of an
  observation succeed, since `FrameGuard` has their failures.
- What a read says (JSON, bytes of a picture) is a word or a failure; its
  parsing is not modelled.
- A read's child leaves no descendant that holds its pipes, and a prompt child
  that can go on ends within its timeout. Errors of `wait` itself, decoding
  errors in Python, and an `OSError` of `Popen` other than a missing program are
  left out.
- In the Rust port a read and a focus are not cancellable; the Python port tests
  for a stop before it dispatches, which `PyServer` has and `DesktopCommand`
  leaves out.
- Exit codes of the command lines, and the Python one, which `argparse` parses.
- The Linux and Windows adapters refuse every operation.
- Crash recovery: nothing is persisted but the picture file, whose fate at an
  abrupt end is `Abort`.

## 7. Plan

Done: `McpServer`, `PyServer` and `CallLifecycle`, `HelperInput`, `FrameGuard`,
`BatchRun`, `Keyboard`, `NativeRead`, `Policy`, `CommandLine`, `CaptureLimits`
and `DesktopCommand` composing them; proofs of every safety invariant that a
passing run checks, and of the refinement of `CallLifecycle` by both services.

Next, in this order:

1. Shorter proofs: lemmas on sequences that several proof modules state for
   themselves (`AppendKeeps`, least elements), in one place.
2. Abstract specifications: *coordinates act only on what was observed* for
   `FrameGuard` and *an input is all, part or unknown* for `HelperInput`, with
   refinement mappings; `Keyboard` then takes its inputs from the latter.
3. Effect verification in `Keyboard` (`proves_text_insertion`), which only adds
   a field to a success, and `doctor`, which only reports.

## 8. Running

    tlc -workers 2 -config MCMcpServer.cfg MCMcpServer.tla
    tlapm McpServerProofs.tla

The runs and their modules are listed under `runs` in `PROJECT.json`;
`HelperInput` and `Keyboard` have no instance module: they are checked directly
with `MCHelperInput.cfg`, `MCHelperHeld.cfg`, `MCKeyboard.cfg` and
`MCKeyboardMismatch.cfg`.
