----------------------------- MODULE HelperInput -----------------------------
(***************************************************************************)
(* One native input operation: the controller's supervisor spawns the      *)
(* helper process, feeds it, watches the cancellation probe, turns the way *)
(* the helper ended into a receipt, and cleans up.  Both ports run the     *)
(* same helper (src/native/cghelper.c) with supervisors of their own:      *)
(*   rust    src/desktop/rust/src/provider.rs  input, and input_error and  *)
(*           typing_error of src/desktop/rust/src/controller.rs            *)
(*   python  src/desktop/platforms/macos.py  _run, and _dispatch_caught of *)
(*           src/desktop/controller.py                                     *)
(* The two processes interleave freely; time is two clocks that may run    *)
(* out at any moment.                                                      *)
(***************************************************************************)
EXTENDS Naturals

CONSTANT MaxTotal   \* bound on the primitives of one operation
ASSUME HelperAssumption == MaxTotal \in Nat \ {0}

VARIABLES
  port,      \* which supervisor runs
  op,        \* the helper's subcommand
  total,     \* primitives requested
  large,     \* the text does not fit in the stdin pipe
  cancelled, \* the probe: the call's token is set, or its deadline passed
  spc,       \* control point of the supervisor
  fed,       \* stdin is written and closed
  stopSent,  \* was_cancelled / stop_sent
  grace,     \* the second after SIGTERM is over
  overdue,   \* the 120 seconds are over
  outcome,   \* the receipt
  reported,  \* the primitives it reports
  released,  \* how release_all ended, if it was called
  hpc,       \* control point of the helper
  code,      \* how the helper exited
  stop,      \* stop_requested
  posted,    \* primitives the desktop received
  held,      \* a key or a button is down
  printed,   \* the count on the helper's stdout; none when it wrote none
  late       \* primitives begun after stop_requested was set

request    == <<port, op, total, large>>
supervisor == <<spc, fed, stopSent, outcome, reported, released>>
clocks     == <<grace, overdue>>
helper     == <<hpc, code, stop, posted, held, printed, late>>
vars == <<request, cancelled, supervisor, clocks, helper>>

Ports == {"rust", "python"}
Ops == {"move", "drag", "click", "scroll", "type", "key"}
HasInput == op \in {"move", "drag", "type"}   \* the helper reads stdin
Pairs    == op \in {"click", "type", "key"}   \* a primitive is down, then up
Heeds    == op # "key"                        \* the helper polls the flag
None == MaxTotal + 1                          \* no count on stdout

Init ==
  /\ port \in Ports
  /\ op \in Ops
  /\ total \in 1 .. MaxTotal
  /\ op = "key" => total = 1
  /\ large \in BOOLEAN
  /\ large => op = "type"
  /\ cancelled = FALSE
  /\ spc = "entry" /\ fed = FALSE /\ stopSent = FALSE
  /\ outcome = "none" /\ reported = 0 /\ released = "no"
  /\ grace = FALSE /\ overdue = FALSE
  /\ hpc = "none" /\ code = "none" /\ stop = FALSE
  /\ posted = 0 /\ held = FALSE /\ printed = None /\ late = 0

-----------------------------------------------------------------------------
(* The helper.                                                             *)

HelperGoes(next) == hpc' = next /\ UNCHANGED code
HelperExits(how) == hpc' = "gone" /\ code' = how
HelperOnly == UNCHANGED <<request, cancelled, supervisor, clocks>>

(* signal(SIGTERM, request_stop)                                           *)
InstallHandlers ==
  /\ hpc = "starting"
  /\ HelperGoes("trust")
  /\ UNCHANGED <<stop, posted, held, printed, late>>
  /\ HelperOnly

(* AXIsProcessTrusted, and the dispatch on the subcommand.                 *)
CheckTrust ==
  /\ hpc = "trust"
  /\ \/ HelperExits("untrusted")
     \/ HelperGoes(CASE op = "drag" -> "grab"
                     [] op = "type" -> "slurp"
                     [] OTHER -> "test")
  /\ UNCHANGED <<stop, posted, held, printed, late>>
  /\ HelperOnly

(* type_stdin reads everything before the first character.                 *)
Slurp ==
  /\ hpc = "slurp"
  /\ fed
  /\ HelperGoes("test")
  /\ UNCHANGED <<stop, posted, held, printed, late>>
  /\ HelperOnly

Grab ==
  /\ hpc = "grab"
  /\ held' = TRUE
  /\ HelperGoes("test")
  /\ UNCHANGED <<stop, posted, printed, late>>
  /\ HelperOnly

(* Mutant: a stopped drag skips the button's release.                      *)
LoopEndsHolding == HelperGoes("print")

LoopEnds == HelperGoes(IF op = "drag" THEN "letgo" ELSE "print")

(* Mutant: the loop does not test the flag.                                *)
TestStopNever ==
  /\ hpc = "test"
  /\ HelperGoes("post")
  /\ UNCHANGED <<stop, posted, held, printed, late>>
  /\ HelperOnly

(* The loop's test of stop_requested.                                      *)
TestStop ==
  /\ hpc = "test"
  /\ IF stop /\ Heeds THEN LoopEnds ELSE HelperGoes("post")
  /\ UNCHANGED <<stop, posted, held, printed, late>>
  /\ HelperOnly

(* Mutant: one primitive too many.                                         *)
PostPastEnd ==
  /\ hpc = "post"
  /\ HasInput => fed
  /\ IF posted > total
     THEN LoopEnds /\ UNCHANGED posted
     ELSE HelperGoes("test") /\ posted' = posted + 1
  /\ UNCHANGED <<stop, held, printed, late>>
  /\ HelperOnly

(* The loop's body: the next point, click, tick or character, if any.      *)
Post ==
  /\ hpc = "post"
  /\ HasInput => fed
  /\ IF posted = total
     THEN LoopEnds /\ UNCHANGED <<posted, held, late>>
     ELSE /\ late' = IF stop THEN late + 1 ELSE late
          /\ IF Pairs
             THEN held' = TRUE /\ HelperGoes("up") /\ UNCHANGED posted
             ELSE posted' = posted + 1 /\ HelperGoes("test") /\ UNCHANGED held
  /\ UNCHANGED <<stop, printed>>
  /\ HelperOnly

PostUp ==
  /\ hpc = "up"
  /\ held' = FALSE
  /\ posted' = posted + 1
  /\ HelperGoes("test")
  /\ UNCHANGED <<stop, printed, late>>
  /\ HelperOnly

LetGo ==
  /\ hpc = "letgo"
  /\ held' = FALSE
  /\ HelperGoes("print")
  /\ UNCHANGED <<stop, posted, printed, late>>
  /\ HelperOnly

(* An event cannot be created, or type_stdin runs out of memory: exit 3    *)
(* with no count, whatever is held.                                        *)
CannotPost ==
  /\ hpc \in {"grab", "slurp", "post", "up", "letgo"}
  /\ hpc = "post" => posted < total /\ (HasInput => fed)
  /\ HelperExits("failed")
  /\ UNCHANGED <<stop, posted, held, printed, late>>
  /\ HelperOnly

(* printf: only type_stdin flushes; the others' count leaves at exit.      *)
PrintCount ==
  /\ hpc = "print"
  /\ printed' = IF op = "type" THEN posted ELSE printed
  /\ HelperGoes("return")
  /\ UNCHANGED <<stop, posted, held, late>>
  /\ HelperOnly

(* return stop_requested ? 130 : 0, where key always returns 0.            *)
Return ==
  /\ hpc = "return"
  /\ printed' = posted
  /\ HelperExits(IF stop /\ Heeds THEN "stopped" ELSE "success")
  /\ UNCHANGED <<stop, posted, held, late>>
  /\ HelperOnly

HelperNext == InstallHandlers \/ CheckTrust \/ Slurp \/ Grab \/ TestStop \/ Post
                \/ PostUp \/ LetGo \/ CannotPost \/ PrintCount \/ Return

(* SIGTERM: fatal before the handler is there, a flag after.               *)
Signalled ==
  CASE hpc = "starting" ->
         HelperExits("killed") /\ UNCHANGED <<stop, posted, held, printed, late>>
    [] hpc = "gone" -> UNCHANGED helper
    [] OTHER -> stop' = TRUE
                /\ UNCHANGED <<hpc, code, posted, held, printed, late>>

(* Mutant: the supervisor gives up without killing.                        *)
KilledNot == UNCHANGED helper

Killed ==
  IF hpc = "gone"
  THEN UNCHANGED helper
  ELSE HelperExits("killed") /\ UNCHANGED <<stop, posted, held, printed, late>>

-----------------------------------------------------------------------------
(* The supervisor.                                                         *)

Conclude(what, count) ==
  /\ outcome' = what
  /\ reported' = count
  /\ spc' = "caller"

(* Before the helper exists: cancelled already, helper missing, no spawn.  *)
Refuse ==
  /\ spc = "entry"
  /\ \/ cancelled /\ Conclude("cancelled", 0)
     \/ ~cancelled /\ \E what \in {"unsupported", "failure"} : Conclude(what, 0)
  /\ UNCHANGED <<request, cancelled, fed, stopSent, released, clocks, helper>>

(* input() first writes all of stdin, then polls; _run starts with         *)
(* communicate, which writes as it waits.                                  *)
Spawn ==
  /\ spc = "entry"
  /\ ~cancelled
  /\ spc' = CASE port = "python" -> "try"
              [] port = "rust" /\ HasInput -> "feed"
              [] OTHER -> "poll"
  /\ hpc' = "starting"
  /\ UNCHANGED <<request, cancelled, fed, stopSent, outcome, reported, released,
                 clocks, code, stop, posted, held, printed, late>>

Writable == hpc # "gone" /\ (large => hpc = "slurp")

(* write_all: it blocks while the pipe is full, without looking at the     *)
(* probe or the clock, and fails when the reader is gone.                  *)
Feed ==
  /\ spc = "feed"
  /\ \/ /\ Writable
        /\ fed' = TRUE
        /\ spc' = "poll"
        /\ UNCHANGED <<outcome, reported, helper>>
     \/ /\ hpc = "gone"
        /\ Killed
        /\ Conclude("failure", 0)
        /\ UNCHANGED fed
  /\ UNCHANGED <<request, cancelled, stopSent, released, clocks>>

CommunicateWrites ==
  /\ port = "python"
  /\ spc = "try"
  /\ HasInput /\ ~fed /\ Writable
  /\ fed' = TRUE
  /\ UNCHANGED <<request, cancelled, spc, stopSent, outcome, reported, released,
                 clocks, helper>>

(* Mutant: the loop has SIGTERM and no time limit.                         *)
PollForever ==
  /\ spc = "poll"
  /\ stopSent' = (stopSent \/ cancelled)
  /\ IF cancelled /\ ~stopSent THEN Signalled ELSE UNCHANGED helper
  /\ spc' = "try"
  /\ UNCHANGED <<request, cancelled, fed, outcome, reported, released, clocks>>

(* One round of the loop, its checks in the order of the code: SIGTERM on  *)
(* the first sight of a cancellation, SIGKILL when the grace is over, and  *)
(* giving up when the 120 seconds are.  /bin/kill may fail in the Rust     *)
(* port, whose loop ignores that.                                          *)
Poll ==
  /\ spc = "poll"
  /\ stopSent' = (stopSent \/ cancelled)
  /\ CASE overdue -> Killed /\ Conclude("failure", 0)
       [] ~overdue /\ grace -> Killed /\ spc' = "try"
                               /\ UNCHANGED <<outcome, reported>>
       [] ~overdue /\ ~grace /\ cancelled /\ ~stopSent ->
            /\ Signalled \/ (port = "rust" /\ UNCHANGED helper)
            /\ spc' = "try"
            /\ UNCHANGED <<outcome, reported>>
       [] OTHER -> spc' = "try" /\ UNCHANGED <<outcome, reported, helper>>
  /\ UNCHANGED <<request, cancelled, fed, released, clocks>>

(* try_wait, communicate(timeout): has the helper exited?                  *)
Try ==
  /\ spc = "try"
  /\ spc' = IF hpc = "gone" THEN "collect" ELSE "poll"
  /\ UNCHANGED <<request, cancelled, fed, stopSent, outcome, reported, released,
                 clocks, helper>>

(* try_wait itself failed.                                                 *)
TryFails ==
  /\ port = "rust"
  /\ spc = "try"
  /\ Killed
  /\ Conclude("failure", 0)
  /\ UNCHANGED <<request, cancelled, fed, stopSent, released, clocks>>

(* Mutant: no count on stdout is taken for all of them.                    *)
CompletedAll == IF printed = None THEN total ELSE printed

(* The last line of stdout, 0 when there is none.                          *)
Completed == IF printed = None THEN 0 ELSE printed

(* From the exit status and the output to the receipt.  Only the Rust port *)
(* compares the count with the total here; _type does so later.            *)
Collect ==
  /\ spc = "collect"
  /\ CASE stopSent \/ code = "stopped" -> Conclude("cancelled", Completed)
       [] ~stopSent /\ code = "untrusted" -> Conclude("unsupported", 0)
       [] ~stopSent /\ code = "success" /\ Completed = total ->
            Conclude("ok", Completed)
       [] OTHER -> Conclude("failure", 0)
  /\ UNCHANGED <<request, cancelled, fed, stopSent, released, clocks, helper>>

(* Mutant: the handlers of a failure do not release.                       *)
ReleasesCancelled == outcome = "cancelled" /\ port = "python"

(* The handlers that call release_all: input_error and typing_error on a   *)
(* failure alone, _dispatch_caught and the _unknown_* helpers on a         *)
(* failure and on a cancellation.                                          *)
Releases ==
  \/ outcome = "failure"
  \/ outcome = "cancelled" /\ port = "python"

(* release_all posts every key and button up; its own failure is ignored.  *)
Answer ==
  /\ spc = "caller"
  /\ spc' = "returned"
  /\ IF Releases
     THEN \/ released' = "done" /\ held' = FALSE
          \/ released' = "failed" /\ UNCHANGED held
     ELSE UNCHANGED <<released, held>>
  /\ UNCHANGED <<request, cancelled, fed, stopSent, outcome, reported, clocks,
                 hpc, code, stop, posted, printed, late>>

SupervisorNext == Refuse \/ Spawn \/ Feed \/ CommunicateWrites \/ Poll \/ Try
                    \/ TryFails \/ Collect \/ Answer

-----------------------------------------------------------------------------
(* The clocks, and the client or the deadline that cancels.                *)

GraceEnds ==
  /\ spc \in {"poll", "try"}
  /\ stopSent /\ ~grace
  /\ grace' = TRUE
  /\ UNCHANGED <<request, cancelled, supervisor, overdue, helper>>

TimeIsUp ==
  /\ spc \in {"poll", "try"}
  /\ ~overdue
  /\ overdue' = TRUE
  /\ UNCHANGED <<request, cancelled, supervisor, grace, helper>>

Cancel ==
  /\ ~cancelled
  /\ spc # "returned"
  /\ cancelled' = TRUE
  /\ UNCHANGED <<request, supervisor, clocks, helper>>

Done == spc = "returned" /\ UNCHANGED vars

Next == HelperNext \/ SupervisorNext \/ GraceEnds \/ TimeIsUp \/ Cancel \/ Done

Spec == Init /\ [][Next]_vars

(* The supervisor's thread runs and time passes.  Nothing is assumed of    *)
(* the helper: it may hang at any point.                                   *)
FairSpec == Spec /\ WF_vars(SupervisorNext) /\ WF_vars(GraceEnds) /\ WF_vars(TimeIsUp)

-----------------------------------------------------------------------------
(* Correctness.                                                            *)

Counts == 0 .. MaxTotal

(* Each variable keeps its shape, and the helper never posts more than it  *)
(* was asked for.                                                          *)
TypeOK ==
  /\ port \in Ports /\ op \in Ops /\ total \in 1 .. MaxTotal
  /\ large \in BOOLEAN /\ cancelled \in BOOLEAN
  /\ spc \in {"entry", "feed", "poll", "try", "collect", "caller", "returned"}
  /\ fed \in BOOLEAN /\ stopSent \in BOOLEAN
  /\ grace \in BOOLEAN /\ overdue \in BOOLEAN
  /\ outcome \in {"none", "ok", "cancelled", "unsupported", "failure"}
  /\ reported \in Counts
  /\ released \in {"no", "done", "failed"}
  /\ hpc \in {"none", "starting", "trust", "slurp", "grab", "test", "post", "up",
              "letgo", "print", "return", "gone"}
  /\ code \in {"none", "success", "stopped", "untrusted", "failed", "killed"}
  /\ stop \in BOOLEAN /\ held \in BOOLEAN
  /\ posted \in Counts /\ posted <= total
  /\ printed \in Counts \cup {None}
  /\ late \in Nat

(* A receipt never overstates: what it reports as completed was posted,    *)
(* success means all of it with nothing left down, and `unsupported' means *)
(* the desktop saw nothing (provider.rs input, macos.py _run).             *)
ReceiptHonest ==
  /\ reported <= posted
  /\ outcome = "ok" => posted = total /\ ~held
  /\ outcome = "unsupported" => posted = 0 /\ ~held

(* A cancelled receipt is exact, and leaves nothing down, whenever the     *)
(* helper got to end by itself: the count is lost only to a kill or to an  *)
(* event it could not create.                                              *)
PartialExact ==
  outcome = "cancelled" /\ code \in {"success", "stopped"} =>
    reported = posted /\ ~held

(* A receipt tells what reached the desktop.                               *)
ReceiptTells == ReceiptHonest /\ PartialExact

(* Once the flag is set the helper starts at most the one primitive it had *)
(* already tested for (the loops of cghelper.c).                           *)
StopsPrompt == late <= 1

(* The receipt is the end of the operation: once the supervisor concludes, *)
(* no helper is alive to post another event, on any path out of its loop.  *)
NoInputAfterReceipt ==
  spc \in {"caller", "returned"} => hpc \in {"none", "gone"}

(* What is still down when the answer goes out: only what a release that   *)
(* failed could not lift, or, in the Rust port, what a cancelled helper    *)
(* left, since input_error does not release on a cancellation.             *)
HeldIsAccountedFor ==
  spc = "returned" /\ held =>
    \/ released = "failed"
    \/ port = "rust" /\ outcome = "cancelled" /\ code \in {"killed", "failed"}

(* The operation leaves nothing behind: no helper that still posts, and    *)
(* nothing held but for those causes.                                      *)
ReturnsClean == NoInputAfterReceipt /\ HeldIsAccountedFor

(* README.md, "Held keys and buttons are released on failures", and the    *)
(* contract of Backend.release_all, "Called on every failure path".        *)
HeldReleased == spc = "returned" /\ held => released = "failed"

(* The supervisor always comes back, however the helper behaves: the       *)
(* grace and the 120 seconds bound its loop.  The Rust port is not in the  *)
(* loop while it writes a large text to a helper that does not read.       *)
InputReturns ==
  (spc # "returned" /\ ~(port = "rust" /\ large /\ ~fed)) ~> (spc = "returned")
=============================================================================
