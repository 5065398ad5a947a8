--------------------------- MODULE DesktopCommand ----------------------------
(***************************************************************************)
(* One command from the caller to its answer: the command line's words or  *)
(* a call, the policy, and then the commands that only read the desktop or *)
(* bring an application to the front.  These are made of reads: children   *)
(* that look at a desktop which changes all the while.                     *)
(*   rust    command_with_request_id, dispatch and observe of              *)
(*           src/desktop/rust/src/controller.rs; active_window, focus_app, *)
(*           activate, list_apps of src/desktop/rust/src/provider.rs       *)
(*   python  command and _dispatch of src/desktop/controller.py;           *)
(*           active_window, focus_app, _open_app, list_apps of             *)
(*           src/desktop/platforms/macos.py                                *)
(* Input, wait, batch and doctor are handed on after the policy: Keyboard, *)
(* HelperInput, FrameGuard and BatchRun say what becomes of them.          *)
(***************************************************************************)
EXTENDS NativeRead, CommandLine, CaptureLimits

CONSTANT Requests   \* the requests there are, by kind
ASSUME CommandAssumption ==
  /\ {"wanted", "other", "empty", "list"} \subseteq Words
  /\ \A kind \in DOMAIN Requests : \A r \in Requests[kind] :
       /\ r.args = <<>> \/ r.plan = <<>>
       /\ r.port \in {"rust", "python"} /\ r.dry \in BOOLEAN
       /\ r.args \in Seq(STRING) /\ IsTree(r.plan)
       /\ LayoutTyped(r.port, r.layout)
       /\ RegionTyped(r.port, r.region)

VARIABLES
  request,    \* [port, args, plan, dry, layout, region]
  plan,       \* the request proper; <<>> until the words are parsed
  dry,        \* the controller's dry_run
  mpc,        \* control point of the command
  first,      \* what the first look showed
  activated,  \* the application was told to come to the front
  sample,     \* the application the last look saw, and whether after that
  over,       \* the five seconds for the application to come are over
  answer      \* the error code, "ok", or "handed" on

call    == <<request, plan, dry>>
focus   == <<first, activated, over>>
vars == <<call, mpc, focus, sample, answer, read>>

port == request.port
op == IF plan = <<>> THEN "none" ELSE plan[1].op
Delivery == IF plan[1].meta THEN "metadata" ELSE IF plan[1].path THEN "path" ELSE "base64"
(* A command line is not given a region here: it is the whole layout.      *)
Region == IF request.args = <<>> THEN request.region ELSE request.layout.bounds

Looks == {"jxa", "helper"}
Preparing == {"words", "policy", "admitted"}
Points == Preparing \cup Looks \cup {"list", "activate", "open", "again", "waiting", "answered"}
Unseen == [app |-> "none", after |-> FALSE]
IdleRead == runner = "threads" /\ spc = "done" /\ Fresh

Init ==
  /\ \E kind \in DOMAIN Requests : request \in Requests[kind]
  /\ plan = request.plan
  /\ dry = request.dry
  /\ mpc = IF request.args = <<>> THEN "policy" ELSE "words"
  /\ first = "none" /\ activated = FALSE /\ over = FALSE
  /\ sample = Unseen
  /\ answer = "none"
  /\ IdleRead

-----------------------------------------------------------------------------
(* The command's own steps.                                                *)

Goes(next) == mpc' = next /\ UNCHANGED answer
Answers(code) == mpc' = "answered" /\ answer' = code
Starts(next, tool) ==
  /\ Goes(next)
  /\ StartRead(IF port = "rust" THEN "threads" ELSE tool)

(* The words become a request, or an answer of the command line itself.    *)
ParseWords ==
  /\ mpc = "words"
  /\ \E asked \in {Parse(request.args)} :
       IF OneShot(asked) = "run"
       THEN plan' = asked.plan /\ dry' = ~asked.execute /\ Goes("policy")
       ELSE Answers(OneShot(asked)) /\ UNCHANGED <<plan, dry>>
  /\ UNCHANGED <<request, focus, sample, read>>

Judge(verdict) == IF verdict = "ok" THEN Goes("admitted") ELSE Answers(verdict)

(* Mutant: the request is judged without the actions inside it.            *)
ApplyPolicyFirst ==
  /\ mpc = "policy"
  /\ \E verdict \in {OwnIssue(port, plan, 1)} : Judge(verdict)
  /\ UNCHANGED <<call, focus, sample, read>>

ApplyPolicy ==
  /\ mpc = "policy"
  /\ \E verdict \in {Preflight(port, plan)} : Judge(verdict)
  /\ UNCHANGED <<call, focus, sample, read>>

(* dispatch, for the commands that need no child.                          *)
AnswerAtOnce ==
  /\ mpc = "admitted"
  /\ \/ op \in Inputs \cup {"batch", "wait", "doctor"} /\ Answers("handed")
     \/ op = "stop" /\ Answers("ok")
     \/ op = "list_windows" /\ Answers("unsupported")
     \/ op \in FocusOps /\ dry /\ Answers("ok")
  /\ UNCHANGED <<call, focus, sample, read>>

(* observe.  FrameGuard has its reads and its frame; here they succeed. A  *)
(* dry run captures nothing, and Rust then does not validate the layout.   *)
Observe ==
  /\ mpc = "admitted" /\ op = "observe"
  /\ LET layout == request.layout
         dryLayout == IF port = "rust" THEN layout.bounds.w > 0 /\ layout.bounds.h > 0
                      ELSE ValidLayout(port, layout)
     IN  Answers(IF ~dry THEN Observation(port, layout, Region, Delivery)
                 ELSE IF ~dryLayout THEN "exec_failed"
                 ELSE IF RoughlyInside(port, Region, layout.bounds) THEN "ok"
                 ELSE "bad_arg")
  /\ UNCHANGED <<call, focus, sample, read>>

(* Mutant: focus_app activates without looking first.                      *)
DispatchActivating ==
  /\ mpc = "admitted"
  /\ \/ op = "active-window" /\ Starts("jxa", "tool") /\ UNCHANGED focus
     \/ op \in FocusOps /\ ~dry /\ Starts("activate", "tool")
          /\ activated' = TRUE /\ UNCHANGED <<first, over>>
     \/ op = "list_apps" /\ Starts("list", "tool") /\ UNCHANGED focus
  /\ UNCHANGED <<call, sample>>

(* dispatch, for those that begin with a child.                            *)
Dispatch ==
  /\ mpc = "admitted"
  /\ \/ op = "active-window" /\ Starts("jxa", "tool")
     \/ op \in FocusOps /\ ~dry /\ Starts("jxa", "tool")
     \/ op = "list_apps" /\ Starts("list", "tool")
  /\ UNCHANGED <<call, focus, sample>>

Read(at) == mpc = at /\ spc = "done"

(* list_apps: an output that is no list is as good as none.                *)
ListEnds ==
  /\ Read("list")
  /\ Answers(IF result = "ok" /\ word = "list" THEN "ok" ELSE "unsupported")
  /\ UNCHANGED <<call, focus, sample, read>>

(* active_window: the helper is asked when the script did not say a name.  *)
ScriptSaysNothing ==
  /\ Read("jxa")
  /\ ~(result = "ok" /\ word # "empty")
  /\ Starts("helper", "helper")
  /\ UNCHANGED <<call, focus, sample>>

LookedAt == \/ Read("jxa") /\ result = "ok" /\ word # "empty"
            \/ Read("helper") /\ result = "ok"
LookFailed == Read("helper") /\ result # "ok"

(* A helper that cannot start is missing or cannot be run; Python maps     *)
(* every failure of it alike.                                              *)
LookCodes ==
  IF port = "python" \/ result = "fail" THEN {"unsupported"}
  ELSE IF result = "missing" THEN {"unsupported", "exec_failed"}
  ELSE {"exec_failed"}

ActiveWindow ==
  /\ op = "active-window"
  /\ \/ LookedAt /\ Answers("ok")
     \/ LookFailed /\ \E code \in LookCodes : Answers(code)
  /\ UNCHANGED <<call, focus, sample, read>>

(* focus_app: the application is in front.                                 *)
FocusShown ==
  /\ op \in FocusOps
  /\ LookedAt
  /\ word = "wanted"
  /\ Answers("ok")
  /\ UNCHANGED <<call, focus, sample, read>>

(* Mutant: what is in front already is activated all the same.             *)
ActivateAnyhow ==
  /\ op \in FocusOps
  /\ ~activated
  /\ LookedAt \/ LookFailed
  /\ first' = IF LookedAt THEN word ELSE "failed"
  /\ activated' = TRUE
  /\ Starts("activate", "tool")
  /\ UNCHANGED <<call, over, sample>>

(* The first look shows another application, or nothing.                   *)
Activate ==
  /\ op \in FocusOps
  /\ ~activated
  /\ ((LookedAt /\ word # "wanted") \/ LookFailed)
  /\ first' = IF LookedAt THEN word ELSE "failed"
  /\ activated' = TRUE
  /\ Starts("activate", "tool")
  /\ UNCHANGED <<call, over, sample>>

(* activate and _open_app: the script, then open, then the script again.   *)
(* In Python a command that cannot start or takes too long ends it all.    *)
Escapes == port = "python" /\ result \in {"missing", "timeout"}

(* Mutant: the activation is taken for its effect.                         *)
ActivationEndsBlind ==
  /\ mpc \in {"activate", "open", "again"} /\ spc = "done"
  /\ IF result = "ok" /\ mpc # "open" THEN Answers("ok") /\ UNCHANGED read
     ELSE IF mpc = "again" \/ Escapes THEN Answers("exec_failed") /\ UNCHANGED read
     ELSE IF mpc = "activate" THEN Starts("open", "tool")
     ELSE IF result = "ok" THEN Starts("again", "tool")
     ELSE Answers("exec_failed") /\ UNCHANGED read
  /\ UNCHANGED <<call, focus, sample>>

ActivationEnds ==
  /\ mpc \in {"activate", "open", "again"} /\ spc = "done"
  /\ IF result = "ok" /\ mpc # "open" THEN Goes("waiting") /\ UNCHANGED read
     ELSE IF mpc = "again" \/ Escapes THEN Answers("exec_failed") /\ UNCHANGED read
     ELSE IF mpc = "activate" THEN Starts("open", "tool")
     ELSE IF result = "ok" THEN Starts("again", "tool")
     ELSE Answers("exec_failed") /\ UNCHANGED read
  /\ UNCHANGED <<call, focus, sample>>

(* Mutant: a new look is taken whatever the time.                          *)
LookAgainAlways ==
  /\ mpc = "waiting"
  /\ Starts("jxa", "tool")
  /\ UNCHANGED <<call, focus, sample>>

(* The loop: the clock is read between two looks, and only there.          *)
LookAgain ==
  /\ mpc = "waiting"
  /\ ~over
  /\ Starts("jxa", "tool")
  /\ UNCHANGED <<call, focus, sample>>

NotYet ==
  /\ op \in FocusOps
  /\ activated
  /\ ((LookedAt /\ word # "wanted") \/ LookFailed)
  /\ Goes("waiting")
  /\ UNCHANGED <<call, focus, sample, read>>

GiveUp ==
  /\ mpc = "waiting"
  /\ over
  /\ Answers("focus_failed")
  /\ UNCHANGED <<call, focus, sample, read>>

Prepare == ParseWords \/ ApplyPolicy \/ AnswerAtOnce \/ Observe \/ Dispatch
GoOn ==
  \/ ListEnds \/ ScriptSaysNothing \/ ActiveWindow
  \/ FocusShown \/ Activate \/ ActivationEnds \/ LookAgain \/ NotYet \/ GiveUp

-----------------------------------------------------------------------------
(* The children at work, and the desktop.                                  *)

(* A look sees the application that is in front at one moment of its run:  *)
(* the one the command wants, or another.  The user, or an application     *)
(* that takes its time to come, may change that at any moment.             *)
See ==
  /\ mpc \in Looks
  /\ \E app \in {"wanted", "other"} :
       /\ Produce(app) \/ Produce("empty")
       /\ sample' = [app |-> app, after |-> activated]
  /\ UNCHANGED <<call, mpc, focus, answer>>

Work ==
  /\ mpc \notin Looks
  /\ Produce("empty") \/ (mpc = "list" /\ Produce("list"))
  /\ UNCHANGED <<call, mpc, focus, sample, answer>>

Others == UNCHANGED <<call, mpc, focus, sample, answer>>

ChildGoesOn == See \/ Work \/ (Child({}) /\ Others)
RunnerGoesOn == (Runner \/ Readers \/ \E p \in Pipes : ReaderFails(p)) /\ Others

FiveSeconds ==
  /\ activated /\ ~over
  /\ mpc \in Looks \cup {"waiting"}
  /\ over' = TRUE
  /\ UNCHANGED <<call, mpc, first, activated, sample, answer, read>>

Next ==
  \/ Prepare \/ GoOn
  \/ ChildGoesOn \/ (Hang /\ Others) \/ RunnerGoesOn \/ (TimeIsUp /\ Others)
  \/ FiveSeconds
  \/ mpc = "answered" /\ UNCHANGED vars

Spec == Init /\ [][Next]_vars

(* A step of Prepare, said so that it is cheap to see when there is one.   *)
Prepares == mpc \in Preparing /\ mpc' \in Points \ {mpc}

(* The controller's thread and the readers run; a child that does not hang *)
(* goes on; clocks go on.                                                  *)
Fairness ==
  /\ WF_mpc(Prepares)
  /\ WF_vars(GoOn)
  /\ WF_vars((Runner \/ Readers) /\ Others)
  /\ WF_vars(~slow /\ ChildGoesOn)
  /\ WF_vars(TimeIsUp /\ Others)
  /\ WF_vars(FiveSeconds)

FairSpec == Spec /\ Fairness

-----------------------------------------------------------------------------

TypeOK ==
  /\ ReadTypeOK
  /\ dry \in BOOLEAN
  /\ mpc \in Points
  /\ first \in {"none", "other", "empty", "failed"}
  /\ activated \in BOOLEAN /\ over \in BOOLEAN
  /\ sample.app \in {"none", "wanted", "other"} /\ sample.after \in BOOLEAN
  /\ answer \in Codes \cup {"none", "ok", "handed", "unsupported", "exec_failed", "focus_failed"}

(* The policy's verdict is the one the whole tree deserves, and what is    *)
(* admitted is run with the app and the chord it was admitted with.        *)
PlanRight ==
  /\ mpc = "admitted" => /\ VerdictRight(port, plan, "ok")
                         /\ OneTarget(port, plan)
                         /\ OneChord(plan)
  /\ mpc = "answered" /\ answer \in Codes /\ request.args = <<>> /\ op # "observe"
       => VerdictRight(port, plan, answer)

(* focus_app and launch claim success only for a look of their own that    *)
(* saw the application in front, and one taken after the activation if     *)
(* there was any; an application that was seen in front at first is not    *)
(* activated again, which would reset its focused control; and they give   *)
(* up only when the five seconds are over (provider.rs:589).               *)
FocusSeen ==
  mpc = "answered" /\ plan # <<>> /\ op \in FocusOps /\ ~dry =>
    /\ answer = "ok" => sample = [app |-> "wanted", after |-> activated]
    /\ activated => /\ first \in {"other", "empty", "failed"}
                    /\ answer = "focus_failed" => over

(* An observation is stored when, and only when, its region lies on the    *)
(* screen that the displays make up and its worst case, computed without   *)
(* overflow, is within the limit (frames.rs:268).                          *)
CaptureExact ==
  mpc = "answered" /\ plan # <<>> /\ op = "observe" /\ ~dry /\ Preflight(port, plan) = "ok" =>
    LET r == Region
        layout == request.layout
        total == IF port = "rust" THEN ExactRust(r.w, r.h, Delivery)
                 ELSE PythonTotal(r.w, r.h, Delivery)
        right == /\ PositiveBounds(layout) /\ layout.bounds = Hull(layout)
                 /\ OnScreen(layout, r)
                 /\ total <= Limit
    IN  /\ answer = "ok" => right
        /\ right /\ (port = "rust" => LayoutFits(layout)) => answer \in {"ok", "unsupported"}

(* One run of the command line acts on the desktop only when its words say *)
(* so before the separator; it never posts at coordinates, having no frame *)
(* of its own, and leaves no screenshot path behind; and no word behind a  *)
(* separator, unless an option took that for its value, confirms anything. *)
OneShotSafe ==
  request.args # <<>> /\ plan # <<>> =>
    LET before == Before(request.args)
        words == Unflagged(before)
    IN  /\ ~dry => /\ "--execute" \in Range(before) /\ "--dry-run" \notin Range(before)
                   /\ op \notin Pointer
                   /\ ~(op = "observe" /\ plan[1].path)
        /\ op # "batch" /\ plan[1].confirm = "true"
             => \/ Range(words) \cap {"--confirm", "--confirm=false"} # {}
                \/ IsOption(Last(words))

(* Every command is answered, whatever its children do.                    *)
CommandEnds == <>(mpc = "answered")
=============================================================================
