------------------------------ MODULE BatchRun -------------------------------
(***************************************************************************)
(* One batch call, from its admission to its envelope, in both ports:      *)
(*   rust    Controller::batch, src/desktop/rust/src/controller.rs         *)
(*   python  Controller._batch, src/desktop/controller.py                  *)
(* A batch runs its actions one after another and stops at the first that  *)
(* fails; an action may be a batch with a deadline and a final observation *)
(* of its own.  While it runs, time passes and the client may cancel.      *)
(*                                                                         *)
(* The request is a sequence of nodes in preorder: node 1 is the call's    *)
(* batch, and the actions of batch n are the nodes n+1 .. plan[n].last     *)
(* that no deeper batch contains.                                          *)
(***************************************************************************)
EXTENDS Naturals, Sequences

CONSTANTS
  Plans,    \* the requests a client may send
  MaxTime   \* bound on the clock

Ops == {"batch", "input", "wait", "read", "observe"}
Ports == {"rust", "python"}
Finals == {"none", "metadata", "image"}

(* An input posts events and watches its probe, a wait polls, and a read,  *)
(* which here includes focus_app, launch and doctor, does neither.         *)
(* ms is a batch's deadline_ms, 0 when it has none; final its              *)
(* final_observe; id the frame an input's coordinates name, 0 for a        *)
(* keyboard input.                                                         *)
Node == [op : Ops, last : Nat, ms : Nat, final : Finals, id : Nat]

(* What validation lets through: no empty batch, and every node is inside  *)
(* the batch it belongs to.                                                *)
WellFormed(p) ==
  /\ p \in Seq(Node)
  /\ p # <<>> /\ p[1].op = "batch" /\ p[1].last = Len(p)
  /\ \A n \in DOMAIN p :
        /\ p[n].last \in n .. Len(p)
        /\ p[n].last = n <=> p[n].op # "batch"
        /\ \A m \in n .. p[n].last : p[m].last <= p[n].last

ASSUME BatchAssumption ==
  /\ MaxTime \in Nat
  /\ \A p \in Plans : WellFormed(p)

VARIABLES
  port,      \* which controller runs
  plan,      \* the request
  cancelled, \* the call's token is set
  now,       \* the monotonic clock
  deadline,  \* the deadline in force
  frame,     \* id of the stored frame, 0 when there is none
  nextId,    \* the id of the next one
  pc,        \* where the innermost batch is
  stack,     \* the batches that are running, outermost first
  result,    \* what the innermost batch, or the call, is about to return
  ran,       \* the actions that were dispatched, and how each ended
  earliest,  \* the earliest deadline any batch of the call was given
  escaped    \* an exception left a batch with receipts in it

env   == <<port, plan>>
store == <<frame, nextId>>
ghosts == <<ran, earliest, escaped>>
vars == <<env, cancelled, now, deadline, store, pc, stack, result, ghosts>>

(* No deadline is later than every deadline; one that lies beyond the      *)
(* bound of the clock is not reached either.                               *)
Never == MaxTime + 1
Due(ms) == IF ms = 0 \/ now + ms > MaxTime THEN Never ELSE now + ms

Top == stack[Len(stack)]
Current == Top.at
Nodes(n) == n .. plan[n].last
Coordinates(n) == {m \in Nodes(n) : plan[m].op = "input" /\ plan[m].id # 0}
Inputs(n) == {m \in Nodes(n) : plan[m].op = "input"}

Receipt(n, code, image) ==
  [node |-> n, status |-> IF code = "ok" THEN "ok" ELSE "failed", image |-> image]
Result(code, receipts, image) ==
  [code |-> code, receipts |-> receipts, image |-> image]
NoResult == Result("none", <<>>, FALSE)

Init ==
  /\ port \in Ports
  /\ plan \in Plans
  /\ cancelled = FALSE /\ now = 0 /\ deadline = Never
  /\ frame = 1 /\ nextId = 2
  /\ pc = "entry" /\ stack = <<>> /\ result = NoResult
  /\ ran = <<>> /\ earliest = Never /\ escaped = FALSE

-----------------------------------------------------------------------------
(* Deadline, token and frames.                                             *)

Expired == now >= deadline
Interrupted == cancelled \/ Expired

(* Mutant: a batch's own deadline replaces its parent's.                   *)
SoonerOwn(parent, own) == IF own = Never THEN parent ELSE own

Sooner(parent, own) == IF own < parent THEN own ELSE parent

(* The test before each action.  The Python port compares its own deadline *)
(* strictly, and asks for the token before the parent's deadline.          *)
LoopCode ==
  IF now > deadline \/ (port = "rust" /\ Expired) THEN "deadline_exceeded"
  ELSE IF cancelled THEN "cancelled"
  ELSE IF port = "python" /\ now >= Top.saved THEN "deadline_exceeded"
  ELSE "none"

(* Mutant: every interruption is reported as a stop.                       *)
InterruptionStop == "cancelled"

(* What an interrupted primitive is reported as (input_error,              *)
(* interruption_error; _dispatch_caught, _check_abort).                    *)
Interruption ==
  IF Expired /\ (port = "python" => ~cancelled)
  THEN "deadline_exceeded"
  ELSE "cancelled"

(* Mutant: the frames were checked when the call came in.                  *)
AuthorizedOnce(n) == TRUE

(* frame_preflight of an action, or of every action of a nested batch.     *)
Authorized(n) == \A m \in Coordinates(n) : plan[m].id = frame

-----------------------------------------------------------------------------
(* A batch begins, and an action of it ends.                               *)

Push(n) ==
  /\ stack' = Append(stack, [node |-> n, at |-> n + 1, receipts |-> <<>>,
                             saved |-> deadline, due |-> Due(plan[n].ms),
                             late |-> 0])
  /\ deadline' = Sooner(deadline, Due(plan[n].ms))
  /\ earliest' = Sooner(earliest, Due(plan[n].ms))
  /\ pc' = "check"
  /\ UNCHANGED result

AfterActions(n) == IF plan[n].final = "none" THEN "return" ELSE "observe"

(* Mutant: the deadline of a batch that broke off stays in force.          *)
ConcludeKeeping(s, code, receipts) ==
  /\ stack' = s
  /\ result' = Result(code, receipts, FALSE)
  /\ deadline' = IF code = "ok" THEN s[Len(s)].saved ELSE deadline
  /\ pc' = AfterActions(s[Len(s)].node)

(* The actions are over: the parent's deadline is restored.                *)
Conclude(s, code, receipts) ==
  /\ stack' = s
  /\ result' = Result(code, receipts, FALSE)
  /\ deadline' = s[Len(s)].saved
  /\ pc' = AfterActions(s[Len(s)].node)

(* Mutant: the receipts of a nested batch that failed are dropped.         *)
ToldWithoutData(top, code, inner, image) ==
  top.receipts \o (IF code = "ok" THEN inner ELSE <<>>)
    \o <<Receipt(top.at, code, image)>>

(* The receipts with the one of the action that just ended, whose data     *)
(* holds the receipts of a nested batch.                                   *)
Told(top, code, inner, image) ==
  top.receipts \o inner \o <<Receipt(top.at, code, image)>>

(* The current action of the innermost batch of s ended.                   *)
Settled(s, code, inner, image) ==
  LET k == Len(s)
      told == Told(s[k], code, inner, image)
  IN IF code = "ok"
     THEN /\ stack' = [s EXCEPT ![k].receipts = told,
                                ![k].at = plan[s[k].at].last + 1]
          /\ pc' = "check"
          /\ UNCHANGED <<deadline, result>>
     ELSE Conclude(s, code, told)

-----------------------------------------------------------------------------
(* The call.                                                               *)

(* Validation, frame and dynamic preflight of the whole tree.  The Python  *)
(* port can be cancelled while it does this, and asks before it begins.    *)
Refuse ==
  /\ pc = "entry"
  /\ pc' = "done"
  /\ \E code \in {"failed"} \cup (IF cancelled THEN {"cancelled"} ELSE {}) :
        result' = Result(code, <<>>, FALSE)
  /\ UNCHANGED <<env, cancelled, now, deadline, store, stack, ghosts>>

Admit ==
  /\ pc = "entry"
  /\ ~cancelled
  /\ Authorized(1)
  /\ Push(1)
  /\ UNCHANGED <<env, cancelled, now, store, ran, escaped>>

(* Mutant: one action too many.                                            *)
ActionsOverLate == Current > plan[Top.node].last + 1

ActionsOver == Current > plan[Top.node].last

(* The head of the loop.                                                   *)
Check ==
  /\ pc = "check"
  /\ CASE ActionsOver -> Conclude(stack, "ok", Top.receipts)
       [] ~ActionsOver /\ LoopCode # "none" ->
            Conclude(stack, LoopCode, Top.receipts)
       [] OTHER -> pc' = "preflight" /\ UNCHANGED <<deadline, stack, result>>
  /\ UNCHANGED <<env, cancelled, now, store, ghosts>>

(* frame_preflight and dynamic_preflight of one action: it passes, or it   *)
(* is refused and gets its receipt.                                        *)
Preflight ==
  /\ pc = "preflight"
  /\ \/ /\ Authorized(Current)
        /\ pc' = "dispatch"
        /\ UNCHANGED <<deadline, stack, result>>
     \/ /\ Inputs(Current) # {}
        /\ Settled(stack, "failed", <<>>, FALSE)
  /\ UNCHANGED <<env, cancelled, now, store, ghosts>>

(* In _batch that preflight is outside _dispatch_caught: an exception of   *)
(* the layout or the active window leaves the batch, and the handler       *)
(* around the whole batch answers without its receipts.                    *)
Escape ==
  /\ port = "python"
  /\ pc = "preflight"
  /\ Coordinates(Current) # {}
  /\ escaped' = (escaped \/ Top.receipts # <<>>)
  /\ result' = Result("failed", <<>>, FALSE)
  /\ deadline' = Top.saved
  /\ pc' = "return"
  /\ UNCHANGED <<env, cancelled, now, store, stack, ran, earliest>>

(* What a running batch should have stopped for.                           *)
Over(batch) == cancelled \/ now >= batch.due

(* dispatch; _dispatch asks for an interruption once more.                 *)
Dispatch ==
  /\ pc = "dispatch"
  /\ CASE port = "python" /\ Interrupted ->
            Settled(stack, Interruption, <<>>, FALSE) /\ UNCHANGED ghosts
       [] ~(port = "python" /\ Interrupted) /\ plan[Current].op = "batch" ->
            Push(Current) /\ UNCHANGED <<ran, escaped>>
       [] OTHER ->
            /\ pc' = "action"
            /\ stack' = [i \in DOMAIN stack |->
                           IF Over(stack[i])
                           THEN [stack[i] EXCEPT !.late = @ + 1]
                           ELSE stack[i]]
            /\ UNCHANGED <<deadline, result, ghosts>>
  /\ UNCHANGED <<env, cancelled, now, store>>

Ran(code) == ran' = Append(ran, Receipt(Current, code, FALSE))

(* An action ends by itself; a wait cannot fail.                           *)
ActionEnds ==
  /\ pc = "action"
  /\ plan[Current].op # "observe"
  /\ \E code \in {"ok", "failed"} :
        /\ plan[Current].op = "wait" => code = "ok"
        /\ Ran(code)
        /\ Settled(stack, code, <<>>, FALSE)
  /\ UNCHANGED <<env, cancelled, now, store, earliest, escaped>>

(* A new frame; or none, and the old one stays or is cleared.              *)
Observed(ok) ==
  IF ok
  THEN frame' = nextId /\ nextId' = nextId + 1
  ELSE frame' \in {frame, 0} /\ UNCHANGED nextId

ObserveEnds ==
  /\ pc = "action"
  /\ plan[Current].op = "observe"
  /\ \E code \in {"ok", "failed"} :
        /\ Observed(code = "ok")
        /\ Ran(code)
        /\ Settled(stack, code, <<>>, FALSE)
  /\ UNCHANGED <<env, cancelled, now, earliest, escaped>>

(* The probe of an input, or the poll of a wait, sees the interruption...  *)
Probe ==
  /\ pc = "action"
  /\ plan[Current].op \in {"input", "wait"}
  /\ Interrupted
  /\ pc' = "interrupted"
  /\ UNCHANGED <<env, cancelled, now, deadline, store, stack, result, ghosts>>

(* Mutant: only a stop is reported.                                        *)
ReportStop ==
  /\ pc = "interrupted"
  /\ cancelled
  /\ Ran("cancelled")
  /\ Settled(stack, "cancelled", <<>>, FALSE)
  /\ UNCHANGED <<env, cancelled, now, store, earliest, escaped>>

(* ... and when the helper is gone the action is reported.                 *)
Report ==
  /\ pc = "interrupted"
  /\ Ran(Interruption)
  /\ Settled(stack, Interruption, <<>>, FALSE)
  /\ UNCHANGED <<env, cancelled, now, store, earliest, escaped>>

(* final_observe, whatever the outcome of the actions.                     *)
FinalObserve ==
  /\ pc = "observe"
  /\ \E ok \in BOOLEAN :
        /\ Observed(ok)
        /\ result' = [result EXCEPT !.image =
                        ok /\ plan[Top.node].final = "image"]
  /\ pc' = "return"
  /\ UNCHANGED <<env, cancelled, now, deadline, stack, ghosts>>

(* The batch returns to the batch around it, or to the client.             *)
Return ==
  /\ pc = "return"
  /\ IF Len(stack) = 1
     THEN /\ pc' = "done"
          /\ stack' = <<>>
          /\ UNCHANGED <<deadline, result>>
     ELSE Settled(SubSeq(stack, 1, Len(stack) - 1), result.code,
                  result.receipts, result.image)
  /\ UNCHANGED <<env, cancelled, now, store, ghosts>>

Tick ==
  /\ pc # "done"
  /\ now < MaxTime
  /\ now' = now + 1
  /\ UNCHANGED <<env, cancelled, deadline, store, pc, stack, result, ghosts>>

Cancel ==
  /\ pc # "done"
  /\ pc = "entry" => port = "python"
  /\ ~cancelled
  /\ cancelled' = TRUE
  /\ UNCHANGED <<env, now, deadline, store, pc, stack, result, ghosts>>

Done == pc = "done" /\ UNCHANGED vars

Controller == Refuse \/ Admit \/ Check \/ Preflight \/ Escape \/ Dispatch
                \/ ActionEnds \/ ObserveEnds \/ Probe \/ Report \/ FinalObserve
                \/ Return
Next == Controller \/ Tick \/ Cancel \/ Done

Spec == Init /\ [][Next]_vars

(* The worker's thread runs, and every action it starts ends: reads time   *)
(* out, waits are at most a minute, and HelperInput bounds an input.       *)
FairSpec == Spec /\ WF_vars(Controller)

-----------------------------------------------------------------------------
(* Correctness.                                                            *)

Codes == {"none", "ok", "failed", "cancelled", "deadline_exceeded"}
Receipts == [node : DOMAIN plan, status : {"ok", "failed"}, image : BOOLEAN]
Batches == [node : DOMAIN plan, at : Nat, receipts : Seq(Receipts),
            saved : 0 .. Never, due : 0 .. Never, late : Nat]

(* Every variable keeps its shape; a batch that looks at its current       *)
(* action has one.                                                         *)
TypeOK ==
  /\ port \in Ports /\ plan \in Plans
  /\ cancelled \in BOOLEAN /\ now \in 0 .. MaxTime /\ deadline \in 0 .. Never
  /\ frame \in Nat /\ nextId \in Nat /\ frame < nextId
  /\ pc \in {"entry", "check", "preflight", "dispatch", "action", "interrupted",
             "observe", "return", "done"}
  /\ stack \in Seq(Batches)
  /\ pc \notin {"entry", "done"} => stack # <<>>
  /\ pc \in {"preflight", "dispatch", "action", "interrupted"} =>
        Current \in Top.node + 1 .. plan[Top.node].last
  /\ result \in [code : Codes, receipts : Seq(Receipts), image : BOOLEAN]
  /\ ran \in Seq(Receipts)
  /\ earliest \in 0 .. Never /\ escaped \in BOOLEAN

(* The deadline in force is the earliest one of the batches that are       *)
(* running their actions, whatever way the batches inside them ended.      *)
Running ==
  IF pc \in {"observe", "return"} THEN SubSeq(stack, 1, Len(stack) - 1) ELSE stack
DeadlineIsEarliest ==
  /\ \A i \in DOMAIN Running : deadline <= Running[i].due
  /\ deadline # Never => \E i \in DOMAIN Running : deadline = Running[i].due

(* After a stop, or after its deadline, a batch dispatches at most the one *)
(* action it had already cleared, nested ones included.                    *)
AtMostOneLate == \A i \in DOMAIN stack : stack[i].late <= 1

(* An input is dispatched on the frame that is stored at that moment,      *)
(* although observations of the same batch have replaced the one the       *)
(* request was admitted on.                                                *)
DispatchedFresh ==
  pc \in {"action", "interrupted"} =>
    \A m \in Coordinates(Current) : plan[m].id = frame

(* The receipts of actions, as against those of nested batches, stand in   *)
(* the order of the request.                                               *)
OfAction(r) == plan[r.node].op # "batch"
Among(r, receipts) == \E i \in DOMAIN receipts : receipts[i] = r
Increasing(receipts) ==
  \A i, j \in DOMAIN receipts :
    i < j /\ OfAction(receipts[i]) /\ OfAction(receipts[j])
      => receipts[i].node < receipts[j].node
LastOfActions(i, receipts) ==
  \A j \in DOMAIN receipts : OfAction(receipts[j]) => j <= i

(* The answer's receipts, nested ones included, are those of the actions   *)
(* that were dispatched, in that order and with that outcome; a further    *)
(* one, at the end, says which action was refused.                         *)
Tells ==
  /\ Increasing(ran) /\ Increasing(result.receipts)
  /\ \A k \in DOMAIN ran : Among(ran[k], result.receipts)
  /\ \A i \in DOMAIN result.receipts : OfAction(result.receipts[i]) =>
       \/ Among(result.receipts[i], ran)
       \/ result.receipts[i].status = "failed" /\ LastOfActions(i, result.receipts)

(* No receipt of an executed action is lost on any way out of a batch,     *)
(* except when an exception escapes _batch itself.                         *)
ReceiptsTell == pc = "done" => Tells \/ escaped

(* _dispatch_caught's docstring: "a backend exception cannot escape and    *)
(* discard receipts already earned by earlier actions."                    *)
ReceiptsKept == pc = "done" => Tells

(* The outcome is true: complete means every action ran and succeeded,     *)
(* cancelled that the client asked for it, and deadline_exceeded that some *)
(* deadline of the call has passed.                                        *)
Leaves == {n \in DOMAIN plan : plan[n].op # "batch"}
OutcomeTrue ==
  pc = "done" =>
    /\ result.code = "ok" =>
          /\ {ran[i].node : i \in DOMAIN ran} = Leaves
          /\ \A i \in DOMAIN ran : ran[i].status = "ok"
    /\ result.code = "cancelled" => cancelled
    /\ result.code = "deadline_exceeded" => earliest <= now

(* A batch's answer is true of what it did, and of why it ended.           *)
AnswerTrue == ReceiptsTell /\ OutcomeTrue

(* docs/protocol/observation-batching.md: "Return no more than one image   *)
(* per batch request" and "Keep image bytes out of receipts and logs."     *)
NoImageInReceipts ==
  \A i \in DOMAIN result.receipts : ~result.receipts[i].image

(* Every batch call is answered.                                           *)
BatchEnds == <>(pc = "done")
=============================================================================
