------------------------------ MODULE McpServer ------------------------------
(***************************************************************************)
(* The Rust stdio service: run_stdio's reader thread and worker thread,    *)
(* the channel between them, and the CancellationHandle they share         *)
(* (src/desktop/rust/src/mcp.rs, src/desktop/rust/src/controller.rs).      *)
(*                                                                         *)
(* The reader takes one line at a time.  It answers protocol lines itself, *)
(* applies cancellation notifications and `stop' directly to the handle,   *)
(* and passes every other tools/call to the worker through a bounded       *)
(* channel that it never blocks on.  The worker serves one call at a time: *)
(* validation and preflight, then begin, the command's own work, finish,   *)
(* and the response.  A line is known by its position in the input: two    *)
(* lines may carry the same JSON-RPC id, and the server compares only ids. *)
(***************************************************************************)
EXTENDS Naturals, Sequences

CONSTANTS
  Ids,        \* JSON-RPC ids a client uses
  NoId,       \* the absent id: a notification
  Gens,       \* generations a cancellation may name
  Capacity,   \* slots of the channel: sync_channel(1)
  MaxLines,   \* bound on the lines a client sends
  MaxSteps    \* bound on the primitives of one command (see Step)

ASSUME ServerAssumption ==
  /\ NoId \notin Ids
  /\ Gens \subseteq Nat \ {0}
  /\ Capacity \in Nat \ {0}
  /\ MaxLines \in Nat
  /\ MaxSteps \in Nat \ {0}

VARIABLES
  log,      \* the lines read so far
  piped,    \* the client still reads stdout: a write succeeds
  rpc,      \* control point of the reader thread
  rreply,   \* the response the reader is about to write
  queue,    \* the channel: positions of the calls sent and not yet received
  wpc,      \* control point of the worker thread
  wcall,    \* position of the call the worker holds
  wtoken,   \* the token it began with, known by its generation
  wfrom,    \* lines read when that call began
  wto,      \* lines read when its outcome was decided
  wsteps,   \* primitives that call has executed: native inputs and the like
  wlate,    \* those that ended after the reader took a line aimed at it
  woutcome, \* its outcome
  active,   \* CancellationHandle.active
  nextGen,  \* CancellationHandle.next_generation
  replies   \* what has been written to stdout

readerVars == <<rpc, rreply>>
workVars   == <<wcall, wtoken, wfrom, wto, wsteps, wlate, woutcome>>
handleVars == <<active, nextGen>>
vars == <<log, piped, readerVars, queue, wpc, workVars, handleVars, replies>>

-----------------------------------------------------------------------------
(* A cancellation may omit its generation, and then matches any.           *)
AnyGen == 0

(* What the server tells apart in a line: a tools/call and its id; a       *)
(* cancellation; a stop call, with an id to answer or without; and every   *)
(* other line that gets a response.                                        *)

Lines ==
  [kind : {"call"}, id : Ids \cup {NoId}]
    \cup [kind : {"cancel"}, id : Ids, gen : Gens \cup {AnyGen}]
    \cup [kind : {"stop"}, answer : BOOLEAN]
    \cup [kind : {"plain"}]

Outcomes == {"none", "done", "cancelled", "refused"}
ReplyKinds == {"done", "cancelled", "refused", "busy", "plain", "stopped", "idle"}

(* The empty Option<ActiveCancellation>: begin never issues generation 0.  *)
NoActive == [id |-> NoId, gen |-> 0, cancelled |-> FALSE]
IsActive == active.gen # 0

(* A response, with the token and the window of input lines (from, to] of  *)
(* the call it answers; the reader's own responses have an empty window.   *)
Reply(n, kind, gen, from, to) ==
  [line |-> n, kind |-> kind, gen |-> gen, from |-> from, to |-> to]
NoReply == Reply(0, "plain", 0, 0, 0)

Init ==
  /\ log = <<>>
  /\ piped = TRUE
  /\ rpc = "read"
  /\ rreply = NoReply
  /\ queue = <<>>
  /\ wpc = "recv"
  /\ wcall = 0 /\ wtoken = 0 /\ wfrom = 0 /\ wto = 0 /\ wsteps = 0 /\ wlate = 0
  /\ woutcome = "none"
  /\ active = NoActive
  /\ nextGen = 0
  /\ replies = <<>>

-----------------------------------------------------------------------------
(* The handle.                                                             *)

(* Mutant: `stop' empties the slot and leaves the token it held unset.     *)
CancelledByClearing == NoActive

(* cancel(): set the active token, whoever owns it.                        *)
Cancelled == IF IsActive THEN [active EXCEPT !.cancelled = TRUE] ELSE active

(* Mutant: the generation of a cancellation is not compared.               *)
CancelledRequestById(id, gen) ==
  IF IsActive /\ active.id = id
  THEN [active EXCEPT !.cancelled = TRUE]
  ELSE active

(* cancel_request(id, gen): the same, only when both match.                *)
CancelledRequest(id, gen) ==
  IF IsActive /\ active.id = id /\ gen \in {AnyGen, active.gen}
  THEN [active EXCEPT !.cancelled = TRUE]
  ELSE active

(* begin(id): a fresh token under a new generation.                        *)
Begun(id) == [id |-> id, gen |-> nextGen + 1, cancelled |-> FALSE]

(* Mutant: nothing clears the slot.                                        *)
FinishedNever(token) == active

(* finish(token): clears the slot when it still holds that token.          *)
Finished(token) == IF active.gen = token THEN NoActive ELSE active

(* The lines that aim at a call: any stop request, and a cancellation that *)
(* names its id and, if it names one, its generation.                      *)
Aimed(line, id, gen) ==
  \/ line.kind = "stop" /\ line.answer
  \/ line.kind = "cancel" /\ line.id = id /\ line.gen \in {AnyGen, gen}

AimedBetween(from, to, id, gen) ==
  \E k \in from + 1 .. to : Aimed(log[k], id, gen)

-----------------------------------------------------------------------------
(* The reader thread.                                                      *)

Read(line) ==
  /\ rpc = "read"
  /\ Len(log) < MaxLines
  /\ log' = Append(log, line)

(* Mutant: the position before the line is appended.                       *)
PositionBefore == Len(log)

Position == Len(log) + 1

ReaderAnswers(kind) ==
  /\ rreply' = Reply(Position, kind, 0, 0, 0)
  /\ rpc' = "write"

(* notifications/cancelled: applied at once, never answered.               *)
ReadCancel ==
  \E line \in Lines :
    /\ line.kind = "cancel"
    /\ Read(line)
    /\ active' = CancelledRequest(line.id, line.gen)
    /\ UNCHANGED <<piped, readerVars, queue, wpc, workVars, nextGen, replies>>

(* A stop request: applied without the controller's lock, then answered    *)
(* with whether there was an active call.  Without an id, handle_line      *)
(* returns before it looks at the method.                                  *)
ReadStop ==
  \E line \in Lines :
    /\ line.kind = "stop"
    /\ Read(line)
    /\ IF line.answer
       THEN /\ active' = Cancelled
            /\ ReaderAnswers(IF IsActive THEN "stopped" ELSE "idle")
       ELSE UNCHANGED <<active, readerVars>>
    /\ UNCHANGED <<piped, queue, wpc, workVars, nextGen, replies>>

(* Mutant: a call the channel is full for is queued all the same.          *)
ReadCallQueuesBusy ==
  \E line \in Lines :
    /\ line.kind = "call"
    /\ Read(line)
    /\ queue' = Append(queue, Position)
    /\ IF Len(queue) < Capacity THEN UNCHANGED readerVars ELSE ReaderAnswers("busy")
    /\ UNCHANGED <<piped, wpc, workVars, handleVars, replies>>

(* try_send: the channel takes the call, is full (an error response, even  *)
(* for a call without an id), or has lost its receiver (the loop ends).    *)
ReadCall ==
  \E line \in Lines :
    /\ line.kind = "call"
    /\ Read(line)
    /\ \/ /\ wpc # "dead"
          /\ Len(queue) < Capacity
          /\ queue' = Append(queue, Position)
          /\ UNCHANGED readerVars
       \/ /\ wpc # "dead"
          /\ Len(queue) >= Capacity
          /\ ReaderAnswers("busy")
          /\ UNCHANGED queue
       \/ /\ wpc = "dead"
          /\ rpc' = "closed"
          /\ UNCHANGED <<rreply, queue>>
    /\ UNCHANGED <<piped, wpc, workVars, handleVars, replies>>

(* Every other request, and a line that is not a request at all.           *)
ReadPlain ==
  \E line \in Lines :
    /\ line.kind = "plain"
    /\ Read(line)
    /\ ReaderAnswers("plain")
    /\ UNCHANGED <<piped, queue, wpc, workVars, handleVars, replies>>

(* write_line(..)? in the reader: on an error run_stdio returns at once.   *)
ReaderWrite ==
  /\ rpc = "write"
  /\ IF piped
     THEN /\ replies' = Append(replies, rreply)
          /\ rreply' = NoReply
          /\ rpc' = "read"
     ELSE /\ rpc' = "failed"
          /\ UNCHANGED <<replies, rreply>>
  /\ UNCHANGED <<log, piped, queue, wpc, workVars, handleVars>>

(* End of input: the sender is dropped.                                    *)
ReadEof ==
  /\ rpc = "read"
  /\ rpc' = "closed"
  /\ UNCHANGED <<log, piped, rreply, queue, wpc, workVars, handleVars, replies>>

(* read_limited_line(..)? : an I/O error on stdin.                         *)
ReadError ==
  /\ rpc = "read"
  /\ rpc' = "failed"
  /\ UNCHANGED <<log, piped, rreply, queue, wpc, workVars, handleVars, replies>>

(* worker.join() after the sender is dropped.                              *)
Join ==
  /\ rpc = "closed"
  /\ wpc \in {"dead", "ended"}
  /\ rpc' = "exited"
  /\ UNCHANGED <<log, piped, rreply, queue, wpc, workVars, handleVars, replies>>

(* run_stdio returned early: the process exits and takes the worker along, *)
(* wherever it is.                                                         *)
Exit ==
  /\ rpc = "failed"
  /\ rpc' = "exited"
  /\ UNCHANGED <<log, piped, rreply, queue, wpc, workVars, handleVars, replies>>

-----------------------------------------------------------------------------
(* The worker thread.                                                      *)

Alive == rpc # "exited"

(* receiver.recv()                                                         *)
Receive ==
  /\ Alive
  /\ wpc = "recv"
  /\ queue # <<>>
  /\ wpc' = "accepted"
  /\ wcall' = Head(queue)
  /\ queue' = Tail(queue)
  /\ wtoken' = 0 /\ wfrom' = 0 /\ wto' = 0 /\ woutcome' = "none"
  /\ UNCHANGED <<log, piped, readerVars, wsteps, wlate, handleVars, replies>>

(* Mutant: the sender is dropped after the join, not before.               *)
WorkerEndsAfterJoin ==
  /\ wpc = "recv"
  /\ queue = <<>>
  /\ rpc = "exited"
  /\ wpc' = "ended"
  /\ UNCHANGED <<log, piped, readerVars, queue, workVars, handleVars, replies>>

(* Mutant: the worker ends with its sender, whatever the channel holds.    *)
WorkerEndsEarly ==
  /\ wpc = "recv"
  /\ rpc = "closed"
  /\ wpc' = "ended"
  /\ UNCHANGED <<log, piped, readerVars, queue, workVars, handleVars, replies>>

(* The channel is empty and its sender is gone.                            *)
WorkerEnds ==
  /\ wpc = "recv"
  /\ queue = <<>>
  /\ rpc = "closed"
  /\ wpc' = "ended"
  /\ UNCHANGED <<log, piped, readerVars, queue, workVars, handleVars, replies>>

(* A call without an id: handle_line returns None.                         *)
Ignore ==
  /\ Alive
  /\ wpc = "accepted"
  /\ log[wcall].id = NoId
  /\ wpc' = "recv"
  /\ UNCHANGED <<log, piped, readerVars, queue, workVars, handleVars, replies>>

(* call_tool's argument checks, validation, frame and dynamic preflight:   *)
(* an error before begin.                                                  *)
Refuse ==
  /\ Alive
  /\ wpc = "accepted"
  /\ log[wcall].id # NoId
  /\ wpc' = "reply"
  /\ woutcome' = "refused"
  /\ UNCHANGED <<log, piped, readerVars, queue, wcall, wtoken, wfrom, wto,
                 wsteps, wlate, handleVars, replies>>

(* Every check passed: begin, then dispatch.  Inputs, wait and batch look  *)
(* at their token; observe, the reads, focus_app, launch and doctor never  *)
(* do.                                                                     *)
Begin ==
  /\ Alive
  /\ wpc = "accepted"
  /\ log[wcall].id # NoId
  /\ active' = Begun(log[wcall].id)
  /\ nextGen' = nextGen + 1
  /\ wtoken' = nextGen + 1
  /\ wfrom' = Len(log)
  /\ wpc' \in {"probe", "blind"}
  /\ UNCHANGED <<log, piped, readerVars, queue, wcall, wto, wsteps, wlate,
                 woutcome, replies>>

(* Mutant: any `stop' of the session, however old, ends a command.         *)
SettleSticky(outcome) ==
  /\ woutcome' = IF \E k \in DOMAIN log : log[k].kind = "stop"
                 THEN "cancelled"
                 ELSE outcome
  /\ wto' = Len(log)
  /\ wpc' = "finish"

Settle(outcome) ==
  /\ woutcome' = outcome
  /\ wto' = Len(log)
  /\ wpc' = "finish"

(* Mutant: the token is looked at before the first primitive only.         *)
ProbeOnce ==
  /\ Alive
  /\ wpc = "probe"
  /\ IF active.cancelled /\ wsteps = 0
     THEN Settle("cancelled")
     ELSE /\ wpc' = "step"
          /\ UNCHANGED <<woutcome, wto>>
  /\ UNCHANGED <<log, piped, readerVars, queue, wcall, wtoken, wfrom, wsteps,
                 wlate, handleVars, replies>>

(* The token is looked at before a primitive: by input() before it spawns  *)
(* the helper, by wait before it sleeps, by batch before an action.        *)
Probe ==
  /\ Alive
  /\ wpc = "probe"
  /\ IF active.cancelled
     THEN Settle("cancelled")
     ELSE /\ wpc' = "step"
          /\ UNCHANGED <<woutcome, wto>>
  /\ UNCHANGED <<log, piped, readerVars, queue, wcall, wtoken, wfrom, wsteps,
                 wlate, handleVars, replies>>

(* One primitive: one native input, from the helper's start to its end; a  *)
(* sleep of wait; or an action of a batch that does not look at the token  *)
(* itself.  What the helper posts within an input is HelperInput's: it is  *)
(* polled every 10 ms and may be cut short there.                          *)
Step ==
  /\ Alive
  /\ wpc = "step"
  /\ wsteps' = wsteps + 1
  /\ wlate' = IF AimedBetween(wfrom, Len(log), log[wcall].id, wtoken)
              THEN wlate + 1
              ELSE wlate
  /\ \/ /\ wsteps + 1 < MaxSteps
        /\ wpc' = "probe"
        /\ UNCHANGED <<woutcome, wto>>
     \/ Settle("done")
     \/ active.cancelled /\ Settle("cancelled")
  /\ UNCHANGED <<log, piped, readerVars, queue, wcall, wtoken, wfrom, handleVars,
                 replies>>

(* The work of a command that never looks at its token: no line shortens   *)
(* it, and it has no primitives to count.                                  *)
WorkBlind ==
  /\ Alive
  /\ wpc = "blind"
  /\ Settle("done")
  /\ UNCHANGED <<log, piped, readerVars, queue, wcall, wtoken, wfrom, wsteps,
                 wlate, handleVars, replies>>

(* After dispatch returned; the count of its primitives is over.           *)
Finish ==
  /\ Alive
  /\ wpc = "finish"
  /\ active' = Finished(wtoken)
  /\ wpc' = "reply"
  /\ wsteps' = 0 /\ wlate' = 0
  /\ UNCHANGED <<log, piped, readerVars, queue, wcall, wtoken, wfrom, wto, woutcome,
                 nextGen, replies>>

(* Mutant: the response goes to the line read last.                        *)
WorkerWriteToLatest ==
  /\ Alive
  /\ wpc = "reply"
  /\ piped
  /\ replies' = Append(replies, Reply(Len(log), woutcome, wtoken, wfrom, wto))
  /\ wpc' = "recv"
  /\ UNCHANGED <<log, piped, readerVars, queue, workVars, handleVars>>

(* write_line in the worker: on an error the worker thread ends and the    *)
(* channel loses its receiver, with whatever it still holds.               *)
WorkerWrite ==
  /\ Alive
  /\ wpc = "reply"
  /\ IF piped
     THEN /\ replies' = Append(replies, Reply(wcall, woutcome, wtoken, wfrom, wto))
          /\ wpc' = "recv"
     ELSE /\ wpc' = "dead"
          /\ UNCHANGED replies
  /\ UNCHANGED <<log, piped, readerVars, queue, workVars, handleVars>>

-----------------------------------------------------------------------------
(* The client stops reading the server's output.                           *)
CloseOutput ==
  /\ piped
  /\ piped' = FALSE
  /\ UNCHANGED <<log, readerVars, queue, wpc, workVars, handleVars, replies>>

(* The process is gone: the only state with nothing left to do.            *)
Terminated ==
  /\ rpc = "exited"
  /\ UNCHANGED vars

Reader == ReadCancel \/ ReadStop \/ ReadCall \/ ReadPlain \/ ReaderWrite
            \/ ReadEof \/ ReadError \/ Join \/ Exit
Worker == Receive \/ WorkerEnds \/ Ignore \/ Refuse \/ Begin \/ Probe \/ Step
            \/ WorkBlind \/ Finish \/ WorkerWrite
Next == Reader \/ Worker \/ CloseOutput \/ Terminated

Spec == Init /\ [][Next]_vars

(* The operating system keeps running both threads, every command returns  *)
(* (InputReturns, CommandEnds, BatchEnds), and a write to stdout returns   *)
(* or fails.  Nothing obliges the client to send a line, to end its input  *)
(* or to close its output.                                                 *)
Fairness ==
  /\ WF_vars(Worker)
  /\ WF_vars(ReaderWrite)
  /\ WF_vars(Join)
  /\ WF_vars(Exit)
FairSpec == Spec /\ Fairness

-----------------------------------------------------------------------------
(* Correctness.                                                            *)

Positions == 1 .. Len(log)
RepliesType ==
  [line : Nat, kind : ReplyKinds, gen : Nat, from : Nat, to : Nat]

(* Every variable has the shape the two threads rely on; in particular the *)
(* channel and the worker only ever hold positions of tools/call lines,    *)
(* which is what lets the worker index the input with them.                *)
TypeOK ==
  /\ log \in Seq(Lines)
  /\ piped \in BOOLEAN
  /\ rpc \in {"read", "write", "closed", "failed", "exited"}
  /\ rreply \in RepliesType
  /\ queue \in Seq(Nat)
  /\ Len(queue) <= Capacity
  /\ \A i \in DOMAIN queue :
        queue[i] \in Positions /\ log[queue[i]].kind = "call"
  /\ wpc \in {"recv", "accepted", "probe", "step", "blind", "finish", "reply",
              "dead", "ended"}
  /\ wcall \in Nat
  /\ wpc \in {"accepted", "probe", "step", "blind", "finish", "reply", "dead"} =>
        /\ wcall \in Positions
        /\ log[wcall].kind = "call"
  /\ wtoken \in Nat /\ wfrom \in Nat /\ wto \in Nat
  /\ wsteps \in Nat /\ wlate \in Nat
  /\ woutcome \in Outcomes
  /\ active \in [id : Ids \cup {NoId}, gen : Nat, cancelled : BOOLEAN]
  /\ nextGen \in Nat
  /\ replies \in Seq(RepliesType)

(* The slot and the worker agree: the handle holds a token exactly while a *)
(* command runs, and it is that command's (begin, finish).  This is what   *)
(* the answer of `stop' and the match of cancel_request rely on.           *)
Serving == wpc \in {"probe", "step", "blind", "finish"}
HandleOwned ==
  /\ Serving <=> IsActive
  /\ Serving => active.gen = wtoken /\ active.id = log[wcall].id

(* No line aimed at the running command is lost and no other is heard: its *)
(* token is set if and only if the reader took such a line since its begin *)
(* (cancel and cancel_request against begin and finish on two threads).    *)
TokenExact ==
  wpc \in {"probe", "step", "blind"} =>
    /\ wfrom <= Len(log)
    /\ active.cancelled <=> AimedBetween(wfrom, Len(log), log[wcall].id, wtoken)

(* The handle is exact: whose token it holds, and whether that is set, are *)
(* at every moment what the lines taken since begin make them.             *)
HandleExact == HandleOwned /\ TokenExact

(* Cancellation is request-scoped: a call is answered `cancelled' only if, *)
(* between its begin and the moment its outcome was decided, the reader    *)
(* took a stop or a cancellation naming that very call.  A line meant for  *)
(* an earlier call, a queued one or a reused id cannot poison it           *)
(* (CancellationHandle::begin, cancel_request, finish).                    *)
CancelScoped ==
  \A i \in DOMAIN replies :
    LET r == replies[i] IN
    r.kind = "cancelled" => AimedBetween(r.from, r.to, log[r.line].id, r.gen)

(* Cancellation is prompt: once a line aimed at the running call has been  *)
(* taken, at most the one native input, sleep or batch action it had been  *)
(* cleared for still runs, if only in part; no further one is started      *)
(* (input, wait and batch look at the token before each).  How the helper  *)
(* stops within that input is HelperInput's StopsPrompt and InputReturns.  *)
CancelPrompt == wlate <= 1

(* A line of input is answered at most once, by one of the two threads     *)
(* (run_stdio's reader and worker both write responses).                   *)
OneReplyPerLine ==
  \A i, j \in DOMAIN replies : replies[i].line = replies[j].line => i = j

(* The calls the worker answers are answered in the order they were read.  *)
InOrder ==
  \A i, j \in DOMAIN replies :
    /\ i < j
    /\ replies[i].kind \in Outcomes
    /\ replies[j].kind \in Outcomes
    => replies[i].line < replies[j].line

(* Two threads write, and still every line has one response and calls have *)
(* theirs in order.                                                        *)
AnsweredInOrder == OneReplyPerLine /\ InOrder

(* Every request the channel accepted is answered, unless the client stops *)
(* reading or run_stdio returns early on an I/O error.  The end of the     *)
(* input excuses nothing: the worker drains the channel before join        *)
(* returns.                                                                *)
Answered(n) == \E i \in DOMAIN replies : replies[i].line = n
Accepted(n) ==
  /\ \E i \in DOMAIN queue : queue[i] = n
  /\ log[n].id # NoId
EveryCallAnswered ==
  \A n \in 1 .. MaxLines :
    Accepted(n) /\ rpc # "exited" ~> (Answered(n) \/ ~piped \/ rpc = "failed")

(* A session whose input ends, or whose I/O fails, terminates: reader and  *)
(* worker never wait for each other, also when the worker has died.        *)
ShutsDown == (rpc \in {"closed", "failed"}) ~> (rpc = "exited")

-----------------------------------------------------------------------------
(* The service implements CallLifecycle.                                   *)

Holding(n) ==
  /\ n = wcall
  /\ wpc \in {"accepted", "probe", "step", "blind", "finish", "reply", "dead"}

HeldStage ==
  CASE wpc = "accepted" -> "waiting"
    [] wpc \in {"probe", "step", "blind"} ->
         IF active.cancelled THEN "stopping" ELSE "running"
    [] OTHER -> woutcome

InChannel(n) == \E i \in DOMAIN queue : queue[i] = n
AnswerOf(n) == CHOOSE i \in DOMAIN replies : replies[i].line = n
AnswerStage(kind) == IF kind = "busy" THEN "rejected" ELSE kind

(* A call is in one place only, or nowhere any more.                       *)
CallStage(n) ==
  CASE InChannel(n) -> "waiting"
    [] Holding(n) -> HeldStage
    [] rreply.line = n -> "rejected"
    [] Answered(n) -> AnswerStage(replies[AnswerOf(n)].kind)
    [] OTHER -> "ignored"

Stage(n) ==
  IF n > Len(log) THEN "unread"
  ELSE IF log[n].kind # "call" THEN "protocol"
  ELSE CallStage(n)

Lifecycle == INSTANCE CallLifecycle WITH
  stage <- [n \in 1 .. MaxLines |-> Stage(n)],
  told <- {n \in 1 .. MaxLines : Answered(n)}

(* Whatever the interleaving of reader, worker and client, a client sees   *)
(* the life of each line that CallLifecycle describes.                     *)
ImplementsLifecycle == Lifecycle!Spec
=============================================================================
