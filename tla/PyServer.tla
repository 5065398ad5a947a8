------------------------------- MODULE PyServer -------------------------------
(***************************************************************************)
(* The Python stdio service: McpServer.run's reader, the executor with its *)
(* one thread and the futures between them (src/desktop/mcp_server.py),    *)
(* and the active call of the controller (src/desktop/controller.py,       *)
(* command and request_cancel).                                            *)
(*                                                                         *)
(* The reader applies cancellations and `stop' itself and submits every    *)
(* other line to the executor, whose queue has no bound.  It then attaches *)
(* a callback to the line's future: the executor writes the response when  *)
(* the future resolves, unless that was before, and then the reader does.  *)
(* Lines are known by their position, as in McpServer.                     *)
(***************************************************************************)
EXTENDS Naturals, Sequences

CONSTANTS
  Ids,        \* JSON-RPC ids a client uses
  NullId,     \* the id null: a request, and in a cancellation any call
  NoId,       \* no id: a notification
  Gens,       \* generations a cancellation may name
  MaxLines,   \* bound on the lines a client sends
  MaxSteps    \* bound on the primitives of one command

ASSUME PyServerAssumption ==
  /\ NullId \notin Ids /\ NoId \notin Ids \cup {NullId}
  /\ Gens \subseteq Nat \ {0}
  /\ MaxLines \in Nat
  /\ MaxSteps \in Nat \ {0}

VARIABLES
  log,      \* the lines read so far
  piped,    \* the client still reads stdout: a write succeeds
  rpc,      \* control point of the reader
  rreply,   \* the response of the `stop' it is about to write
  tasks,    \* the executor's queue: positions of the lines submitted
  futures,  \* per line, the result of its future
  wpc,      \* control point of the executor's thread
  wcall,    \* position of the line it works on
  wtoken,   \* _active_generation of its command
  wfrom,    \* lines read when that command was registered
  wto,      \* lines read when its outcome was decided
  wsteps,   \* primitives it has executed
  wlate,    \* those it executed after the reader took a line aimed at it
  woutcome, \* its outcome
  active,   \* the controller's active id, generation and event
  nextGen,  \* _active_generation of the last command
  replies   \* what has been written to stdout

readerVars == <<rpc, rreply>>
callVars   == <<wtoken, wfrom, wto, wsteps, wlate, woutcome>>
workVars   == <<wpc, wcall, callVars>>
activeVars == <<active, nextGen>>
vars == <<log, piped, readerVars, tasks, futures, workVars, activeVars, replies>>

-----------------------------------------------------------------------------
AnyGen == 0

(* What the server tells apart in a line: a tools/call; a cancellation;    *)
(* a stop call that stops, is refused for its arguments, or is dropped for *)
(* want of an id; a call of `desktop' whose arguments are no object, with  *)
(* an id to answer or without; and every other request.  A notification    *)
(* the executor gets is like a call without an id.                         *)
Lines ==
  [kind : {"call"}, id : Ids \cup {NullId, NoId}]
    \cup [kind : {"cancel"}, id : Ids \cup {NullId}, gen : Gens \cup {AnyGen}]
    \cup [kind : {"stop"}, fate : {"stops", "refused", "dropped"}]
    \cup [kind : {"odd"}, answer : BOOLEAN]
    \cup [kind : {"plain"}]

Outcomes == {"done", "cancelled", "refused"}
Results == Outcomes \cup {"plain", "nothing", "pending"}
ReplyKinds == Outcomes \cup {"plain", "stopped", "idle"}

NoActive == [id |-> NoId, gen |-> 0, cancelled |-> FALSE]
IsActive == active.gen # 0

(* What a line comes to: a result, and of a command its generation and the *)
(* window of input lines (from, to] in which it could be cancelled.        *)
Result(kind, gen, from, to) == [kind |-> kind, gen |-> gen, from |-> from, to |-> to]
Plainly(kind) == Result(kind, 0, 0, 0)
Pending == Plainly("pending")
Reply(n, result) == [line |-> n, result |-> result]

Init ==
  /\ log = <<>> /\ piped = TRUE
  /\ rpc = "read" /\ rreply = "plain"
  /\ tasks = <<>> /\ futures = <<>>
  /\ wpc = "idle" /\ wcall = 0
  /\ wtoken = 0 /\ wfrom = 0 /\ wto = 0 /\ wsteps = 0 /\ wlate = 0
  /\ woutcome = "pending"
  /\ active = NoActive /\ nextGen = 0
  /\ replies = <<>>

-----------------------------------------------------------------------------
(* The controller's active call.                                           *)

(* Mutant: the id is not compared.                                         *)
MatchesGen(id, gen) == gen \in {AnyGen, active.gen}

(* request_cancel's comparisons: None matches anything.                    *)
Matches(id, gen) == id \in {NullId, active.id} /\ gen \in {AnyGen, active.gen}

RequestCancel(id, gen) ==
  IF IsActive /\ Matches(id, gen)
  THEN [active EXCEPT !.cancelled = TRUE]
  ELSE active

(* The lines that aim at a call of this id and generation.                 *)
Aimed(line, id, gen) ==
  \/ line.kind = "stop" /\ line.fate = "stops"
  \/ line.kind = "cancel" /\ line.id \in {NullId, id} /\ line.gen \in {AnyGen, gen}

AimedBetween(from, to, id, gen) ==
  \E k \in from + 1 .. to : Aimed(log[k], id, gen)

-----------------------------------------------------------------------------
(* The reader.                                                             *)

Write(n, result) == replies' = IF piped THEN Append(replies, Reply(n, result)) ELSE replies

Read(line, result) ==
  /\ rpc = "read"
  /\ Len(log) < MaxLines
  /\ log' = Append(log, line)
  /\ futures' = Append(futures, result)

ReadCancel ==
  \E line \in Lines :
    /\ line.kind = "cancel"
    /\ Read(line, Plainly("nothing"))
    /\ active' = RequestCancel(line.id, line.gen)
    /\ UNCHANGED <<piped, readerVars, tasks, workVars, nextGen, replies>>

(* A stop call never takes the command lock.  Without an id it is dropped, *)
(* and with bad arguments it is answered by an error.                      *)
ReadStop ==
  \E line \in Lines :
    /\ line.kind = "stop"
    /\ Read(line, Plainly("nothing"))
    /\ active' = IF line.fate = "stops"
                 THEN RequestCancel(NullId, AnyGen)
                 ELSE active
    /\ IF line.fate = "dropped"
       THEN UNCHANGED readerVars
       ELSE /\ rreply' = CASE line.fate = "refused" -> "plain"
                           [] line.fate = "stops" /\ IsActive -> "stopped"
                           [] OTHER -> "idle"
            /\ rpc' = "write"
    /\ UNCHANGED <<piped, tasks, workVars, nextGen, replies>>

(* _is_stop_request asks the arguments for their command outside its try:  *)
(* arguments that are no object raise out of run()'s loop before anything  *)
(* is submitted.  The with block still waits for the executor; close() is  *)
(* skipped.                                                                *)
ReadOdd ==
  \E line \in Lines :
    /\ line.kind = "odd"
    /\ Read(line, Plainly("nothing"))
    /\ rpc' = "closing"
    /\ UNCHANGED <<piped, rreply, tasks, workVars, activeVars, replies>>

(* Mutant: the position of the line before.                                *)
PositionBefore == Len(log)

Position == Len(log) + 1

(* executor.submit                                                         *)
Submit ==
  \E line \in Lines :
    /\ line.kind \in {"call", "plain"}
    /\ Read(line, Pending)
    /\ tasks' = Append(tasks, Position)
    /\ rpc' = "attach"
    /\ UNCHANGED <<piped, rreply, workVars, activeVars, replies>>

(* Mutant: the executor is sure to find the callback in place.             *)
AttachedAlways(n) == TRUE

(* The reader has attached the callback to the future of line n.           *)
Attached(n) == ~(rpc = "attach" /\ n = Len(log))

(* Mutant: a future that has resolved by then is forgotten.                *)
AttachForgets ==
  /\ rpc = "attach"
  /\ rpc' = "read"
  /\ UNCHANGED <<log, piped, rreply, tasks, futures, workVars, activeVars, replies>>

(* emit: nothing to write without a response; a write that fails is        *)
(* swallowed by the future's machinery.                                    *)
Emit(n) ==
  IF futures[n].kind = "nothing"
  THEN UNCHANGED replies
  ELSE Write(n, futures[n])

(* add_done_callback: it calls emit at once if the future has resolved.    *)
Attach ==
  /\ rpc = "attach"
  /\ rpc' = "read"
  /\ IF futures[Len(log)] = Pending THEN UNCHANGED replies ELSE Emit(Len(log))
  /\ UNCHANGED <<log, piped, rreply, tasks, futures, workVars, activeVars>>

(* The response of `stop'; a failing write leaves the loop as an exception.*)
ReaderWrite ==
  /\ rpc = "write"
  /\ Write(Len(log), Plainly(rreply))
  /\ rpc' = IF piped THEN "read" ELSE "closing"
  /\ UNCHANGED <<log, piped, rreply, tasks, futures, workVars, activeVars>>

(* End of input, or an error while reading it: the executor's with block   *)
(* is left, and shutdown(wait=True) waits for the thread.                  *)
ReadEnds ==
  /\ rpc = "read"
  /\ rpc' = "closing"
  /\ UNCHANGED <<log, piped, rreply, tasks, futures, workVars, activeVars, replies>>

Join ==
  /\ rpc = "closing"
  /\ wpc = "ended"
  /\ rpc' = "exited"
  /\ UNCHANGED <<log, piped, rreply, tasks, futures, workVars, activeVars, replies>>

-----------------------------------------------------------------------------
(* The executor's thread.                                                  *)

Worker(from, to) == wpc = from /\ wpc' = to
Decide(outcome) == woutcome' = outcome /\ wto' = Len(log)

Take ==
  /\ tasks # <<>>
  /\ Worker("idle", "taken")
  /\ wcall' = Head(tasks) /\ tasks' = Tail(tasks)
  /\ UNCHANGED <<log, piped, readerVars, futures, callVars, activeVars, replies>>

WorkerEnds ==
  /\ rpc = "closing" /\ tasks = <<>>
  /\ Worker("idle", "ended")
  /\ UNCHANGED <<log, piped, readerVars, tasks, futures, wcall, callVars,
                 activeVars, replies>>

(* handle_line before the controller: a notification has no response, a    *)
(* protocol line its own, and a call an error if its tool is unknown, its  *)
(* arguments are too large, or its command or params are malformed.        *)
HandleLine ==
  /\ Worker("taken", "resolve")
  /\ LET line == log[wcall] IN
     woutcome' = CASE line.kind = "plain" -> "plain"
                   [] line.kind = "call" /\ line.id = NoId -> "nothing"
                   [] OTHER -> "refused"
  /\ UNCHANGED <<log, piped, readerVars, tasks, futures, wcall, wtoken, wfrom, wto,
                 wsteps, wlate, activeVars, replies>>

(* command(): a fresh event under a new generation, before any check.      *)
Register ==
  /\ Worker("taken", "preflight")
  /\ log[wcall].kind = "call" /\ log[wcall].id # NoId
  /\ active' = [id |-> log[wcall].id, gen |-> nextGen + 1, cancelled |-> FALSE]
  /\ nextGen' = nextGen + 1
  /\ wtoken' = nextGen + 1
  /\ wfrom' = Len(log)
  /\ UNCHANGED <<log, piped, readerVars, tasks, futures, wcall, wto, wsteps, wlate,
                 woutcome, replies>>

(* preflight_command and _preflight_dynamic refuse, or raise.              *)
Refuse ==
  /\ Worker("preflight", "finish")
  /\ Decide("refused")
  /\ UNCHANGED <<log, piped, readerVars, tasks, futures, wcall, wtoken, wfrom, wsteps,
                 wlate, activeVars, replies>>

Pass ==
  /\ Worker("preflight", "probe")
  /\ UNCHANGED <<log, piped, readerVars, tasks, futures, wcall, callVars, activeVars,
                 replies>>

(* Mutant: only _dispatch asks.                                            *)
ProbeFirst ==
  /\ wpc = "probe"
  /\ IF active.cancelled /\ wsteps = 0
     THEN wpc' = "finish" /\ Decide("cancelled")
     ELSE wpc' = "step" /\ UNCHANGED <<woutcome, wto>>
  /\ UNCHANGED <<log, piped, readerVars, tasks, futures, wcall, wtoken, wfrom, wsteps,
                 wlate, activeVars, replies>>

(* _check_abort in _dispatch and in the handlers, and their probes.        *)
Probe ==
  /\ wpc = "probe"
  /\ IF active.cancelled
     THEN wpc' = "finish" /\ Decide("cancelled")
     ELSE wpc' = "step" /\ UNCHANGED <<woutcome, wto>>
  /\ UNCHANGED <<log, piped, readerVars, tasks, futures, wcall, wtoken, wfrom, wsteps,
                 wlate, activeVars, replies>>

(* One primitive, perhaps the last: one native operation behind a check of *)
(* the event, as in McpServer.  An input polls every 10 ms and may be cut  *)
(* short; what its helper posts until then is HelperInput's.               *)
Step ==
  /\ wpc = "step"
  /\ wsteps' = wsteps + 1
  /\ wlate' = IF AimedBetween(wfrom, Len(log), log[wcall].id, wtoken)
              THEN wlate + 1 ELSE wlate
  /\ \/ wsteps + 1 < MaxSteps /\ wpc' = "probe" /\ UNCHANGED <<woutcome, wto>>
     \/ wpc' = "finish" /\ Decide("done")
     \/ active.cancelled /\ wpc' = "finish" /\ Decide("cancelled")
  /\ UNCHANGED <<log, piped, readerVars, tasks, futures, wcall, wtoken, wfrom,
                 activeVars, replies>>

(* command()'s finally.                                                    *)
Finish ==
  /\ Worker("finish", "resolve")
  /\ active' = IF active.gen = wtoken THEN NoActive ELSE active
  /\ UNCHANGED <<log, piped, readerVars, tasks, futures, wcall, callVars, nextGen,
                 replies>>

(* Mutant: any cancellation of the session marks a call that is done.      *)
ResultSticky ==
  Result(IF woutcome = "done" /\ \E k \in DOMAIN log : log[k].kind = "cancel"
         THEN "cancelled" ELSE woutcome, wtoken, wfrom, wto)

ResultOf == Result(woutcome, wtoken, wfrom, wto)

(* set_result: the callbacks attached by now are the executor's to call.   *)
Resolve ==
  /\ wpc = "resolve"
  /\ futures' = [futures EXCEPT ![wcall] = ResultOf]
  /\ wpc' = IF Attached(wcall) THEN "emit" ELSE "idle"
  /\ wtoken' = 0 /\ wfrom' = 0 /\ wto' = 0 /\ wsteps' = 0 /\ wlate' = 0
  /\ woutcome' = "pending"
  /\ UNCHANGED <<log, piped, readerVars, tasks, wcall, activeVars, replies>>

WorkerEmit ==
  /\ Worker("emit", "idle")
  /\ Emit(wcall)
  /\ UNCHANGED <<log, piped, readerVars, tasks, futures, wcall, callVars, activeVars>>

-----------------------------------------------------------------------------
CloseOutput ==
  /\ piped
  /\ piped' = FALSE
  /\ UNCHANGED <<log, readerVars, tasks, futures, workVars, activeVars, replies>>

Exited == rpc = "exited" /\ UNCHANGED vars

ReaderNext == ReadCancel \/ ReadStop \/ ReadOdd \/ Submit \/ Attach \/ ReaderWrite \/ ReadEnds
                \/ Join
WorkerNext == Take \/ WorkerEnds \/ HandleLine \/ Register \/ Refuse \/ Pass \/ Probe
                \/ Step \/ Finish \/ Resolve \/ WorkerEmit
Next == ReaderNext \/ WorkerNext \/ CloseOutput \/ Exited

Spec == Init /\ [][Next]_vars

-----------------------------------------------------------------------------
(* Correctness.                                                            *)

Positions == DOMAIN log
ResultType == [kind : Results, gen : Nat, from : Nat, to : Nat]
OwnResultType == [kind : ReplyKinds, gen : {0}, from : {0}, to : {0}]
ReplyType == [line : Nat, result : ResultType \cup OwnResultType]
ActiveType == [id : Ids \cup {NullId, NoId}, gen : Nat, cancelled : BOOLEAN]

(* Every variable keeps its shape; a line has one future, and the executor *)
(* only ever holds lines it may serve, whose futures are not resolved.     *)
TypeOK ==
  /\ log \in Seq(Lines) /\ piped \in BOOLEAN
  /\ rpc \in {"read", "attach", "write", "closing", "exited"}
  /\ rreply \in ReplyKinds
  /\ futures \in Seq(ResultType) /\ Len(futures) = Len(log)
  /\ tasks \in Seq(Nat)
  /\ \A i \in DOMAIN tasks : tasks[i] \in Positions /\ futures[tasks[i]] = Pending
  /\ wpc \in {"idle", "taken", "preflight", "probe", "step", "finish", "resolve",
              "emit", "ended"}
  /\ wcall \in Nat
  /\ wpc \notin {"idle", "ended"} => wcall \in Positions
  /\ wtoken \in Nat /\ wfrom \in Nat /\ wto \in Nat /\ wsteps \in Nat /\ wlate \in Nat
  /\ woutcome \in Results
  /\ active \in ActiveType /\ nextGen \in Nat
  /\ replies \in Seq(ReplyType)

(* A call ends cancelled only if, after its registration and before its    *)
(* outcome was decided, the reader took a stop or a cancellation that      *)
(* matches it: not one for an earlier call of the same id, nor one that    *)
(* came while it was queued (request_cancel against command()).            *)
CancelScoped ==
  \A i \in DOMAIN replies :
    LET r == replies[i].result IN
    r.kind = "cancelled" =>
      AimedBetween(r.from, r.to, log[replies[i].line].id, r.gen)

(* A line aimed at a registered call is heard even during its preflight:   *)
(* at most the one native operation cleared before it still runs, if only  *)
(* in part (_check_abort); HelperInput's StopsPrompt looks inside it.      *)
CancelPrompt == wlate <= 1

(* The lines the executor serves are answered in the order of the input    *)
(* and never twice, although the reader writes the response of a future    *)
(* that has resolved before its callback was attached.                     *)
Served(i) == log[replies[i].line].kind \in {"call", "plain"}
AnsweredInOrder ==
  \A i, j \in DOMAIN replies :
    i < j /\ Served(i) /\ Served(j) => replies[i].line < replies[j].line

(* Every request is owed an answer.                                        *)
WantsAnswer(n) ==
  CASE log[n].kind = "call" -> log[n].id # NoId
    [] log[n].kind = "cancel" -> FALSE
    [] log[n].kind = "stop" -> log[n].fate # "dropped"
    [] log[n].kind = "odd" -> log[n].answer
    [] OTHER -> TRUE

(* The line that broke the reader's loop, which can only be the last.      *)
BrokeTheLoop(n) == log[n].kind = "odd" /\ n = Len(log)

(* The process owes nobody an answer when it ends: whatever was queued at  *)
(* the end of the input, or when the reader's loop broke, has been served, *)
(* and no response fell between the future and its callback.  Excused are  *)
(* a client that stopped reading and the one line that broke the loop: a   *)
(* call of `desktop' whose arguments are no object (_is_stop_request).     *)
NothingOwedAtExit ==
  rpc = "exited" /\ piped =>
    \A n \in Positions :
      WantsAnswer(n) =>
        BrokeTheLoop(n) \/ \E i \in DOMAIN replies : replies[i].line = n

-----------------------------------------------------------------------------
(* The service implements CallLifecycle.                                   *)

HeldStage ==
  CASE wpc \in {"preflight", "probe", "step"} ->
         IF active.cancelled THEN "stopping" ELSE "running"
    [] wpc \in {"finish", "resolve"} ->
         IF woutcome = "nothing" THEN "ignored" ELSE woutcome
    [] OTHER -> "waiting"

Stage(n) ==
  CASE n > Len(log) -> "unread"
    [] n \in Positions /\ log[n].kind # "call" -> "protocol"
    [] n \in Positions /\ log[n].kind = "call" /\ futures[n] = Pending ->
         IF n = wcall /\ wpc \notin {"idle", "ended"} THEN HeldStage ELSE "waiting"
    [] OTHER -> IF futures[n].kind = "nothing" THEN "ignored" ELSE futures[n].kind

Lifecycle == INSTANCE CallLifecycle WITH
  stage <- [n \in 1 .. MaxLines |-> Stage(n)],
  told <- {n \in 1 .. MaxLines : \E i \in DOMAIN replies : replies[i].line = n}

(* A client of the Python service sees the same life of its calls as one   *)
(* of the Rust service.                                                    *)
ImplementsLifecycle == Lifecycle!Spec
=============================================================================
