---------------------------- MODULE PyServerProofs ----------------------------
(***************************************************************************)
(* Theorems of PyServer for every set of ids and generations and every     *)
(* bound on lines and primitives, and the proof that it implements         *)
(* CallLifecycle.                                                          *)
(***************************************************************************)
EXTENDS PyServer, TLAPS

(* The executor's thread holds a line; its future is not resolved yet; its *)
(* command is registered.                                                  *)
Busy == wpc \notin {"idle", "ended"}
Unresolved == Busy /\ wpc # "emit"
Serving == wpc \in {"preflight", "probe", "step", "finish"}

(* A line that goes to the executor.                                       *)
ForExecutor(n) == log[n].kind \in {"call", "plain"}

(* The queue and the thread: the lines it holds are in input order, and    *)
(* they are exactly those whose futures are pending.                       *)
QueueInv ==
  /\ Len(log) <= MaxLines
  /\ \A i, j \in DOMAIN tasks : i < j => tasks[i] < tasks[j]
  /\ \A i \in DOMAIN tasks : ForExecutor(tasks[i])
  /\ Busy => ForExecutor(wcall) /\ \A i \in DOMAIN tasks : wcall < tasks[i]
  /\ Unresolved => futures[wcall] = Pending
  /\ wpc = "emit" => Attached(wcall) /\ futures[wcall] # Pending
  /\ \A n \in Positions : futures[n] = Pending =>
       \/ Unresolved /\ n = wcall
       \/ \E i \in DOMAIN tasks : tasks[i] = n
  /\ \A n \in Positions : ForExecutor(n) /\ futures[n] # Pending =>
       /\ \A i \in DOMAIN tasks : n < tasks[i]
       /\ Busy => n <= wcall

(* What an outcome, and later a future, may be.                            *)
Settled(line, kind) ==
  /\ kind # "pending"
  /\ line.kind = "call" => kind # "plain"
  /\ kind = "nothing" => line.kind \notin {"plain"} /\ (line.kind = "call" => line.id = NoId)

OutcomeInv ==
  /\ Serving => log[wcall].kind = "call"
  /\ wpc \in {"finish", "resolve"} => Settled(log[wcall], woutcome)
  /\ \A n \in Positions : futures[n] # Pending => Settled(log[n], futures[n].kind)
  /\ rpc = "attach" => Len(log) >= 1 /\ ForExecutor(Len(log))
  /\ rpc = "write" => Len(log) >= 1 /\ log[Len(log)].kind = "stop"
  /\ rpc = "exited" => wpc = "ended"
  /\ wpc = "ended" => tasks = <<>> /\ rpc \in {"closing", "exited"}

TypeInv == TypeOK /\ QueueInv /\ OutcomeInv

(* Appending leaves what was there in place.                               *)
LEMMA AppendKeeps ==
  ASSUME NEW S, NEW s \in Seq(S), NEW e \in S
  PROVE  /\ Append(s, e) \in Seq(S)
         /\ Len(Append(s, e)) = Len(s) + 1
         /\ DOMAIN s = 1 .. Len(s) /\ Len(s) \in Nat
         /\ DOMAIN Append(s, e) = 1 .. Len(s) + 1
         /\ \A k \in 1 .. Len(s) : Append(s, e)[k] = s[k]
         /\ Append(s, e)[Len(s) + 1] = e
  OBVIOUS

LEMMA TailShifts ==
  ASSUME NEW S, NEW s \in Seq(S), s # <<>>
  PROVE  /\ Tail(s) \in Seq(S)
         /\ Len(s) \in Nat /\ Len(s) >= 1
         /\ DOMAIN s = 1 .. Len(s)
         /\ DOMAIN Tail(s) = 1 .. Len(s) - 1
         /\ \A k \in 1 .. Len(s) - 1 : Tail(s)[k] = s[k + 1]
         /\ Head(s) = s[1] /\ Head(s) \in S
  OBVIOUS

LEMMA PlainResults ==
  /\ Pending \in ResultType /\ Pending.kind = "pending"
  /\ Plainly("nothing") \in ResultType /\ Plainly("nothing").kind = "nothing"
  /\ Plainly("nothing") # Pending
BY DEF Pending, Plainly, Result, ResultType, Results, Outcomes

(* What a step that takes a line does to the input and the futures.        *)
LEMMA ReadFacts ==
  ASSUME TypeOK, NEW line \in Lines, NEW result \in ResultType, Read(line, result)
  PROVE  /\ rpc = "read" /\ Len(log) \in Nat /\ Len(log) < MaxLines
         /\ log' \in Seq(Lines) /\ futures' \in Seq(ResultType)
         /\ Len(log') = Len(log) + 1 /\ Len(futures') = Len(log) + 1
         /\ Positions = 1 .. Len(log) /\ Positions' = 1 .. Len(log) + 1
         /\ \A k \in Positions : log'[k] = log[k] /\ futures'[k] = futures[k]
         /\ log'[Len(log) + 1] = line /\ futures'[Len(log) + 1] = result
  BY AppendKeeps DEF Read, TypeOK, Positions

(* The positions a step that takes a line has to think of.                 *)
LEMMA OldOrNew ==
  ASSUME Len(log) \in Nat, Positions = 1 .. Len(log), Positions' = 1 .. Len(log) + 1
  PROVE  /\ \A n \in Positions : n \in Positions' /\ n < Len(log) + 1 /\ n # Len(log) + 1
         /\ Len(log) + 1 \in Positions'
         /\ \A n \in Positions' : n \in Positions \/ n = Len(log) + 1
  OBVIOUS

-----------------------------------------------------------------------------
(* The shapes, and who holds which line.                                   *)

(* Taking a line that the reader deals with itself.                        *)
LEMMA OwnLineKeepsType ==
  ASSUME TypeInv, NEW line \in Lines, line.kind \in {"cancel", "stop", "odd"},
         Read(line, Plainly("nothing")),
         rpc' \in {"read", "write", "closing"}, rpc' = "write" => line.kind = "stop",
         rreply' \in ReplyKinds,
         active' \in ActiveType,
         UNCHANGED <<piped, tasks, workVars, nextGen, replies>>
  PROVE  TypeInv'
<1> USE DEF TypeInv, ForExecutor
<1>1. /\ rpc = "read" /\ Len(log) \in Nat /\ Len(log) < MaxLines
      /\ log' \in Seq(Lines) /\ futures' \in Seq(ResultType)
      /\ Len(log') = Len(log) + 1 /\ Len(futures') = Len(log) + 1
      /\ Positions = 1 .. Len(log) /\ Positions' = 1 .. Len(log) + 1
      /\ \A k \in Positions : log'[k] = log[k] /\ futures'[k] = futures[k]
      /\ log'[Len(log) + 1] = line /\ futures'[Len(log) + 1] = Plainly("nothing")
  BY PlainResults, ReadFacts
<1>2. /\ \A n \in Positions : n \in Positions' /\ n < Len(log) + 1 /\ n # Len(log) + 1
      /\ Len(log) + 1 \in Positions'
      /\ \A n \in Positions' : n \in Positions \/ n = Len(log) + 1
  BY <1>1, OldOrNew
<1>3. /\ UNCHANGED <<piped, tasks, wpc, wcall, wtoken, wfrom, wto, wsteps, wlate, woutcome,
                     nextGen, replies>>
      /\ wpc \notin {"idle", "ended"} => wcall \in Positions
      /\ \A i \in DOMAIN tasks : tasks[i] \in Positions
  BY DEF TypeOK, workVars, callVars
<1>4. MaxLines \in Nat
  BY PyServerAssumption
<1>5. TypeOK'
  <2>1. /\ \A i \in DOMAIN tasks : tasks[i] \in Positions' /\ futures'[tasks[i]] = Pending
        /\ wpc \notin {"idle", "ended"} => wcall \in Positions'
    BY <1>1, <1>2, <1>3 DEF TypeOK
  <2> QED BY <1>1, <1>3, <2>1 DEF TypeOK
<1>6. QueueInv'
  <2>1. Attached(wcall)' \/ ~Busy
    BY <1>1, <1>2, <1>3 DEF Attached, Busy
  <2>2. Busy' = Busy /\ Unresolved' = Unresolved
    BY <1>3 DEF Busy, Unresolved
  <2>3. \A n \in Positions : ForExecutor(n)' = ForExecutor(n)
    BY <1>1
  <2>4. \A n \in Positions' : ForExecutor(n)' => n \in Positions
    BY <1>1, <1>2
  <2>5. /\ \A i \in DOMAIN tasks' : ForExecutor(tasks[i])'
        /\ Busy => wcall \in Positions /\ ForExecutor(wcall)' /\ futures'[wcall] = futures[wcall]
    BY <1>1, <1>3, <2>3 DEF QueueInv, Busy
  <2>6. ASSUME NEW n \in Positions', futures'[n] = Pending
        PROVE  \/ Unresolved /\ n = wcall
               \/ \E i \in DOMAIN tasks : tasks[i] = n
    BY <1>1, <1>2, <2>6, PlainResults DEF QueueInv
  <2>7. ASSUME NEW n \in Positions', ForExecutor(n)', futures'[n] # Pending
        PROVE  /\ \A i \in DOMAIN tasks : n < tasks[i]
               /\ Busy => n <= wcall
    BY <1>1, <1>2, <2>3, <2>4, <2>7 DEF QueueInv
  <2> HIDE DEF ForExecutor
  <2> QED BY <1>1, <1>3, <1>4, <2>1, <2>2, <2>5, <2>6, <2>7 DEF QueueInv, Unresolved, Busy
<1>7. OutcomeInv'
  <2>1. Settled(line, "nothing")
    BY DEF Settled
  <2> QED BY <1>1, <1>2, <1>3, <2>1, PlainResults DEF OutcomeInv, Serving
<1> QED BY <1>5, <1>6, <1>7

LEMMA SubmitKeepsType ==
  ASSUME TypeInv, Submit
  PROVE  TypeInv'
<1> USE DEF TypeInv
<1>0. PICK line \in Lines :
        /\ line.kind \in {"call", "plain"}
        /\ Read(line, Pending)
        /\ tasks' = Append(tasks, Position)
        /\ rpc' = "attach"
        /\ UNCHANGED <<piped, rreply, workVars, activeVars, replies>>
  BY DEF Submit
<1>1. /\ rpc = "read" /\ Len(log) \in Nat /\ Len(log) < MaxLines
      /\ log' \in Seq(Lines) /\ futures' \in Seq(ResultType)
      /\ Len(log') = Len(log) + 1 /\ Len(futures') = Len(log) + 1
      /\ Positions = 1 .. Len(log) /\ Positions' = 1 .. Len(log) + 1
      /\ \A k \in Positions : log'[k] = log[k] /\ futures'[k] = futures[k]
      /\ log'[Len(log) + 1] = line /\ futures'[Len(log) + 1] = Pending
  BY <1>0, PlainResults, ReadFacts
<1>2. /\ \A n \in Positions : n \in Positions' /\ n < Len(log) + 1 /\ n # Len(log) + 1
      /\ Len(log) + 1 \in Positions'
      /\ \A n \in Positions' : n \in Positions \/ n = Len(log) + 1
  BY <1>1, OldOrNew
<1>3. /\ UNCHANGED <<piped, rreply, wpc, wcall, wtoken, wfrom, wto, wsteps, wlate, woutcome,
                     active, nextGen, replies>>
      /\ wpc \notin {"idle", "ended"} => wcall \in Positions
      /\ \A i \in DOMAIN tasks : tasks[i] \in Positions
      /\ MaxLines \in Nat
  BY <1>0, PyServerAssumption DEF TypeOK, workVars, callVars, activeVars
<1>4. /\ tasks' \in Seq(Nat)
      /\ DOMAIN tasks = 1 .. Len(tasks) /\ Len(tasks) \in Nat
      /\ DOMAIN tasks' = 1 .. Len(tasks) + 1
      /\ \A i \in DOMAIN tasks : i \in DOMAIN tasks' /\ tasks'[i] = tasks[i]
      /\ tasks'[Len(tasks) + 1] = Len(log) + 1
      /\ \A i \in DOMAIN tasks' : i \in DOMAIN tasks \/ i = Len(tasks) + 1
      /\ Len(tasks) + 1 \in DOMAIN tasks'
  <2>1. tasks \in Seq(Nat) /\ Position \in Nat /\ Position = Len(log) + 1
    BY <1>1 DEF Position, TypeOK
  <2> QED BY <1>0, <2>1, AppendKeeps
<1>5. Busy' = Busy /\ Unresolved' = Unresolved /\ (Busy => wcall \in Positions)
  BY <1>3 DEF Busy, Unresolved
<1>6. \A n \in Positions : ForExecutor(n)' = ForExecutor(n)
  BY <1>1 DEF ForExecutor
<1>7. TypeOK'
  <2>1. /\ \A i \in DOMAIN tasks' : tasks'[i] \in Positions' /\ futures'[tasks'[i]] = Pending
        /\ wpc \notin {"idle", "ended"} => wcall \in Positions'
    BY <1>1, <1>2, <1>3, <1>4 DEF TypeOK
  <2> QED BY <1>0, <1>1, <1>3, <1>4, <2>1 DEF TypeOK
<1>8. QueueInv'
  <2>1. ASSUME NEW i \in DOMAIN tasks' PROVE ForExecutor(tasks[i])'
    <3>1. CASE i \in DOMAIN tasks
      BY <1>1, <1>3, <1>4, <3>1 DEF QueueInv, ForExecutor
    <3>2. CASE i = Len(tasks) + 1
      BY <1>0, <1>1, <1>4, <3>2 DEF ForExecutor
    <3> QED BY <1>4, <3>1, <3>2
  <2>2. ASSUME NEW i \in DOMAIN tasks', NEW j \in DOMAIN tasks', i < j
        PROVE  tasks'[i] < tasks'[j]
    <3>1. i \in DOMAIN tasks
      BY <1>4, <2>2
    <3> QED BY <1>2, <1>3, <1>4, <2>2, <3>1 DEF QueueInv
  <2>3. ASSUME Busy
        PROVE  ForExecutor(wcall)' /\ \A i \in DOMAIN tasks' : wcall < tasks'[i]
    BY <1>1, <1>2, <1>3, <1>4, <1>5, <2>3 DEF QueueInv, ForExecutor
  <2>4. Busy => Attached(wcall)' /\ futures'[wcall] = futures[wcall]
    BY <1>1, <1>2, <1>3, <1>5 DEF Attached
  <2>5. ASSUME NEW n \in Positions', futures'[n] = Pending
        PROVE  \/ Unresolved /\ n = wcall
               \/ \E i \in DOMAIN tasks' : tasks'[i] = n
    BY <1>1, <1>2, <1>4, <2>5 DEF QueueInv
  <2>6. ASSUME NEW n \in Positions', ForExecutor(n)', futures'[n] # Pending
        PROVE  /\ \A i \in DOMAIN tasks' : n < tasks'[i]
               /\ Busy => n <= wcall
    <3>1. n \in Positions /\ ForExecutor(n) /\ futures[n] # Pending
      BY <1>1, <1>2, <2>6 DEF ForExecutor
    <3> QED BY <1>2, <1>4, <3>1 DEF QueueInv
  <2> QED BY <1>1, <1>3, <1>5, <2>1, <2>2, <2>3, <2>4, <2>5, <2>6 DEF QueueInv, Busy, Unresolved
<1>9. OutcomeInv'
  <2>1. ForExecutor(Len(log))'
    BY <1>0, <1>1 DEF ForExecutor
  <2>2. wpc # "ended"
    BY <1>0, <1>1 DEF OutcomeInv
  <2> QED BY <1>0, <1>1, <1>2, <1>3, <2>1, <2>2 DEF OutcomeInv, Serving
<1> QED BY <1>7, <1>8, <1>9

(* A step that leaves the input, the queue, the futures and the line of    *)
(* the thread alone, and neither takes up nor resolves a line.             *)
LEMMA SamePlacesKeepType ==
  ASSUME TypeInv,
         UNCHANGED <<log, futures, tasks, wcall>>,
         Busy' = Busy, Unresolved' = Unresolved,
         wpc = "emit" => Attached(wcall)',
         TypeOK', OutcomeInv'
  PROVE  TypeInv'
<1>1. QueueInv'
  <2>1. Positions' = Positions /\ \A n : ForExecutor(n)' = ForExecutor(n)
    BY DEF Positions, ForExecutor
  <2>2. wpc' = "emit" => wpc = "emit"
    BY DEF Busy, Unresolved
  <2>3. Busy => ForExecutor(wcall)'
    BY <2>1 DEF TypeInv, QueueInv
  <2>4. \A i \in DOMAIN tasks' : ForExecutor(tasks[i])'
    BY <2>1 DEF TypeInv, QueueInv
  <2> QED BY <2>1, <2>2, <2>3, <2>4 DEF TypeInv, QueueInv
<1> QED BY <1>1 DEF TypeInv

LEMMA ReaderKeepsType ==
  ASSUME TypeInv, Attach \/ ReaderWrite \/ ReadEnds \/ Join
  PROVE  TypeInv'
<1> USE DEF TypeInv
<1>1. /\ UNCHANGED <<log, piped, futures, tasks, rreply, wpc, wcall, wtoken, wfrom, wto, wsteps,
                     wlate, woutcome, active, nextGen>>
      /\ rpc' \in {"read", "closing", "exited"}
      /\ rpc' = "exited" => wpc = "ended"
      /\ rpc \in {"attach", "write", "read", "closing"}
      /\ rpc' = "read" => rpc \in {"attach", "write"}
  BY DEF Attach, ReaderWrite, ReadEnds, Join, workVars, callVars, activeVars, readerVars
<1>2. replies' \in Seq(ReplyType)
  <2>1. \A n \in Nat, r \in ResultType \cup OwnResultType : Reply(n, r) \in ReplyType
    BY DEF Reply, ReplyType
  <2>2. CASE UNCHANGED replies
    BY <2>2 DEF TypeOK
  <2>3. CASE ReaderWrite /\ replies' # replies
    <3>1. Len(log) \in Nat /\ Plainly(rreply) \in OwnResultType
      BY DEF TypeOK, Plainly, Result, OwnResultType
    <3> QED BY <2>1, <2>3, <3>1, AppendKeeps DEF ReaderWrite, Write, TypeOK
  <2>4. CASE Attach /\ replies' # replies
    <3>1. Len(log) \in Nat /\ futures[Len(log)] \in ResultType
      BY <2>4 DEF TypeOK, OutcomeInv, Attach
    <3>2. replies' = Append(replies, Reply(Len(log), futures[Len(log)]))
      BY <2>4 DEF Attach, Emit, Write
    <3> QED BY <2>1, <3>1, <3>2, AppendKeeps DEF TypeOK
  <2> QED BY <2>2, <2>3, <2>4 DEF ReadEnds, Join
<1>3. TypeOK'
  <2>1. Positions' = Positions
    BY <1>1 DEF Positions
  <2> QED BY <1>1, <1>2, <2>1 DEF TypeOK
<1>4. OutcomeInv'
  BY <1>1 DEF OutcomeInv, Positions, Serving
<1>5. Busy' = Busy /\ Unresolved' = Unresolved /\ Attached(wcall)'
  BY <1>1 DEF Busy, Unresolved, Attached
<1> QED BY <1>1, <1>3, <1>4, <1>5, SamePlacesKeepType

LEMMA TakeKeepsType ==
  ASSUME TypeInv, Take
  PROVE  TypeInv'
<1> USE DEF TypeInv
<1>1. /\ wpc = "idle" /\ wpc' = "taken"
      /\ UNCHANGED <<log, piped, rpc, rreply, futures, wtoken, wfrom, wto, wsteps, wlate,
                     woutcome, active, nextGen, replies>>
  BY DEF Take, Worker, readerVars, callVars, activeVars
<1>2. /\ tasks' \in Seq(Nat)
      /\ Len(tasks) \in Nat /\ Len(tasks) >= 1
      /\ DOMAIN tasks = 1 .. Len(tasks)
      /\ DOMAIN tasks' = 1 .. Len(tasks) - 1
      /\ \A i \in DOMAIN tasks' : tasks'[i] = tasks[i + 1]
      /\ wcall' = tasks[1]
  BY TailShifts DEF Take, TypeOK
<1>3. /\ 1 \in DOMAIN tasks
      /\ \A i \in DOMAIN tasks' : i + 1 \in DOMAIN tasks /\ 1 < i + 1
      /\ \A i \in DOMAIN tasks : i = 1 \/ (i - 1 \in DOMAIN tasks' /\ tasks'[i - 1] = tasks[i])
  BY <1>2
<1>4. /\ wcall' \in Positions /\ wcall' \in Nat /\ futures[wcall'] = Pending
      /\ log[wcall'].kind \in {"call", "plain"}
      /\ \A i \in DOMAIN tasks' : wcall' < tasks'[i]
  <2>0. \A n \in Positions : n \in Nat
    BY DEF TypeOK, Positions
  <2>1. tasks[1] \in Positions /\ futures[tasks[1]] = Pending
    BY <1>3 DEF TypeOK
  <2>2. log[tasks[1]].kind \in {"call", "plain"}
    BY <1>3 DEF QueueInv, ForExecutor
  <2>3. \A i \in DOMAIN tasks' : tasks[1] < tasks[i + 1]
    BY <1>3 DEF QueueInv
  <2> QED BY <1>2, <2>0, <2>1, <2>2, <2>3
<1>5. Positions' = Positions /\ \A n : ForExecutor(n)' = ForExecutor(n)
  BY <1>1 DEF Positions, ForExecutor
<1>6. TypeOK'
  <2>1. \A i \in DOMAIN tasks' : tasks'[i] \in Positions /\ futures[tasks'[i]] = Pending
    BY <1>2, <1>3 DEF TypeOK
  <2> QED BY <1>1, <1>2, <1>4, <1>5, <2>1 DEF TypeOK
<1>7. QueueInv'
  <2>1. ASSUME NEW i \in DOMAIN tasks', NEW j \in DOMAIN tasks', i < j
        PROVE  tasks'[i] < tasks'[j]
    <3>1. i + 1 < j + 1
      BY <1>2, <2>1
    <3> QED BY <1>2, <1>3, <3>1 DEF QueueInv
  <2>2. ASSUME NEW i \in DOMAIN tasks' PROVE log[tasks'[i]].kind \in {"call", "plain"}
    BY <1>2, <1>3 DEF QueueInv, ForExecutor
  <2>3. ASSUME NEW n \in Positions, futures[n] = Pending
        PROVE  n = wcall' \/ \E i \in DOMAIN tasks' : tasks'[i] = n
    <3>1. PICK i \in DOMAIN tasks : tasks[i] = n
      BY <1>1, <2>3 DEF QueueInv, Unresolved, Busy
    <3> QED BY <1>2, <1>3, <3>1
  <2>4. ASSUME NEW n \in Positions, log[n].kind \in {"call", "plain"}, futures[n] # Pending
        PROVE  n <= wcall' /\ \A i \in DOMAIN tasks' : n < tasks'[i]
    <3>1. \A i \in DOMAIN tasks : n < tasks[i]
      BY <2>4 DEF QueueInv, ForExecutor
    <3>2. n \in Nat
      BY DEF Positions, TypeOK
    <3> QED BY <1>2, <1>3, <1>4, <3>1, <3>2
  <2> QED BY <1>1, <1>4, <1>5, <2>1, <2>2, <2>3, <2>4 DEF QueueInv, Busy, Unresolved, ForExecutor
<1>8. OutcomeInv'
  BY <1>1, <1>4, <1>5 DEF OutcomeInv, Serving, ForExecutor
<1> QED BY <1>6, <1>7, <1>8

(* The steps of the thread on the line it has taken, up to its result.     *)
LEMMA ServingKeepsType ==
  ASSUME TypeInv, HandleLine \/ Register \/ Refuse \/ Pass \/ Probe \/ Step \/ Finish
  PROVE  TypeInv'
<1> USE DEF TypeInv
<1>1. /\ UNCHANGED <<log, piped, rpc, rreply, futures, tasks, wcall, replies>>
      /\ wpc \in {"taken", "preflight", "probe", "step", "finish"}
      /\ wpc' \in {"preflight", "probe", "step", "finish", "resolve"}
  BY DEF HandleLine, Register, Refuse, Pass, Probe, Step, Finish, Worker, readerVars, callVars,
         activeVars
<1>2. Busy /\ Busy' /\ Unresolved /\ Unresolved' /\ wcall \in Positions
  BY <1>1 DEF Busy, Unresolved, TypeOK
<1>3. log[wcall] \in Lines /\ Len(log) \in Nat
  BY <1>2 DEF TypeOK, Positions
<1>4. /\ wtoken' \in Nat /\ wfrom' \in Nat /\ wto' \in Nat /\ wsteps' \in Nat
      /\ wlate' \in Nat /\ woutcome' \in Results /\ nextGen' \in Nat
  <2>1. CASE HandleLine \/ Register \/ Refuse \/ Pass
    BY <1>3, <2>1 DEF TypeOK, HandleLine, Register, Refuse, Pass, Decide, callVars, activeVars,
                      Results, Outcomes
  <2>2. CASE Probe \/ Finish
    BY <1>3, <2>2 DEF TypeOK, Probe, Finish, Decide, callVars, activeVars, Results, Outcomes
  <2>3. CASE Step
    <3>1. wsteps + 1 \in Nat /\ wlate + 1 \in Nat
      BY DEF TypeOK
    <3>2. /\ wsteps' = wsteps + 1 /\ wlate' \in {wlate, wlate + 1}
          /\ wto' \in {wto, Len(log)} /\ woutcome' \in {woutcome, "done", "cancelled"}
          /\ UNCHANGED <<wtoken, wfrom, nextGen>>
      BY <2>3 DEF Step, Decide, activeVars
    <3> QED BY <1>3, <3>1, <3>2 DEF TypeOK, Results, Outcomes
  <2> QED BY <2>1, <2>2, <2>3
<1>5. active' \in ActiveType
  <2>1. CASE Register
    <3>1. log[wcall].id \in Ids \cup {NullId, NoId}
      BY <1>3, <2>1 DEF Register, Lines
    <3> QED BY <2>1, <3>1 DEF Register, TypeOK, ActiveType
  <2>2. CASE Finish
    BY <2>2 DEF Finish, TypeOK, ActiveType, NoActive
  <2>3. CASE UNCHANGED active
    BY <2>3 DEF TypeOK
  <2> QED BY <2>1, <2>2, <2>3 DEF HandleLine, Refuse, Pass, Probe, Step, activeVars
<1>6. TypeOK'
  BY <1>1, <1>2, <1>4, <1>5 DEF TypeOK, Positions
<1>7. OutcomeInv'
  <2>1. Serving' => log[wcall].kind = "call"
    BY DEF OutcomeInv, Serving, HandleLine, Register, Refuse, Pass, Probe, Step, Finish, Worker
  <2>2. wpc' \in {"finish", "resolve"} => Settled(log[wcall], woutcome')
    <3>1. CASE HandleLine
      <4>1. log[wcall].kind \in {"call", "plain"}
        BY <1>2 DEF QueueInv, ForExecutor
      <4> QED BY <3>1, <4>1 DEF HandleLine, Settled
    <3>2. CASE Refuse \/ Probe \/ Step
      BY <3>2 DEF Refuse, Probe, Step, Decide, Settled, Worker
    <3>3. CASE Register \/ Pass \/ Finish
      BY <3>3 DEF Register, Pass, Finish, Worker, callVars, OutcomeInv
    <3> QED BY <3>1, <3>2, <3>3
  <2>3. Positions' = Positions /\ rpc # "exited"
    BY <1>1 DEF OutcomeInv, Positions
  <2>4. /\ Serving' => log'[wcall'].kind = "call"
        /\ wpc' \in {"finish", "resolve"} => Settled(log'[wcall'], woutcome')
    BY <1>1, <2>1, <2>2
  <2>5. \A n \in Positions' : futures'[n] # Pending => Settled(log'[n], futures'[n].kind)
    BY <1>1, <2>3 DEF OutcomeInv
  <2>6. /\ rpc' = "attach" => Len(log') >= 1 /\ ForExecutor(Len(log))'
        /\ rpc' = "write" => Len(log') >= 1 /\ log'[Len(log')].kind = "stop"
    BY <1>1 DEF OutcomeInv, ForExecutor
  <2> QED BY <1>1, <2>3, <2>4, <2>5, <2>6 DEF OutcomeInv
<1>8. wpc # "emit"
  BY <1>1
<1> QED BY <1>1, <1>2, <1>6, <1>7, <1>8, SamePlacesKeepType

(* The future of the thread's line gets the result, and no other future.   *)
LEMMA ResolveFacts ==
  ASSUME TypeInv, Resolve
  PROVE  /\ wcall \in Positions
         /\ ResultOf \in ResultType /\ ResultOf.kind = woutcome /\ ResultOf # Pending
         /\ Settled(log[wcall], woutcome)
         /\ futures' \in Seq(ResultType) /\ Len(futures') = Len(log)
         /\ futures'[wcall] = ResultOf
         /\ \A n \in Positions : n # wcall => futures'[n] = futures[n]
<1>1. wcall \in Positions /\ Settled(log[wcall], woutcome)
  BY DEF Resolve, TypeInv, TypeOK, OutcomeInv
<1>2. /\ ResultOf \in ResultType /\ ResultOf.kind = woutcome /\ ResultOf # Pending
  BY <1>1, PlainResults DEF ResultOf, Result, ResultType, TypeInv, TypeOK, Settled
<1>3. /\ futures \in Seq(ResultType) /\ Len(futures) = Len(log)
      /\ Positions = 1 .. Len(futures)
  BY DEF TypeInv, TypeOK, Positions
<1>4. futures' = [futures EXCEPT ![wcall] = ResultOf]
  BY DEF Resolve
<1> QED BY <1>1, <1>2, <1>3, <1>4

LEMMA ResolveKeepsType ==
  ASSUME TypeInv, Resolve
  PROVE  TypeInv'
<1> USE DEF TypeInv
<1>1. /\ wcall \in Positions
      /\ ResultOf.kind = woutcome /\ ResultOf # Pending
      /\ Settled(log[wcall], woutcome)
      /\ futures' \in Seq(ResultType) /\ Len(futures') = Len(log)
      /\ futures'[wcall] = ResultOf
      /\ \A n \in Positions : n # wcall => futures'[n] = futures[n]
  BY ResolveFacts
<1>2. /\ wpc = "resolve" /\ wpc' = IF Attached(wcall) THEN "emit" ELSE "idle"
      /\ wtoken' = 0 /\ wfrom' = 0 /\ wto' = 0 /\ wsteps' = 0 /\ wlate' = 0
      /\ woutcome' = "pending"
      /\ UNCHANGED <<log, piped, rpc, rreply, tasks, wcall, active, nextGen, replies>>
  BY DEF Resolve, readerVars, activeVars
<1>3. /\ Positions' = Positions /\ \A n : ForExecutor(n)' = ForExecutor(n)
      /\ Attached(wcall)' = Attached(wcall)
      /\ Busy /\ Unresolved /\ (Busy' => Attached(wcall)) /\ ~Unresolved'
      /\ ~Serving'
  BY <1>2 DEF Positions, ForExecutor, Attached, Busy, Unresolved, Serving
<1>4. \A i \in DOMAIN tasks : /\ tasks[i] \in Positions /\ wcall < tasks[i]
                             /\ futures'[tasks[i]] = futures[tasks[i]]
  <2>1. \A i \in DOMAIN tasks : tasks[i] \in Positions /\ wcall < tasks[i]
    BY <1>3 DEF TypeOK, QueueInv
  <2>2. \A n \in Positions : wcall < n => n # wcall
    BY DEF TypeOK, Positions
  <2> QED BY <1>1, <2>1, <2>2
<1>5. TypeOK'
  <2>1. \A i \in DOMAIN tasks : futures'[tasks[i]] = Pending
    BY <1>4 DEF TypeOK
  <2> QED BY <1>1, <1>2, <1>3, <1>4, <2>1 DEF TypeOK, Results
<1>6. QueueInv'
  <2>1. ASSUME NEW n \in Positions, futures'[n] = Pending
        PROVE  \E i \in DOMAIN tasks : tasks[i] = n
    BY <1>1, <2>1 DEF QueueInv
  <2>2. ASSUME NEW n \in Positions, ForExecutor(n), futures'[n] # Pending
        PROVE  n <= wcall /\ \A i \in DOMAIN tasks : n < tasks[i]
    <3>1. CASE n = wcall
      BY <1>4, <3>1 DEF TypeOK
    <3>2. CASE n # wcall
      BY <1>1, <1>3, <2>2, <3>2 DEF QueueInv
    <3> QED BY <3>1, <3>2
  <2>3. /\ ForExecutor(wcall)'
        /\ \A i \in DOMAIN tasks' : ForExecutor(tasks[i])'
        /\ \A n \in Positions' : ForExecutor(n)' => ForExecutor(n)
    BY <1>2, <1>3 DEF QueueInv, ForExecutor
  <2>4. wpc' = "emit" => Attached(wcall)'
    BY <1>2, <1>3
  <2> QED BY <1>1, <1>2, <1>3, <2>1, <2>2, <2>3, <2>4 DEF QueueInv
<1>7. OutcomeInv'
  <2>1. ASSUME NEW n \in Positions, futures'[n] # Pending
        PROVE  Settled(log[n], futures'[n].kind)
    BY <1>1, <2>1 DEF OutcomeInv
  <2>2. /\ rpc' = "attach" => Len(log') >= 1 /\ ForExecutor(Len(log))'
        /\ rpc' = "write" => Len(log') >= 1 /\ log'[Len(log')].kind = "stop"
        /\ rpc # "exited"
    BY <1>2 DEF OutcomeInv, ForExecutor
  <2> QED BY <1>2, <1>3, <2>1, <2>2 DEF OutcomeInv
<1> QED BY <1>5, <1>6, <1>7

LEMMA OtherKeepsType ==
  ASSUME TypeInv, WorkerEnds \/ WorkerEmit \/ CloseOutput \/ UNCHANGED vars
  PROVE  TypeInv'
<1> USE DEF TypeInv
<1>1. /\ UNCHANGED <<log, rpc, rreply, futures, tasks, wcall, wtoken, wfrom, wto, wsteps, wlate,
                     woutcome, active, nextGen>>
      /\ piped' \in BOOLEAN
  BY DEF WorkerEnds, WorkerEmit, CloseOutput, vars, readerVars, workVars, callVars, activeVars,
         TypeOK
<1>2. \/ UNCHANGED wpc
      \/ wpc = "idle" /\ wpc' = "ended" /\ tasks = <<>> /\ rpc = "closing"
      \/ wpc = "emit" /\ wpc' = "idle"
  BY DEF WorkerEnds, WorkerEmit, CloseOutput, vars, workVars, Worker
<1>3. replies' \in Seq(ReplyType)
  <2>1. CASE UNCHANGED replies
    BY <2>1 DEF TypeOK
  <2>2. CASE WorkerEmit /\ replies' # replies
    <3>1. wcall \in Positions /\ wcall \in Nat /\ futures[wcall] \in ResultType
      BY <2>2 DEF WorkerEmit, Worker, TypeOK, Positions
    <3>2. Reply(wcall, futures[wcall]) \in ReplyType
      BY <3>1 DEF Reply, ReplyType
    <3>3. replies' = Append(replies, Reply(wcall, futures[wcall]))
      BY <2>2 DEF WorkerEmit, Emit, Write
    <3> QED BY <3>2, <3>3, AppendKeeps DEF TypeOK
  <2> QED BY <2>1, <2>2 DEF WorkerEnds, CloseOutput, vars
<1>4. Positions' = Positions /\ \A n : ForExecutor(n)' = ForExecutor(n)
  BY <1>1 DEF Positions, ForExecutor
<1>5. TypeOK'
  BY <1>1, <1>2, <1>3, <1>4 DEF TypeOK
<1>6. OutcomeInv'
  <2>1. /\ rpc' = "attach" => Len(log') >= 1 /\ ForExecutor(Len(log))'
        /\ rpc' = "write" => Len(log') >= 1 /\ log'[Len(log')].kind = "stop"
    BY <1>1 DEF OutcomeInv, ForExecutor
  <2>2. Serving' = Serving
    BY <1>2 DEF Serving
  <2> QED BY <1>1, <1>2, <1>4, <2>1, <2>2 DEF OutcomeInv
<1>7. CASE wpc = "emit" /\ wpc' = "idle"
  <2>1. QueueInv'
    <3>1. /\ Busy /\ ~Busy' /\ ~Unresolved /\ ~Unresolved'
      BY <1>7 DEF Busy, Unresolved
    <3>2. \A i \in DOMAIN tasks' : ForExecutor(tasks[i])'
      BY <1>1, <1>4 DEF QueueInv
    <3>3. \A n \in Positions' : ForExecutor(n)' => ForExecutor(n)
      BY <1>4
    <3> QED BY <1>1, <1>4, <1>7, <3>1, <3>2, <3>3 DEF QueueInv
  <2> QED BY <1>5, <1>6, <2>1
<1>8. CASE ~(wpc = "emit" /\ wpc' = "idle")
  <2>1. /\ Busy' = Busy /\ Unresolved' = Unresolved
        /\ wpc = "emit" => Attached(wcall)'
    BY <1>1, <1>2, <1>8 DEF Busy, Unresolved, Attached, QueueInv
  <2> QED BY <1>1, <1>5, <1>6, <2>1, SamePlacesKeepType
<1> QED BY <1>7, <1>8

LEMMA TypeInvariant == Spec => []TypeInv
<1>1. Init => TypeInv
  BY PyServerAssumption
  DEF Init, TypeInv, TypeOK, QueueInv, OutcomeInv, Positions, Busy, Unresolved, Serving, NoActive,
      ActiveType, ReplyKinds, Results, Outcomes
<1>2. TypeInv /\ [Next]_vars => TypeInv'
  <2> SUFFICES ASSUME TypeInv, [Next]_vars PROVE TypeInv'
    OBVIOUS
  <2>1. CASE ReadCancel
    <3>1. PICK line \in Lines :
            /\ line.kind = "cancel"
            /\ Read(line, Plainly("nothing"))
            /\ active' = RequestCancel(line.id, line.gen)
            /\ UNCHANGED <<piped, rpc, rreply, tasks, workVars, nextGen, replies>>
      BY <2>1 DEF ReadCancel, readerVars
    <3>2. active' \in ActiveType /\ rreply' \in ReplyKinds /\ rpc' = "read"
      BY <3>1 DEF RequestCancel, ActiveType, Read, TypeInv, TypeOK
    <3> QED BY <3>1, <3>2, OwnLineKeepsType
  <2>2. CASE ReadStop
    <3>1. PICK line \in Lines :
            /\ line.kind = "stop"
            /\ Read(line, Plainly("nothing"))
            /\ active' \in {active, RequestCancel(NullId, AnyGen)}
            /\ rpc' \in {rpc, "write"}
            /\ rreply' \in ReplyKinds
            /\ UNCHANGED <<piped, tasks, workVars, nextGen, replies>>
      BY <2>2 DEF ReadStop, readerVars, ReplyKinds, TypeInv, TypeOK
    <3>2. active' \in ActiveType /\ rpc' \in {"read", "write"}
      BY <3>1 DEF RequestCancel, ActiveType, Read, TypeInv, TypeOK
    <3> QED BY <3>1, <3>2, OwnLineKeepsType
  <2>3. CASE Submit
    BY <2>3, SubmitKeepsType
  <2>4. CASE Attach \/ ReaderWrite \/ ReadEnds \/ Join
    BY <2>4, ReaderKeepsType
  <2>5. CASE Take
    BY <2>5, TakeKeepsType
  <2>6. CASE HandleLine \/ Register \/ Refuse \/ Pass \/ Probe \/ Step \/ Finish
    BY <2>6, ServingKeepsType
  <2>7. CASE Resolve
    BY <2>7, ResolveKeepsType
  <2>8. CASE WorkerEnds \/ WorkerEmit \/ CloseOutput \/ UNCHANGED vars
    BY <2>8, OtherKeepsType
  <2>9. CASE ReadOdd
    <3>1. PICK line \in Lines :
            /\ line.kind = "odd"
            /\ Read(line, Plainly("nothing"))
            /\ rpc' = "closing"
            /\ UNCHANGED <<piped, rreply, tasks, workVars, active, nextGen, replies>>
      BY <2>9 DEF ReadOdd, activeVars
    <3>2. active' \in ActiveType /\ rreply' \in ReplyKinds
      BY <3>1 DEF TypeInv, TypeOK
    <3> QED BY <3>1, <3>2, OwnLineKeepsType
  <2> QED BY <2>1, <2>2, <2>3, <2>4, <2>5, <2>6, <2>7, <2>8, <2>9
          DEF Next, ReaderNext, WorkerNext, Exited
<1> QED BY <1>1, <1>2, PTL DEF Spec

(* In every reachable state the reader, the executor and the futures have  *)
(* the shapes TypeOK gives them: one future per line, and in the queue     *)
(* only lines whose futures are pending.                                   *)
THEOREM TypeCorrect == Spec => []TypeOK
<1>1. TypeInv => TypeOK
  BY DEF TypeInv
<1> QED BY <1>1, TypeInvariant, PTL

-----------------------------------------------------------------------------
(* Cancellation.  The invariant ties the event of the registered command   *)
(* to the input: it is set exactly when a line aimed at the command was    *)
(* taken since its registration.  Whatever is `cancelled', in the thread,  *)
(* in a future or written, has such a line in its window.                  *)
HandleOwned ==
  /\ Serving <=> IsActive
  /\ Serving => active.gen = wtoken /\ active.id = log[wcall].id

AimedIn(lines, from, to, id, gen) == \E k \in from + 1 .. to : Aimed(lines[k], id, gen)

TokenExact ==
  wpc \in {"preflight", "probe", "step"} =>
    /\ wfrom <= Len(log)
    /\ active.cancelled <=> AimedIn(log, wfrom, Len(log), log[wcall].id, wtoken)

LateBound ==
  /\ wlate <= 1
  /\ wpc \notin {"probe", "finish", "resolve"} => wlate = 0
  /\ wpc = "probe" /\ wlate > 0 => active.cancelled

Justified(lines, n, result) ==
  result.kind = "cancelled" =>
    /\ result.to <= Len(lines)
    /\ AimedIn(lines, result.from, result.to, lines[n].id, result.gen)

ResultsJustified ==
  /\ wpc \in {"finish", "resolve"} => Justified(log, wcall, ResultOf)
  /\ \A n \in Positions : Justified(log, n, futures[n])

RepliesJustified ==
  /\ rreply # "cancelled"
  /\ \A i \in DOMAIN replies :
       /\ replies[i].line \in Positions
       /\ Justified(log, replies[i].line, replies[i].result)

CancelInv == HandleOwned /\ TokenExact /\ LateBound /\ ResultsJustified /\ RepliesJustified

(* A window that was justified stays so when the input grows.              *)
LEMMA WindowKept ==
  ASSUME TypeOK, NEW line \in Lines, NEW result \in ResultType, Read(line, result)
  PROVE  /\ \A from, to \in Nat : \A id, gen : to <= Len(log) =>
              (AimedIn(log', from, to, id, gen) <=> AimedIn(log, from, to, id, gen))
         /\ \A n \in Positions, r \in ResultType \cup OwnResultType :
              Justified(log, n, r) => Justified(log', n, r)
<1>1. /\ Len(log) \in Nat /\ Len(log') = Len(log) + 1 /\ Positions = 1 .. Len(log)
      /\ \A k \in Positions : log'[k] = log[k]
  BY ReadFacts
<1>2. ASSUME NEW from \in Nat, NEW to \in Nat, NEW id, NEW gen, to <= Len(log)
      PROVE  AimedIn(log', from, to, id, gen) <=> AimedIn(log, from, to, id, gen)
  <2>1. \A k \in from + 1 .. to : log'[k] = log[k]
    BY <1>1, <1>2
  <2> QED BY <2>1 DEF AimedIn
<1>3. ASSUME NEW n \in Positions, NEW r \in ResultType \cup OwnResultType, Justified(log, n, r)
      PROVE  Justified(log', n, r)
  <2>1. r.from \in Nat /\ r.to \in Nat
    BY DEF ResultType, OwnResultType
  <2> QED BY <1>1, <1>2, <1>3, <2>1 DEF Justified
<1> QED BY <1>2, <1>3

(* Taking a line sets the event of the command it is aimed at.             *)
Tracks(line) ==
  active' = IF IsActive /\ Aimed(line, active.id, active.gen)
            THEN [active EXCEPT !.cancelled = TRUE]
            ELSE active

LEMMA TakingKeepsCancel ==
  ASSUME TypeInv, CancelInv, NEW line \in Lines, NEW result \in ResultType,
         Read(line, result), result.kind # "cancelled",
         Tracks(line), rreply' # "cancelled", UNCHANGED <<workVars, replies>>
  PROVE  CancelInv'
<1> USE DEF TypeInv, CancelInv
<1>1. /\ Len(log) \in Nat
      /\ Len(log') = Len(log) + 1
      /\ Positions = 1 .. Len(log) /\ Positions' = 1 .. Len(log) + 1
      /\ \A k \in Positions : log'[k] = log[k] /\ futures'[k] = futures[k]
      /\ log'[Len(log) + 1] = line /\ futures'[Len(log) + 1] = result
  BY ReadFacts
<1>2. /\ \A n \in Positions : n \in Positions'
      /\ \A n \in Positions' : n \in Positions \/ n = Len(log) + 1
  BY <1>1
<1>3. UNCHANGED <<wpc, wcall, wtoken, wfrom, wto, wsteps, wlate, woutcome, replies>>
  BY DEF workVars, callVars
<1>4. wpc \notin {"idle", "ended"} => wcall \in Positions /\ log'[wcall] = log[wcall]
  BY <1>1 DEF TypeOK
<1>5. /\ active'.gen = active.gen /\ active'.id = active.id
      /\ active'.cancelled <=>
           (active.cancelled \/ (IsActive /\ Aimed(line, active.id, active.gen)))
  BY DEF Tracks, TypeOK, ActiveType
<1>6. HandleOwned'
  BY <1>3, <1>4, <1>5 DEF HandleOwned, Serving, IsActive
<1>7. TokenExact'
  <2>1. SUFFICES ASSUME wpc \in {"preflight", "probe", "step"}
                 PROVE  /\ wfrom <= Len(log')
                        /\ active'.cancelled <=>
                             AimedIn(log', wfrom, Len(log'), log[wcall].id, wtoken)
    BY <1>3, <1>4 DEF TokenExact
  <2>2. /\ wfrom <= Len(log) /\ wfrom \in Nat /\ IsActive
        /\ active.gen = wtoken /\ active.id = log[wcall].id
        /\ active.cancelled <=> AimedIn(log, wfrom, Len(log), log[wcall].id, wtoken)
    BY <2>1 DEF TokenExact, HandleOwned, Serving, TypeOK
  <2>3. AimedIn(log', wfrom, Len(log), log[wcall].id, wtoken)
          <=> AimedIn(log, wfrom, Len(log), log[wcall].id, wtoken)
    BY <1>1, <2>2, WindowKept
  <2>4. \A k : k \in wfrom + 1 .. Len(log') <=>
                 (k \in wfrom + 1 .. Len(log) \/ k = Len(log) + 1)
    BY <1>1, <2>2
  <2>5. AimedIn(log', wfrom, Len(log'), log[wcall].id, wtoken)
          <=> \/ AimedIn(log', wfrom, Len(log), log[wcall].id, wtoken)
              \/ Aimed(line, log[wcall].id, wtoken)
    BY <1>1, <2>4 DEF AimedIn
  <2> QED BY <1>1, <1>5, <2>2, <2>3, <2>5
<1>8. LateBound'
  BY <1>3, <1>5 DEF LateBound
<1>9. ResultsJustified'
  <2>1. ASSUME wpc \in {"finish", "resolve"} PROVE Justified(log', wcall, ResultOf)
    <3>1. ResultOf \in ResultType
      BY DEF ResultOf, Result, ResultType, TypeOK
    <3> QED BY <1>4, <2>1, <3>1, WindowKept DEF ResultsJustified
  <2>2. ASSUME NEW n \in Positions' PROVE Justified(log', n, futures'[n])
    <3>1. CASE n \in Positions
      <4>1. futures[n] \in ResultType
        BY <3>1 DEF TypeOK, Positions
      <4> QED BY <1>1, <3>1, <4>1, WindowKept DEF ResultsJustified
    <3>2. CASE n = Len(log) + 1
      BY <1>1, <3>2 DEF Justified
    <3> QED BY <1>2, <3>1, <3>2
  <2>3. ResultOf' = ResultOf
    BY <1>3 DEF ResultOf
  <2> QED BY <1>3, <2>1, <2>2, <2>3 DEF ResultsJustified
<1>10. RepliesJustified'
  <2>1. ASSUME NEW i \in DOMAIN replies
        PROVE  /\ replies[i].line \in Positions'
               /\ Justified(log', replies[i].line, replies[i].result)
    <3>0. replies[i] \in ReplyType
      BY DEF TypeOK
    <3>1. replies[i].result \in ResultType \cup OwnResultType
      BY <3>0 DEF ReplyType
    <3> QED BY <1>2, <3>1, WindowKept DEF RepliesJustified
  <2> QED BY <1>3, <2>1 DEF RepliesJustified
<1> QED BY <1>6, <1>7, <1>8, <1>9, <1>10

LEMMA ReadKeepsCancel ==
  ASSUME TypeInv, CancelInv, ReadCancel \/ ReadStop \/ ReadOdd \/ Submit
  PROVE  CancelInv'
<1> USE DEF Tracks, Aimed
<1>r. rreply # "cancelled"
  BY DEF CancelInv, RepliesJustified
<1>1. CASE ReadCancel
  <2>1. PICK line \in Lines :
          /\ line.kind = "cancel"
          /\ Read(line, Plainly("nothing"))
          /\ active' = RequestCancel(line.id, line.gen)
          /\ UNCHANGED <<rreply, workVars, replies>>
    BY <1>1 DEF ReadCancel, readerVars
  <2>2. Tracks(line)
    BY <2>1 DEF RequestCancel, Matches
  <2> HIDE DEF Tracks
  <2> QED BY <1>r, <2>1, <2>2, TakingKeepsCancel, PlainResults
<1>2. CASE ReadStop
  <2>1. PICK line \in Lines :
          /\ line.kind = "stop"
          /\ Read(line, Plainly("nothing"))
          /\ active' = IF line.fate = "stops" THEN RequestCancel(NullId, AnyGen) ELSE active
          /\ rreply' # "cancelled"
          /\ UNCHANGED <<workVars, replies>>
    BY <1>r, <1>2 DEF ReadStop, readerVars
  <2>2. Tracks(line)
    BY <2>1 DEF RequestCancel, Matches
  <2> HIDE DEF Tracks
  <2> QED BY <2>1, <2>2, TakingKeepsCancel, PlainResults
<1>3. CASE Submit
  <2>1. PICK line \in Lines :
          /\ line.kind \in {"call", "plain"}
          /\ Read(line, Pending)
          /\ UNCHANGED <<rreply, workVars, active, replies>>
    BY <1>3 DEF Submit, activeVars
  <2>2. Tracks(line)
    BY <2>1
  <2> HIDE DEF Tracks
  <2> QED BY <1>r, <2>1, <2>2, TakingKeepsCancel, PlainResults
<1>4. CASE ReadOdd
  <2>1. PICK line \in Lines :
          /\ line.kind = "odd"
          /\ Read(line, Plainly("nothing"))
          /\ UNCHANGED <<rreply, workVars, active, replies>>
    BY <1>4 DEF ReadOdd, activeVars
  <2>2. Tracks(line)
    BY <2>1
  <2> HIDE DEF Tracks
  <2> QED BY <1>r, <2>1, <2>2, TakingKeepsCancel, PlainResults
<1> QED BY <1>1, <1>2, <1>3, <1>4

(* Writing what a line has come to.                                        *)
LEMMA WritingKeepsCancel ==
  ASSUME TypeInv, CancelInv, NEW n \in Positions,
         NEW r \in ResultType \cup OwnResultType, Justified(log, n, r),
         UNCHANGED replies \/ replies' = Append(replies, Reply(n, r)),
         UNCHANGED <<log, rreply>>
  PROVE  RepliesJustified'
<1> USE DEF TypeInv, CancelInv
<1>0. Positions' = Positions
  BY DEF Positions
<1>1. CASE UNCHANGED replies
  BY <1>0, <1>1 DEF RepliesJustified
<1>2. CASE replies' = Append(replies, Reply(n, r))
  <2>1. Reply(n, r) \in ReplyType
    BY DEF Reply, ReplyType, Positions, TypeOK
  <2>2. /\ Len(replies) \in Nat /\ DOMAIN replies = 1 .. Len(replies)
        /\ DOMAIN replies' = 1 .. Len(replies) + 1
        /\ \A k \in DOMAIN replies : replies'[k] = replies[k]
        /\ replies'[Len(replies) + 1] = Reply(n, r)
    BY <1>2, <2>1, AppendKeeps DEF TypeOK
  <2>3. ASSUME NEW i \in DOMAIN replies'
        PROVE  /\ replies'[i].line \in Positions
               /\ Justified(log, replies'[i].line, replies'[i].result)
    <3>1. CASE i \in DOMAIN replies
      BY <2>2, <3>1 DEF RepliesJustified
    <3>2. CASE i = Len(replies) + 1
      BY <2>2, <3>2 DEF Reply
    <3> QED BY <2>2, <3>1, <3>2
  <2> QED BY <1>0, <2>3 DEF RepliesJustified
<1> QED BY <1>1, <1>2

LEMMA WorkerKeepsCancel ==
  ASSUME TypeInv, CancelInv, WorkerNext
  PROVE  CancelInv'
<1> USE DEF TypeInv, CancelInv
<1>0. /\ log' = log /\ rreply' = rreply /\ Positions' = Positions /\ Len(log) \in Nat
      /\ rpc' = rpc
  BY DEF WorkerNext, Take, WorkerEnds, HandleLine, Register, Refuse, Pass, Probe, Step, Finish,
         Resolve, WorkerEmit, readerVars, Positions, TypeOK
<1>f. ASSUME UNCHANGED futures, ~(wpc' \in {"finish", "resolve"}) PROVE ResultsJustified'
  BY <1>0, <1>f DEF ResultsJustified
<1>r. ASSUME UNCHANGED replies PROVE RepliesJustified'
  BY <1>0, <1>r DEF RepliesJustified
<1>1. CASE Take \/ WorkerEnds
  <2>1. /\ wpc = "idle" /\ wpc' \in {"taken", "ended"}
        /\ UNCHANGED <<futures, wlate, active, replies>>
    BY <1>1 DEF Take, WorkerEnds, Worker, callVars, activeVars
  <2> QED BY <1>f, <1>r, <2>1 DEF HandleOwned, TokenExact, LateBound, Serving, IsActive
<1>2. CASE HandleLine
  <2>1. /\ wpc = "taken" /\ wpc' = "resolve" /\ woutcome' # "cancelled"
        /\ UNCHANGED <<futures, wlate, active, replies>>
    BY <1>2 DEF HandleLine, Worker, activeVars
  <2>2. ResultsJustified'
    BY <1>0, <2>1 DEF ResultsJustified, Justified, ResultOf, Result
  <2> QED BY <1>r, <2>1, <2>2 DEF HandleOwned, TokenExact, LateBound, Serving, IsActive
<1>3. CASE Register
  <2>1. /\ active' = [id |-> log[wcall].id, gen |-> nextGen + 1, cancelled |-> FALSE]
        /\ wtoken' = nextGen + 1 /\ nextGen + 1 # 0
        /\ wfrom' = Len(log)
        /\ wpc = "taken" /\ wpc' = "preflight"
        /\ UNCHANGED <<wcall, wlate, futures, replies>>
    BY <1>3 DEF Register, Worker, TypeOK
  <2>2. wfrom' + 1 .. Len(log') = {}
    BY <1>0, <2>1
  <2>3. TokenExact'
    BY <1>0, <2>1, <2>2 DEF TokenExact, AimedIn
  <2> QED BY <1>0, <1>f, <1>r, <2>1, <2>3 DEF HandleOwned, LateBound, Serving, IsActive
<1>4. CASE Refuse \/ Pass
  <2>1. /\ wpc = "preflight" /\ wpc' \in {"finish", "probe"}
        /\ wpc' = "finish" => woutcome' = "refused"
        /\ wlate = 0
        /\ UNCHANGED <<futures, wcall, wtoken, wfrom, wlate, active, replies>>
    BY <1>4 DEF Refuse, Pass, Worker, Decide, LateBound, callVars, activeVars
  <2>2. ResultsJustified'
    BY <1>0, <2>1 DEF ResultsJustified, Justified, ResultOf, Result
  <2> QED BY <1>0, <1>r, <2>1, <2>2 DEF HandleOwned, TokenExact, LateBound, Serving, IsActive
<1>5. CASE Probe
  <2>1. /\ wpc = "probe" /\ wpc' \in {"step", "finish"}
        /\ wpc' = "step" => ~active.cancelled
        /\ wpc' = "finish" => active.cancelled /\ wto' = Len(log) /\ woutcome' = "cancelled"
        /\ UNCHANGED <<futures, active, wcall, wtoken, wfrom, wlate, replies>>
    BY <1>5 DEF Probe, Decide, activeVars
  <2>2. wlate \in Nat /\ (wpc' = "step" => wlate = 0) /\ wlate <= 1
    BY <2>1 DEF LateBound, TypeOK
  <2>3. wpc' = "finish" => Justified(log, wcall, ResultOf')
    BY <2>1 DEF TokenExact, Justified, ResultOf, Result
  <2>4. ResultsJustified'
    BY <1>0, <2>1, <2>3 DEF ResultsJustified
  <2> QED BY <1>0, <1>r, <2>1, <2>2, <2>4
          DEF HandleOwned, TokenExact, LateBound, Serving, IsActive
<1>6. CASE Step
  <2>1. /\ wpc = "step" /\ wpc' \in {"probe", "finish"}
        /\ wpc' = "finish" =>
             /\ wto' = Len(log)
             /\ woutcome' = "done" \/ (woutcome' = "cancelled" /\ active.cancelled)
        /\ wlate' = IF AimedBetween(wfrom, Len(log), log[wcall].id, wtoken)
                    THEN wlate + 1 ELSE wlate
        /\ UNCHANGED <<futures, active, wcall, wtoken, wfrom, replies>>
    BY <1>6 DEF Step, Decide, activeVars
  <2>2. /\ wlate = 0
        /\ active.cancelled <=> AimedBetween(wfrom, Len(log), log[wcall].id, wtoken)
    BY <2>1 DEF TokenExact, LateBound, AimedIn, AimedBetween
  <2>3. LateBound'
    BY <2>1, <2>2 DEF LateBound
  <2>4. wpc' = "finish" => Justified(log, wcall, ResultOf')
    BY <2>1 DEF TokenExact, Justified, ResultOf, Result
  <2>5. ResultsJustified'
    BY <1>0, <2>1, <2>4 DEF ResultsJustified
  <2> QED BY <1>0, <1>r, <2>1, <2>3, <2>5 DEF HandleOwned, TokenExact, Serving, IsActive
<1>7. CASE Finish
  <2>1. /\ wpc = "finish" /\ wpc' = "resolve"
        /\ active' = NoActive
        /\ UNCHANGED <<futures, wcall, wtoken, wfrom, wto, wlate, woutcome, replies>>
    BY <1>7 DEF Finish, Worker, callVars, HandleOwned, Serving
  <2>2. ResultsJustified'
    BY <1>0, <2>1 DEF ResultsJustified, ResultOf
  <2> QED BY <1>0, <1>r, <2>1, <2>2
          DEF HandleOwned, TokenExact, LateBound, Serving, IsActive, NoActive
<1>8. CASE Resolve
  <2>1. /\ wpc = "resolve" /\ wpc' \in {"emit", "idle"} /\ wlate' = 0
        /\ UNCHANGED <<active, replies>>
    BY <1>8 DEF Resolve, activeVars
  <2>2. Justified(log, wcall, ResultOf)
    BY <2>1 DEF ResultsJustified
  <2>3. ASSUME NEW n \in Positions PROVE Justified(log, n, futures'[n])
    <3>1. CASE n = wcall
      BY <1>8, <2>2, <3>1, ResolveFacts
    <3>2. CASE n # wcall
      BY <1>8, <3>2, ResolveFacts DEF ResultsJustified
    <3> QED BY <3>1, <3>2
  <2>4. ResultsJustified'
    BY <1>0, <2>1, <2>3 DEF ResultsJustified
  <2> QED BY <1>r, <2>1, <2>4 DEF HandleOwned, TokenExact, LateBound, Serving, IsActive
<1>9. CASE WorkerEmit
  <2>1. /\ wpc = "emit" /\ wpc' = "idle"
        /\ UNCHANGED <<futures, active, wlate>>
        /\ UNCHANGED replies \/ replies' = Append(replies, Reply(wcall, futures[wcall]))
    BY <1>9 DEF WorkerEmit, Worker, Emit, Write, callVars, activeVars
  <2>2. /\ wcall \in Positions
        /\ futures[wcall] \in ResultType /\ Justified(log, wcall, futures[wcall])
    BY <2>1 DEF TypeOK, Positions, ResultsJustified
  <2>3. RepliesJustified'
    BY <1>0, <2>1, <2>2, WritingKeepsCancel
  <2> QED BY <1>f, <2>1, <2>3 DEF HandleOwned, TokenExact, LateBound, Serving, IsActive
<1> QED BY <1>1, <1>2, <1>3, <1>4, <1>5, <1>6, <1>7, <1>8, <1>9 DEF WorkerNext

LEMMA OtherKeepsCancel ==
  ASSUME TypeInv, CancelInv,
         \/ Attach \/ ReaderWrite \/ ReadEnds \/ Join \/ CloseOutput
         \/ UNCHANGED vars
  PROVE  CancelInv'
<1> USE DEF TypeInv, CancelInv
<1>1. /\ UNCHANGED <<log, rreply, futures, wpc, wcall, wtoken, wfrom, wto, wlate, woutcome,
                     active>>
      /\ Positions' = Positions
  BY DEF Attach, ReaderWrite, ReadEnds, Join, CloseOutput, vars, readerVars, workVars, callVars,
         activeVars, Positions
<1>2. HandleOwned' /\ TokenExact' /\ LateBound'
  BY <1>1 DEF HandleOwned, TokenExact, LateBound, Serving, IsActive
<1>3. ResultsJustified'
  <2>1. ResultOf' = ResultOf
    BY <1>1 DEF ResultOf
  <2> QED BY <1>1, <2>1 DEF ResultsJustified
<1>4. RepliesJustified'
  <2>1. CASE Attach
    <3>1. /\ Len(log) \in Positions
          /\ futures[Len(log)] \in ResultType
          /\ Justified(log, Len(log), futures[Len(log)])
      <4>1. Len(log) \in Positions
        BY <2>1 DEF Attach, OutcomeInv, Positions, TypeOK
      <4> QED BY <4>1 DEF ResultsJustified, TypeOK, Positions
    <3>2. UNCHANGED replies \/ replies' = Append(replies, Reply(Len(log), futures[Len(log)]))
      BY <2>1 DEF Attach, Emit, Write
    <3> QED BY <1>1, <3>1, <3>2, WritingKeepsCancel
  <2>2. CASE ReaderWrite
    <3>1. Len(log) \in Positions
      BY <2>2 DEF ReaderWrite, OutcomeInv, Positions, TypeOK
    <3>2. /\ Plainly(rreply) \in OwnResultType
          /\ Justified(log, Len(log), Plainly(rreply))
      BY DEF Plainly, Result, OwnResultType, Justified, RepliesJustified, TypeOK
    <3>3. UNCHANGED replies \/ replies' = Append(replies, Reply(Len(log), Plainly(rreply)))
      BY <2>2 DEF ReaderWrite, Write
    <3> QED BY <1>1, <3>1, <3>2, <3>3, WritingKeepsCancel
  <2>3. CASE UNCHANGED replies
    BY <1>1, <2>3 DEF RepliesJustified
  <2> QED BY <2>1, <2>2, <2>3 DEF ReadEnds, Join, CloseOutput, vars
<1> QED BY <1>2, <1>3, <1>4

LEMMA CancelInvariant == Spec => []CancelInv
<1>1. Init => CancelInv
  BY DEF Init, CancelInv, HandleOwned, TokenExact, LateBound, ResultsJustified, RepliesJustified,
         Serving, IsActive, NoActive, Positions
<1>2. TypeInv /\ CancelInv /\ [Next]_vars => CancelInv'
  BY ReadKeepsCancel, WorkerKeepsCancel, OtherKeepsCancel DEF Next, ReaderNext, Exited
<1> QED BY <1>1, <1>2, TypeInvariant, PTL DEF Spec

(* A call is answered `cancelled' only if, after its registration and      *)
(* before its outcome was decided, the reader took a line aimed at it:     *)
(* through the thread, its future, and whoever wrote the answer.           *)
THEOREM CancellationScoped == Spec => []CancelScoped
<1>1. CancelInv => CancelScoped
  BY DEF CancelInv, RepliesJustified, Justified, AimedIn, CancelScoped, AimedBetween
<1> QED BY <1>1, CancelInvariant, PTL

(* After such a line a registered command executes at most the one native  *)
(* operation it had been cleared for, perhaps in part, wherever in its     *)
(* preflight or its work the line met it.                                  *)
THEOREM CancellationPrompt == Spec => []CancelPrompt
<1>1. CancelInv => CancelPrompt
  BY DEF CancelInv, LateBound, CancelPrompt
<1> QED BY <1>1, CancelInvariant, PTL

-----------------------------------------------------------------------------
(* Answers.  A line that waits for its answer, in the queue, with the      *)
(* thread or in the reader's hands, has none yet; and whatever of the      *)
(* executor's is answered came before whatever still waits.                *)
Unanswered(n) == \A k \in DOMAIN replies : replies[k].line # n

NoneYet ==
  /\ \A i \in DOMAIN tasks : Unanswered(tasks[i])
  /\ Busy => Unanswered(wcall)
  /\ rpc \in {"attach", "write"} => Unanswered(Len(log))

AnsweredBehind ==
  \A k \in DOMAIN replies :
    /\ replies[k].line \in Positions
    /\ Served(k) => /\ \A i \in DOMAIN tasks : replies[k].line < tasks[i]
                    /\ Busy => replies[k].line < wcall

OrderInv == NoneYet /\ AnsweredBehind /\ AnsweredInOrder

(* A step that writes nothing and gives nobody a line.                     *)
LEMMA QuietKeepsOrder ==
  ASSUME TypeInv, OrderInv,
         UNCHANGED <<log, tasks, wcall, replies>>,
         Busy' => Busy,
         rpc' \in {"attach", "write"} => rpc \in {"attach", "write"}
  PROVE  OrderInv'
BY DEF OrderInv, NoneYet, AnsweredBehind, AnsweredInOrder, Served, Unanswered, Positions

(* A step that writes the answer of a line which then waits nowhere.       *)
LEMMA WritingKeepsOrder ==
  ASSUME TypeInv, OrderInv, NEW n \in Positions, NEW r \in ResultType \cup OwnResultType,
         replies' = Append(replies, Reply(n, r)),
         UNCHANGED <<log, tasks, wcall>>,
         Busy' => Busy,
         rpc' \in {"attach", "write"} => rpc \in {"attach", "write"} /\ n # Len(log),
         Unanswered(n),
         \A i \in DOMAIN tasks : n # tasks[i],
         Busy' => n # wcall,
         ForExecutor(n) => /\ \A k \in DOMAIN replies : Served(k) => replies[k].line < n
                           /\ \A i \in DOMAIN tasks : n < tasks[i]
                           /\ Busy' => n < wcall
  PROVE  OrderInv'
<1> USE DEF TypeInv, OrderInv
<1>1. /\ Len(replies) \in Nat /\ DOMAIN replies = 1 .. Len(replies)
      /\ DOMAIN replies' = 1 .. Len(replies) + 1
      /\ \A k \in DOMAIN replies : replies'[k] = replies[k]
      /\ replies'[Len(replies) + 1].line = n
  <2>1. Reply(n, r) \in ReplyType /\ Reply(n, r).line = n
    BY DEF Reply, ReplyType, Positions, TypeOK
  <2> QED BY <2>1, AppendKeeps DEF TypeOK
<1>2. \A k \in DOMAIN replies' :
        \/ k \in DOMAIN replies /\ replies'[k] = replies[k] /\ k < Len(replies) + 1
        \/ k = Len(replies) + 1 /\ replies'[k].line = n
  BY <1>1
<1>3. Positions' = Positions
  BY DEF Positions
<1>4. NoneYet'
  <2>1. ASSUME NEW m, Unanswered(m), m # n PROVE \A k \in DOMAIN replies' : replies'[k].line # m
    BY <1>2, <2>1 DEF Unanswered
  <2>2. \A i \in DOMAIN tasks : \A k \in DOMAIN replies' : replies'[k].line # tasks[i]
    BY <2>1 DEF NoneYet
  <2>3. Busy' => \A k \in DOMAIN replies' : replies'[k].line # wcall
    BY <2>1 DEF NoneYet
  <2>4. rpc' \in {"attach", "write"} => \A k \in DOMAIN replies' : replies'[k].line # Len(log)
    BY <2>1 DEF NoneYet
  <2> QED BY <2>2, <2>3, <2>4 DEF NoneYet, Unanswered
<1>5. AnsweredBehind'
  <2>1. ASSUME NEW k \in DOMAIN replies'
        PROVE  /\ replies'[k].line \in Positions
               /\ log[replies'[k].line].kind \in {"call", "plain"} =>
                    /\ \A i \in DOMAIN tasks : replies'[k].line < tasks[i]
                    /\ Busy' => replies'[k].line < wcall
    <3>1. CASE k \in DOMAIN replies /\ replies'[k] = replies[k]
      BY <3>1 DEF AnsweredBehind, Served
    <3>2. CASE replies'[k].line = n
      BY <3>2 DEF ForExecutor
    <3> QED BY <1>2, <3>1, <3>2
  <2> QED BY <1>3, <2>1 DEF AnsweredBehind, Served
<1>6. AnsweredInOrder'
  <2>1. ASSUME NEW i \in DOMAIN replies', NEW j \in DOMAIN replies', i < j,
               log[replies'[i].line].kind \in {"call", "plain"},
               log[replies'[j].line].kind \in {"call", "plain"}
        PROVE  replies'[i].line < replies'[j].line
    <3>1. i \in DOMAIN replies /\ replies'[i] = replies[i]
      BY <1>1, <2>1
    <3>2. CASE j \in DOMAIN replies /\ replies'[j] = replies[j]
      BY <2>1, <3>1, <3>2 DEF AnsweredInOrder, Served
    <3>3. CASE replies'[j].line = n
      BY <2>1, <3>1, <3>3 DEF Served, ForExecutor
    <3> QED BY <1>2, <3>2, <3>3
  <2> QED BY <2>1 DEF AnsweredInOrder, Served
<1> QED BY <1>4, <1>5, <1>6

LEMMA ReadKeepsOrder ==
  ASSUME TypeInv, OrderInv, ReadCancel \/ ReadStop \/ ReadOdd \/ Submit
  PROVE  OrderInv'
<1> USE DEF TypeInv, OrderInv
<1>1. PICK line \in Lines, result \in ResultType :
        /\ Read(line, result)
        /\ \/ UNCHANGED tasks
           \/ tasks' = Append(tasks, Position)
        /\ UNCHANGED <<workVars, replies>>
  <2>1. ReadCancel \/ ReadStop \/ ReadOdd =>
          \E line \in Lines :
            Read(line, Plainly("nothing")) /\ UNCHANGED <<tasks, workVars, replies>>
    BY DEF ReadCancel, ReadStop, ReadOdd
  <2>2. Submit => \E line \in Lines : /\ Read(line, Pending) /\ tasks' = Append(tasks, Position)
                                      /\ UNCHANGED <<workVars, replies>>
    BY DEF Submit
  <2> QED BY <2>1, <2>2, PlainResults
<1>2. /\ Len(log) \in Nat /\ Len(log') = Len(log) + 1
      /\ Positions = 1 .. Len(log) /\ Positions' = 1 .. Len(log) + 1
      /\ \A k \in Positions : log'[k] = log[k]
  BY <1>1, ReadFacts
<1>3. /\ \A n \in Positions : n \in Positions' /\ n < Len(log) + 1 /\ n # Len(log) + 1
  BY <1>2
<1>4. /\ UNCHANGED <<wpc, wcall, replies>> /\ Busy' = Busy
      /\ Busy => wcall \in Positions
      /\ \A k \in DOMAIN replies : replies[k].line \in Positions
      /\ \A i \in DOMAIN tasks : tasks[i] \in Positions
  BY <1>1 DEF workVars, Busy, TypeOK, AnsweredBehind
<1>5. \A i \in DOMAIN tasks' :
        \/ i \in DOMAIN tasks /\ tasks'[i] = tasks[i]
        \/ tasks'[i] = Len(log) + 1
  <2>1. CASE UNCHANGED tasks
    BY <2>1
  <2>2. CASE tasks' = Append(tasks, Position)
    <3>1. Position \in Nat /\ tasks \in Seq(Nat) /\ Position = Len(log) + 1
      BY <1>2 DEF Position, TypeOK
    <3> QED BY <2>2, <3>1, AppendKeeps
  <2> QED BY <1>1, <2>1, <2>2
<1>6. \A k \in DOMAIN replies : replies[k].line # Len(log) + 1
  BY <1>3, <1>4
<1>7. NoneYet'
  <2>1. \A i \in DOMAIN tasks' : \A k \in DOMAIN replies : replies[k].line # tasks'[i]
    BY <1>5, <1>6 DEF NoneYet, Unanswered
  <2>2. Busy => \A k \in DOMAIN replies : replies[k].line # wcall
    BY DEF NoneYet, Unanswered
  <2> QED BY <1>2, <1>4, <1>6, <2>1, <2>2 DEF NoneYet, Unanswered
<1>8. \A k \in DOMAIN replies : Served(k)' = Served(k)
  BY <1>2, <1>4 DEF Served
<1>9. AnsweredBehind'
  <2>1. ASSUME NEW k \in DOMAIN replies, Served(k), NEW i \in DOMAIN tasks'
        PROVE  replies[k].line < tasks'[i]
    BY <1>3, <1>4, <1>5, <2>1 DEF AnsweredBehind
  <2>2. \A k \in DOMAIN replies : Served(k) /\ Busy => replies[k].line < wcall
    BY DEF AnsweredBehind
  <2> QED BY <1>3, <1>4, <1>8, <2>1, <2>2 DEF AnsweredBehind
<1>10. AnsweredInOrder'
  BY <1>4, <1>8 DEF AnsweredInOrder
<1> QED BY <1>7, <1>9, <1>10

LEMMA TakeKeepsOrder ==
  ASSUME TypeInv, OrderInv, Take
  PROVE  OrderInv'
<1> USE DEF TypeInv, OrderInv
<1>1. UNCHANGED <<log, rpc, replies>>
  BY DEF Take, readerVars
<1>2. /\ Len(tasks) \in Nat /\ Len(tasks) >= 1
      /\ DOMAIN tasks = 1 .. Len(tasks)
      /\ DOMAIN tasks' = 1 .. Len(tasks) - 1
      /\ \A i \in DOMAIN tasks' : tasks'[i] = tasks[i + 1]
      /\ wcall' = tasks[1]
  BY TailShifts DEF Take, TypeOK
<1>3. 1 \in DOMAIN tasks /\ \A i \in DOMAIN tasks' : i + 1 \in DOMAIN tasks
  BY <1>2
<1>4. NoneYet'
  <2>1. \A k \in DOMAIN replies : /\ replies[k].line # wcall'
                                  /\ \A i \in DOMAIN tasks' : replies[k].line # tasks'[i]
    BY <1>2, <1>3 DEF NoneYet, Unanswered
  <2> QED BY <1>1, <2>1 DEF NoneYet, Unanswered
<1>5. AnsweredBehind'
  <2>1. \A k \in DOMAIN replies : Served(k) =>
          replies[k].line < wcall' /\ \A i \in DOMAIN tasks' : replies[k].line < tasks'[i]
    BY <1>2, <1>3 DEF AnsweredBehind
  <2>2. Positions' = Positions /\ \A k \in DOMAIN replies : Served(k)' = Served(k)
    BY <1>1 DEF Positions, Served
  <2> QED BY <1>1, <2>1, <2>2 DEF AnsweredBehind
<1>6. AnsweredInOrder'
  BY <1>1 DEF AnsweredInOrder, Served
<1> QED BY <1>4, <1>5, <1>6

(* The thread emits the result of its line ...                             *)
LEMMA WorkerEmitKeepsOrder ==
  ASSUME TypeInv, OrderInv, WorkerEmit
  PROVE  OrderInv'
<1> USE DEF TypeInv
<1>1. /\ wpc = "emit" /\ wpc' = "idle" /\ Busy /\ ~Busy'
      /\ UNCHANGED <<log, rpc, tasks, wcall>>
      /\ UNCHANGED replies \/ replies' = Append(replies, Reply(wcall, futures[wcall]))
  BY DEF WorkerEmit, Worker, Emit, Write, Busy, readerVars
<1>2. CASE UNCHANGED replies
  BY <1>1, <1>2, QuietKeepsOrder
<1>3. CASE replies' = Append(replies, Reply(wcall, futures[wcall]))
  <2>1. wcall \in Positions /\ wcall \in Nat /\ futures[wcall] \in ResultType
    BY <1>1 DEF TypeOK, Positions
  <2>2. rpc \in {"attach", "write"} => wcall # Len(log)
    BY <1>1 DEF QueueInv, OutcomeInv, Attached, ForExecutor
  <2>3. /\ Unanswered(wcall)
        /\ \A k \in DOMAIN replies : Served(k) => replies[k].line < wcall
    BY <1>1 DEF OrderInv, NoneYet, AnsweredBehind
  <2>4. \A i \in DOMAIN tasks : wcall < tasks[i] /\ wcall # tasks[i]
    <3>1. \A i \in DOMAIN tasks : wcall < tasks[i] /\ tasks[i] \in Nat
      BY <1>1 DEF QueueInv, TypeOK
    <3> QED BY <2>1, <3>1
  <2> QED BY <1>1, <1>3, <2>1, <2>2, <2>3, <2>4, WritingKeepsOrder
<1> QED BY <1>1, <1>2, <1>3

(* ... or the reader does, when the future was resolved before the         *)
(* callback was there: then the thread has nothing left, and no other line *)
(* waits.                                                                  *)
LEMMA AttachKeepsOrder ==
  ASSUME TypeInv, OrderInv, Attach
  PROVE  OrderInv'
<1> USE DEF TypeInv
<1>1. /\ rpc = "attach" /\ rpc' = "read" /\ Busy' = Busy
      /\ UNCHANGED <<log, tasks, wcall>>
      /\ \/ UNCHANGED replies
         \/ /\ futures[Len(log)] # Pending
            /\ replies' = Append(replies, Reply(Len(log), futures[Len(log)]))
  BY DEF Attach, Emit, Write, Busy, workVars
<1>2. CASE UNCHANGED replies
  BY <1>1, <1>2, QuietKeepsOrder
<1>3. CASE /\ futures[Len(log)] # Pending
           /\ replies' = Append(replies, Reply(Len(log), futures[Len(log)]))
  <2>1. /\ Len(log) \in Positions /\ Len(log) \in Nat /\ ForExecutor(Len(log))
        /\ \A n \in Positions : n \in Nat /\ n <= Len(log)
    BY <1>1 DEF OutcomeInv, Positions, TypeOK
  <2>2. futures[Len(log)] \in ResultType
    BY <2>1 DEF TypeOK, Positions
  <2>3. /\ \A i \in DOMAIN tasks : Len(log) < tasks[i]
        /\ Busy => Len(log) <= wcall
    BY <1>3, <2>1 DEF QueueInv
  <2>4. ~Busy
    <3>1. Busy => wcall = Len(log)
      <4>1. Busy => wcall \in Positions
        BY DEF TypeOK, Busy
      <4> QED BY <2>1, <2>3, <4>1
    <3> QED BY <1>1, <1>3, <3>1 DEF QueueInv, Attached, Unresolved
  <2>5. Unanswered(Len(log)) /\ \A k \in DOMAIN replies : replies[k].line < Len(log)
    <3>1. Unanswered(Len(log)) /\ \A k \in DOMAIN replies : replies[k].line \in Positions
      BY <1>1 DEF OrderInv, NoneYet, AnsweredBehind
    <3> QED BY <2>1, <3>1 DEF Unanswered
  <2>6. \A i \in DOMAIN tasks : Len(log) # tasks[i]
    BY <2>1, <2>3
  <2> QED BY <1>1, <1>3, <2>1, <2>2, <2>3, <2>4, <2>5, <2>6, WritingKeepsOrder
<1> QED BY <1>1, <1>2, <1>3

LEMMA ReaderWriteKeepsOrder ==
  ASSUME TypeInv, OrderInv, ReaderWrite
  PROVE  OrderInv'
<1> USE DEF TypeInv
<1>1. /\ rpc = "write" /\ rpc' \in {"read", "closing"} /\ Busy' = Busy
      /\ UNCHANGED <<log, tasks, wcall>>
      /\ UNCHANGED replies \/ replies' = Append(replies, Reply(Len(log), Plainly(rreply)))
  BY DEF ReaderWrite, Write, Busy, workVars
<1>2. CASE UNCHANGED replies
  BY <1>1, <1>2, QuietKeepsOrder
<1>3. CASE replies' = Append(replies, Reply(Len(log), Plainly(rreply)))
  <2>1. /\ Len(log) \in Positions /\ ~ForExecutor(Len(log))
        /\ Plainly(rreply) \in OwnResultType
    BY <1>1 DEF OutcomeInv, ForExecutor, Positions, TypeOK, Plainly, Result, OwnResultType
  <2>2. /\ \A i \in DOMAIN tasks : Len(log) # tasks[i]
        /\ Busy => Len(log) # wcall
    BY <2>1 DEF QueueInv
  <2>3. Unanswered(Len(log))
    BY <1>1 DEF OrderInv, NoneYet
  <2> QED BY <1>1, <1>3, <2>1, <2>2, <2>3, WritingKeepsOrder
<1> QED BY <1>1, <1>2, <1>3

LEMMA OrderInvariant == Spec => []OrderInv
<1>1. Init => OrderInv
  BY DEF Init, OrderInv, NoneYet, AnsweredBehind, AnsweredInOrder, Busy
<1>2. TypeInv /\ OrderInv /\ [Next]_vars => OrderInv'
  <2> SUFFICES ASSUME TypeInv, OrderInv, [Next]_vars PROVE OrderInv'
    OBVIOUS
  <2>1. CASE HandleLine \/ Register \/ Refuse \/ Pass \/ Probe \/ Step \/ Finish \/ Resolve
    <3>1. /\ UNCHANGED <<log, rpc, tasks, wcall, replies>>
          /\ Busy
      BY <2>1 DEF HandleLine, Register, Refuse, Pass, Probe, Step, Finish, Resolve, Worker, Busy,
                  readerVars
    <3> QED BY <3>1, QuietKeepsOrder
  <2>2. CASE WorkerEnds \/ CloseOutput \/ ReadEnds \/ Join \/ UNCHANGED vars
    <3>1. /\ UNCHANGED <<log, tasks, wcall, replies>>
          /\ Busy' = Busy
          /\ rpc' = rpc \/ rpc' \in {"closing", "exited"}
      BY <2>2 DEF WorkerEnds, CloseOutput, ReadEnds, Join, vars, Worker, Busy, readerVars, workVars
    <3> QED BY <3>1, QuietKeepsOrder
  <2> QED BY <2>1, <2>2, ReadKeepsOrder, TakeKeepsOrder, WorkerEmitKeepsOrder, AttachKeepsOrder,
             ReaderWriteKeepsOrder DEF Next, ReaderNext, WorkerNext, Exited
<1> QED BY <1>1, <1>2, TypeInvariant, PTL DEF Spec

(* The lines the executor serves are answered in input order and never     *)
(* twice, whoever writes: the thread from the callback, or the reader when *)
(* the future was resolved before the callback was attached.               *)
THEOREM AnswersInOrder == Spec => []AnsweredInOrder
<1>1. OrderInv => AnsweredInOrder
  BY DEF OrderInv
<1> QED BY <1>1, OrderInvariant, PTL

-----------------------------------------------------------------------------
(* Nothing is forgotten.  An answer that is owed is written, or the line   *)
(* is in the queue, with the thread, or in the reader's hands, or it broke *)
(* the reader's loop: and after such a line none is read.                  *)
Answered(n) == \E i \in DOMAIN replies : replies[i].line = n

OddIsLast ==
  \A n \in Positions : log[n].kind = "odd" =>
    n = Len(log) /\ rpc \in {"closing", "exited"}

OwedInv ==
  piped => \A n \in Positions : WantsAnswer(n) =>
    \/ BrokeTheLoop(n)
    \/ Answered(n)
    \/ \E i \in DOMAIN tasks : tasks[i] = n
    \/ Busy /\ n = wcall
    \/ rpc \in {"attach", "write"} /\ n = Len(log)

LEMMA OddIsLastInvariant == Spec => []OddIsLast
<1>1. Init => OddIsLast
  BY DEF Init, OddIsLast, Positions
<1>2. TypeInv /\ OddIsLast /\ [Next]_vars => OddIsLast'
  <2> SUFFICES ASSUME TypeInv, OddIsLast, [Next]_vars PROVE OddIsLast'
    OBVIOUS
  <2>1. CASE ReadCancel \/ ReadStop \/ ReadOdd \/ Submit
    <3>1. PICK line \in Lines, result \in ResultType :
            Read(line, result) /\ (line.kind = "odd" => rpc' = "closing")
      BY <2>1, PlainResults DEF ReadCancel, ReadStop, ReadOdd, Submit
    <3>2. /\ rpc = "read" /\ Len(log') = Len(log) + 1
          /\ Positions = 1 .. Len(log) /\ Positions' = 1 .. Len(log) + 1 /\ Len(log) \in Nat
          /\ \A k \in Positions : log'[k] = log[k]
          /\ log'[Len(log) + 1] = line
      BY <3>1, ReadFacts DEF TypeInv
    <3>3. \A n \in Positions' : n \in Positions \/ n = Len(log')
      BY <3>2
    <3>4. \A n \in Positions : log[n].kind # "odd"
      BY <3>2 DEF OddIsLast
    <3> QED BY <3>1, <3>2, <3>3, <3>4 DEF OddIsLast
  <2>2. CASE Attach \/ ReaderWrite \/ ReadEnds \/ Join
    <3>1. /\ UNCHANGED log
          /\ rpc' \in {"closing", "exited"} \/ rpc \in {"attach", "write"}
      BY <2>2 DEF Attach, ReaderWrite, ReadEnds, Join
    <3> QED BY <3>1 DEF OddIsLast, Positions
  <2>3. CASE WorkerNext \/ CloseOutput \/ UNCHANGED vars
    <3>1. UNCHANGED <<log, rpc>>
      BY <2>3 DEF WorkerNext, Take, WorkerEnds, HandleLine, Register, Refuse, Pass, Probe, Step,
                  Finish, Resolve, WorkerEmit, CloseOutput, vars, readerVars
    <3> QED BY <3>1 DEF OddIsLast, Positions
  <2> QED BY <2>1, <2>2, <2>3 DEF Next, ReaderNext, Exited
<1> QED BY <1>1, <1>2, TypeInvariant, PTL DEF Spec

(* Steps that leave every line where it is.                                *)
LEMMA QuietKeepsOwed ==
  ASSUME TypeInv, OwedInv,
         UNCHANGED <<log, tasks, wcall, replies>>,
         Busy => Busy', piped' => piped,
         rpc \in {"attach", "write"} => rpc' = rpc
  PROVE  OwedInv'
BY DEF OwedInv, WantsAnswer, BrokeTheLoop, Answered, Positions

(* Steps that take the line n out of the hands of one thread: it is        *)
(* answered, or wants none, or waits with the other.                       *)
LEMMA LettingGoKeepsOwed ==
  ASSUME TypeInv, OwedInv, NEW n \in Positions,
         UNCHANGED <<log, tasks, wcall>>,
         piped' => piped,
         \A m \in Positions : Answered(m) => Answered(m)',
         piped' /\ WantsAnswer(n) =>
           Answered(n)' \/ (\E i \in DOMAIN tasks : tasks[i] = n)
             \/ (Busy' /\ n = wcall) \/ (rpc' \in {"attach", "write"} /\ n = Len(log)),
         Busy /\ wcall # n => Busy',
         rpc \in {"attach", "write"} /\ Len(log) # n => rpc' = rpc
  PROVE  OwedInv'
<1>1. /\ Positions' = Positions
      /\ \A m \in Positions : /\ WantsAnswer(m)' = WantsAnswer(m)
                              /\ BrokeTheLoop(m)' = BrokeTheLoop(m)
  BY DEF Positions, WantsAnswer, BrokeTheLoop
<1>2. ASSUME piped', NEW m \in Positions, WantsAnswer(m)
      PROVE  \/ BrokeTheLoop(m)
             \/ Answered(m)'
             \/ \E i \in DOMAIN tasks : tasks[i] = m
             \/ Busy' /\ m = wcall
             \/ rpc' \in {"attach", "write"} /\ m = Len(log)
  <2>1. CASE m = n
    BY <1>2, <2>1
  <2>2. CASE m # n
    BY <1>2, <2>2 DEF OwedInv
  <2> QED BY <2>1, <2>2
<1> QED BY <1>1, <1>2 DEF OwedInv

LEMMA WriteAnswers ==
  ASSUME TypeInv, NEW n \in Positions, NEW r \in ResultType \cup OwnResultType,
         replies' = Append(replies, Reply(n, r))
  PROVE  Answered(n)' /\ \A m : Answered(m) => Answered(m)'
<1>1. Reply(n, r) \in ReplyType /\ Reply(n, r).line = n
  BY DEF Reply, ReplyType, Positions, TypeInv, TypeOK
<1>2. /\ Len(replies) \in Nat /\ DOMAIN replies = 1 .. Len(replies)
      /\ DOMAIN replies' = 1 .. Len(replies) + 1
      /\ \A k \in DOMAIN replies : replies'[k] = replies[k]
      /\ replies'[Len(replies) + 1].line = n
  BY <1>1, AppendKeeps DEF TypeInv, TypeOK
<1>3. Len(replies) + 1 \in DOMAIN replies' /\ \A k \in DOMAIN replies : k \in DOMAIN replies'
  BY <1>2
<1> QED BY <1>2, <1>3 DEF Answered

LEMMA ReadKeepsOwed ==
  ASSUME TypeInv, OddIsLast, OwedInv, ReadCancel \/ ReadStop \/ ReadOdd \/ Submit
  PROVE  OwedInv'
<1> USE DEF TypeInv
<1>1. PICK line \in Lines, result \in ResultType :
        /\ Read(line, result)
        /\ UNCHANGED <<piped, workVars, replies>>
        /\ \/ /\ line.kind = "cancel" /\ UNCHANGED tasks
           \/ /\ line.kind = "stop" /\ UNCHANGED tasks
              /\ line.fate # "dropped" => rpc' = "write"
           \/ /\ line.kind = "odd" /\ UNCHANGED tasks
           \/ tasks' = Append(tasks, Position)
  <2>1. ReadCancel =>
          \E line \in Lines : /\ Read(line, Plainly("nothing")) /\ line.kind = "cancel"
                              /\ UNCHANGED <<tasks, piped, workVars, replies>>
    BY DEF ReadCancel
  <2>2. ReadStop =>
          \E line \in Lines : /\ Read(line, Plainly("nothing")) /\ line.kind = "stop"
                              /\ line.fate # "dropped" => rpc' = "write"
                              /\ UNCHANGED <<tasks, piped, workVars, replies>>
    BY DEF ReadStop
  <2>3. Submit => \E line \in Lines : /\ Read(line, Pending) /\ tasks' = Append(tasks, Position)
                                      /\ UNCHANGED <<piped, workVars, replies>>
    BY DEF Submit
  <2>4. ReadOdd =>
          \E line \in Lines : /\ Read(line, Plainly("nothing")) /\ line.kind = "odd"
                              /\ UNCHANGED <<tasks, piped, workVars, replies>>
    BY DEF ReadOdd
  <2> QED BY <2>1, <2>2, <2>3, <2>4, PlainResults
<1>2. /\ Len(log) \in Nat /\ Len(log') = Len(log) + 1 /\ rpc = "read"
      /\ Positions = 1 .. Len(log) /\ Positions' = 1 .. Len(log) + 1
      /\ \A k \in Positions : log'[k] = log[k]
      /\ log'[Len(log) + 1] = line
  BY <1>1, ReadFacts
<1>3. /\ \A n \in Positions' : n \in Positions \/ n = Len(log) + 1
      /\ UNCHANGED <<piped, wcall, replies>> /\ Busy' = Busy
      /\ \A n : Answered(n)' = Answered(n)
  BY <1>1, <1>2 DEF Busy, workVars, Answered
<1>4. \A n \in Positions : WantsAnswer(n)' = WantsAnswer(n)
  BY <1>2 DEF WantsAnswer
<1>5. /\ \A i \in DOMAIN tasks : i \in DOMAIN tasks' /\ tasks'[i] = tasks[i]
      /\ tasks' = Append(tasks, Position) => \E i \in DOMAIN tasks' : tasks'[i] = Len(log) + 1
  <2>1. CASE UNCHANGED tasks /\ tasks' # Append(tasks, Position)
    BY <2>1
  <2>2. CASE tasks' = Append(tasks, Position)
    <3>1. Position \in Nat /\ tasks \in Seq(Nat) /\ Position = Len(log) + 1
      BY <1>2 DEF Position, TypeOK
    <3>2. /\ DOMAIN tasks = 1 .. Len(tasks) /\ Len(tasks) \in Nat
          /\ DOMAIN tasks' = 1 .. Len(tasks) + 1
          /\ \A k \in 1 .. Len(tasks) : tasks'[k] = tasks[k]
          /\ tasks'[Len(tasks) + 1] = Len(log) + 1
      BY <2>2, <3>1, AppendKeeps
    <3> QED BY <3>2
  <2> QED BY <1>1, <2>1, <2>2
<1>6. ASSUME piped, NEW n \in Positions', WantsAnswer(n)'
      PROVE  \/ BrokeTheLoop(n)'
             \/ Answered(n)
             \/ \E i \in DOMAIN tasks' : tasks'[i] = n
             \/ Busy /\ n = wcall
             \/ rpc' \in {"attach", "write"} /\ n = Len(log')
  <2>1. CASE n \in Positions
    <3>1. ~BrokeTheLoop(n)
      BY <1>2, <2>1 DEF OddIsLast, BrokeTheLoop
    <3> QED BY <1>2, <1>4, <1>5, <1>6, <2>1, <3>1 DEF OwedInv
  <2>2. CASE n = Len(log) + 1
    <3>1. CASE tasks' = Append(tasks, Position)
      BY <1>5, <2>2, <3>1
    <3>2. CASE tasks' # Append(tasks, Position)
      BY <1>1, <1>2, <1>6, <2>2, <3>2 DEF WantsAnswer, BrokeTheLoop
    <3> QED BY <3>1, <3>2
  <2> QED BY <1>3, <2>1, <2>2
<1> QED BY <1>3, <1>6 DEF OwedInv

LEMMA TakeKeepsOwed ==
  ASSUME TypeInv, OwedInv, Take
  PROVE  OwedInv'
<1>1. /\ UNCHANGED <<log, piped, rpc, replies>>
      /\ ~Busy /\ Busy'
  BY DEF Take, Worker, Busy, readerVars
<1>2. /\ Len(tasks) \in Nat /\ Len(tasks) >= 1
      /\ DOMAIN tasks = 1 .. Len(tasks)
      /\ DOMAIN tasks' = 1 .. Len(tasks) - 1
      /\ \A i \in DOMAIN tasks' : tasks'[i] = tasks[i + 1]
      /\ wcall' = tasks[1]
  BY TailShifts DEF Take, TypeInv, TypeOK
<1>3. ASSUME NEW i \in DOMAIN tasks
      PROVE  tasks[i] = wcall' \/ \E j \in DOMAIN tasks' : tasks'[j] = tasks[i]
  <2>1. CASE i = 1
    BY <1>2, <2>1
  <2>2. CASE i # 1
    <3>1. i - 1 \in DOMAIN tasks' /\ i - 1 + 1 = i
      BY <1>2, <2>2
    <3> QED BY <1>2, <3>1
  <2> QED BY <2>1, <2>2
<1> QED BY <1>1, <1>3 DEF OwedInv, WantsAnswer, BrokeTheLoop, Answered, Positions

(* Resolving and emitting, by the thread or by the reader.                 *)
LEMMA HandingOverKeepsOwed ==
  ASSUME TypeInv, OwedInv, Resolve \/ WorkerEmit \/ Attach \/ ReaderWrite
  PROVE  OwedInv'
<1> USE DEF TypeInv
<1>0. UNCHANGED <<log, piped, tasks, wcall>>
  BY DEF Resolve, WorkerEmit, Attach, ReaderWrite, workVars
<1>1. CASE Resolve
  <2>1. /\ wcall \in Positions /\ UNCHANGED <<rpc, replies>>
        /\ Busy' \/ (rpc' = "attach" /\ wcall = Len(log))
    BY <1>1 DEF Resolve, TypeOK, Busy, Attached, readerVars
  <2>2. \A m \in Positions : Answered(m) => Answered(m)'
    BY <2>1 DEF Answered
  <2> QED BY <1>0, <2>1, <2>2, LettingGoKeepsOwed
<1>2. CASE WorkerEmit
  <2>1. /\ wpc = "emit" /\ UNCHANGED rpc /\ Emit(wcall)
        /\ wcall \in Positions /\ futures[wcall] \in ResultType
        /\ futures[wcall] # Pending /\ ForExecutor(wcall)
    BY <1>2 DEF WorkerEmit, Worker, TypeOK, Positions, QueueInv, Busy, readerVars
  <2>2. futures[wcall].kind = "nothing" => ~WantsAnswer(wcall)
    BY <2>1 DEF OutcomeInv, Settled, WantsAnswer, ForExecutor
  <2>3. ASSUME piped, futures[wcall].kind # "nothing"
        PROVE  \E i \in DOMAIN replies' : replies'[i].line = wcall
    BY <2>1, <2>3, WriteAnswers DEF Emit, Write, Answered
  <2>4. \A m \in Positions : Answered(m) => Answered(m)'
    BY <2>1, WriteAnswers DEF Emit, Write, Answered
  <2>5. piped /\ WantsAnswer(wcall) => \E i \in DOMAIN replies' : replies'[i].line = wcall
    BY <2>2, <2>3
  <2> QED BY <1>0, <2>1, <2>4, <2>5, LettingGoKeepsOwed DEF Answered
<1>3. CASE Attach
  <2>1. /\ rpc = "attach" /\ Busy' = Busy
        /\ IF futures[Len(log)] = Pending THEN UNCHANGED replies ELSE Emit(Len(log))
        /\ Len(log) \in Positions /\ ForExecutor(Len(log))
    BY <1>3 DEF Attach, Busy, OutcomeInv, Positions, TypeOK, workVars
  <2>2. futures[Len(log)] \in ResultType
    BY <2>1 DEF TypeOK, Positions
  <2>3. CASE futures[Len(log)] = Pending
    <3>1. \/ Busy /\ Len(log) = wcall
          \/ \E i \in DOMAIN tasks : tasks[i] = Len(log)
      BY <2>1, <2>3 DEF QueueInv, Unresolved
    <3>2. \A m \in Positions : Answered(m) => Answered(m)'
      BY <2>1, <2>3 DEF Answered
    <3> QED BY <1>0, <2>1, <3>1, <3>2, LettingGoKeepsOwed
  <2>4. CASE futures[Len(log)] # Pending
    <3>1. piped /\ WantsAnswer(Len(log)) => Answered(Len(log))'
      <4>1. futures[Len(log)].kind = "nothing" => ~WantsAnswer(Len(log))
        BY <2>1, <2>4 DEF OutcomeInv, Settled, WantsAnswer, ForExecutor
      <4>2. ASSUME piped, futures[Len(log)].kind # "nothing"
            PROVE  replies' = Append(replies, Reply(Len(log), futures[Len(log)]))
        BY <2>1, <2>4, <4>2 DEF Emit, Write
      <4>3. ASSUME piped, futures[Len(log)].kind # "nothing"
            PROVE  \E i \in DOMAIN replies' : replies'[i].line = Len(log)
        BY <2>1, <2>2, <4>2, <4>3, WriteAnswers DEF Answered
      <4> QED BY <1>0, <4>1, <4>3 DEF Answered
    <3>2. \A m \in Positions : Answered(m) => Answered(m)'
      <4>1. CASE UNCHANGED replies
        BY <4>1 DEF Answered
      <4>2. CASE replies' = Append(replies, Reply(Len(log), futures[Len(log)]))
        BY <2>1, <2>2, <4>2, WriteAnswers
      <4> QED BY <2>1, <2>4, <4>1, <4>2 DEF Emit, Write
    <3>3. piped /\ WantsAnswer(Len(log)) => \E i \in DOMAIN replies' : replies'[i].line = Len(log)
      BY <1>0, <3>1 DEF Answered
    <3> QED BY <1>0, <2>1, <3>2, <3>3, LettingGoKeepsOwed DEF Answered
  <2> QED BY <2>3, <2>4
<1>4. CASE ReaderWrite
  <2>1. /\ rpc = "write" /\ Busy' = Busy
        /\ IF piped THEN replies' = Append(replies, Reply(Len(log), Plainly(rreply)))
           ELSE UNCHANGED replies
        /\ Len(log) \in Positions /\ Plainly(rreply) \in OwnResultType
    BY <1>4 DEF ReaderWrite, Write, Busy, OutcomeInv, Positions, TypeOK, workVars, Plainly,
                Result, OwnResultType
  <2>2. \A m \in Positions : Answered(m) => Answered(m)'
    <3>1. CASE UNCHANGED replies
      BY <3>1 DEF Answered
    <3>2. CASE replies' = Append(replies, Reply(Len(log), Plainly(rreply)))
      BY <2>1, <3>2, WriteAnswers
    <3> QED BY <2>1, <3>1, <3>2
  <2>3. piped => \E i \in DOMAIN replies' : replies'[i].line = Len(log)
    BY <2>1, WriteAnswers DEF Answered
  <2> QED BY <1>0, <2>1, <2>2, <2>3, LettingGoKeepsOwed DEF Answered
<1> QED BY <1>1, <1>2, <1>3, <1>4

LEMMA OwedInvariant == Spec => []OwedInv
<1>1. Init => OwedInv
  BY DEF Init, OwedInv, Positions
<1>2. TypeInv /\ OddIsLast /\ OwedInv /\ [Next]_vars => OwedInv'
  <2> SUFFICES ASSUME TypeInv, OddIsLast, OwedInv, [Next]_vars PROVE OwedInv'
    OBVIOUS
  <2>1. CASE HandleLine \/ Register \/ Refuse \/ Pass \/ Probe \/ Step \/ Finish
    <3>1. /\ UNCHANGED <<log, piped, rpc, tasks, wcall, replies>>
          /\ Busy'
      BY <2>1 DEF HandleLine, Register, Refuse, Pass, Probe, Step, Finish, Worker, Busy, readerVars
    <3> QED BY <3>1, QuietKeepsOwed
  <2>2. CASE WorkerEnds \/ CloseOutput \/ ReadEnds \/ Join \/ UNCHANGED vars
    <3>1. /\ UNCHANGED <<log, tasks, wcall, replies>>
          /\ Busy' = Busy /\ (piped' => piped)
          /\ rpc' = rpc \/ rpc \in {"read", "closing"}
      BY <2>2 DEF WorkerEnds, CloseOutput, ReadEnds, Join, vars, Worker, Busy, readerVars, workVars
    <3> QED BY <3>1, QuietKeepsOwed
  <2> QED BY <2>1, <2>2, ReadKeepsOwed, TakeKeepsOwed, HandingOverKeepsOwed
          DEF Next, ReaderNext, WorkerNext, Exited
<1> QED BY <1>1, <1>2, TypeInvariant, OddIsLastInvariant, PTL DEF Spec

(* When the process ends and the client still reads, every request has its *)
(* answer: shutdown(wait=True) drained the queue, and no response fell     *)
(* between a future and its callback.  The exception is a last line that   *)
(* broke the reader's loop, a call of `desktop' with arguments that are no *)
(* object.                                                                 *)
THEOREM NothingOwed == Spec => []NothingOwedAtExit
<1>1. TypeInv /\ OwedInv => NothingOwedAtExit
  <2> SUFFICES ASSUME TypeInv, OwedInv, rpc = "exited", piped,
                      NEW n \in Positions, WantsAnswer(n)
               PROVE  BrokeTheLoop(n) \/ Answered(n)
    BY DEF NothingOwedAtExit, Answered
  <2>1. ~Busy /\ tasks = <<>>
    BY DEF TypeInv, OutcomeInv, Busy
  <2> QED BY <2>1 DEF OwedInv
<1> QED BY <1>1, TypeInvariant, OwedInvariant, PTL

-----------------------------------------------------------------------------
(* The service implements CallLifecycle: every step is one step in the     *)
(* life of one line, or of none.                                           *)

(* Every line that was read is in some stage of its life.                  *)
LEMMA StageOf ==
  ASSUME TypeInv, NEW n \in 1 .. MaxLines
  PROVE  /\ n \notin Positions => Stage(n) = "unread"
         /\ n \in Positions /\ log[n].kind # "call" => Stage(n) = "protocol"
         /\ n \in Positions /\ log[n].kind = "call" /\ futures[n] = Pending =>
              Stage(n) = IF Busy /\ n = wcall THEN HeldStage ELSE "waiting"
         /\ n \in Positions /\ log[n].kind = "call" /\ futures[n] # Pending =>
              Stage(n) = IF futures[n].kind = "nothing" THEN "ignored" ELSE futures[n].kind
         /\ n \in Positions <=> n <= Len(log)
<1>1. Positions = 1 .. Len(log) /\ Len(log) \in Nat /\ Len(log) <= MaxLines /\ MaxLines \in Nat
  BY PyServerAssumption DEF TypeInv, TypeOK, QueueInv, Positions
<1>2. n \in Positions <=> n <= Len(log)
  BY <1>1
<1> QED BY <1>1, <1>2 DEF Stage, Busy

LEMMA LineIsRead == TypeInv => \A n \in Positions : n \in 1 .. MaxLines
BY PyServerAssumption DEF TypeInv, TypeOK, QueueInv, Positions

(* The stages when a step moves no line, or one.                           *)
LEMMA MovesNone ==
  ASSUME \A k \in 1 .. MaxLines : Stage(k)' = Stage(k),
         \A k \in 1 .. MaxLines : Answered(k)' = Answered(k)
  PROVE  UNCHANGED Lifecycle!vars
BY DEF Lifecycle!vars, Answered

LEMMA MovesOne ==
  ASSUME NEW n \in 1 .. MaxLines, NEW s, Stage(n)' = s,
         \A k \in 1 .. MaxLines : k # n => Stage(k)' = Stage(k),
         UNCHANGED replies
  PROVE  Lifecycle!Move(n, s)
BY DEF Lifecycle!Move

LEMMA Tells ==
  ASSUME TypeInv, NEW n \in Positions, NEW r \in ResultType \cup OwnResultType,
         replies' = Append(replies, Reply(n, r)),
         Unanswered(n),
         Stage(n) \in Outcomes \cup {"protocol"},
         \A k \in 1 .. MaxLines : Stage(k)' = Stage(k)
  PROVE  Lifecycle!Next
<1>1. n \in 1 .. MaxLines
  BY LineIsRead
<1>2. Reply(n, r) \in ReplyType /\ Reply(n, r).line = n
  BY DEF Reply, ReplyType, Positions, TypeInv, TypeOK
<1>3. /\ Len(replies) \in Nat /\ DOMAIN replies = 1 .. Len(replies)
      /\ DOMAIN replies' = 1 .. Len(replies) + 1
      /\ \A k \in DOMAIN replies : replies'[k] = replies[k]
      /\ replies'[Len(replies) + 1].line = n
  BY <1>2, AppendKeeps DEF TypeInv, TypeOK
<1>4. \A m : (\E i \in DOMAIN replies' : replies'[i].line = m)
               <=> (m = n \/ \E i \in DOMAIN replies : replies[i].line = m)
  BY <1>3
<1>5. Lifecycle!Tell(n)
  BY <1>1, <1>4 DEF Lifecycle!Tell, Unanswered, Outcomes, Lifecycle!Outcomes
<1> QED BY <1>1, <1>5 DEF Lifecycle!Next, Lifecycle!Line

(* Steps that leave the lines and their futures alone.                     *)
LEMMA OthersStay ==
  ASSUME TypeInv, TypeInv', UNCHANGED <<log, wcall>>,
         NEW k \in 1 .. MaxLines, k # wcall,
         k \in Positions => futures'[k] = futures[k]
  PROVE  Stage(k)' = Stage(k)
BY DEF Stage, Positions

LEMMA HeldStays ==
  ASSUME TypeInv, TypeInv', UNCHANGED <<log, wcall, futures>>,
         Busy' = Busy, Busy => HeldStage' = HeldStage
  PROVE  \A k \in 1 .. MaxLines : Stage(k)' = Stage(k)
<1>1. ASSUME NEW k \in 1 .. MaxLines PROVE Stage(k)' = Stage(k)
  BY DEF Stage, Positions, Busy
<1> QED BY <1>1

(* A step that gives the thread's line the stage s.                        *)
LEMMA HeldMoves ==
  ASSUME TypeInv, TypeInv', UNCHANGED <<log, wcall, futures, replies>>,
         wcall \in Positions, Stage(wcall)' \in {"running", "done", "cancelled", "refused", "ignored"}
  PROVE  \E n \in 1 .. MaxLines, s \in {"running", "done", "cancelled", "refused", "ignored"} :
           n = wcall /\ s = Stage(wcall)' /\ Lifecycle!Move(n, s)
<1>1. wcall \in 1 .. MaxLines
  BY LineIsRead
<1>2. \A k \in 1 .. MaxLines : k # wcall => Stage(k)' = Stage(k)
  BY OthersStay
<1>3. PICK n \in 1 .. MaxLines : n = wcall
  BY <1>1
<1>4. PICK s : s = Stage(wcall)'
  OBVIOUS
<1>5. Stage(n)' = s
  BY <1>3, <1>4
<1> QED BY <1>2, <1>3, <1>4, <1>5, MovesOne

(* No line before the thread's waits, and only its line can be underway.   *)
LEMMA FirstInLine ==
  ASSUME TypeInv, wpc = "taken", log[wcall].kind = "call"
  PROVE  /\ wcall \in 1 .. MaxLines
         /\ Stage(wcall) = "waiting"
         /\ \A m \in 1 .. wcall - 1 : m \in 1 .. MaxLines /\ Stage(m) # "waiting"
         /\ \A m \in 1 .. MaxLines : Stage(m) \notin {"running", "stopping"}
<1>1. /\ wcall \in Positions /\ wcall \in 1 .. MaxLines /\ futures[wcall] = Pending
      /\ Busy /\ Unresolved
  BY LineIsRead DEF TypeInv, TypeOK, QueueInv, Busy, Unresolved
<1>2. HeldStage = "waiting"
  BY DEF HeldStage
<1>3. Stage(wcall) = "waiting"
  BY <1>1, <1>2, StageOf
<1>4. ASSUME NEW m \in 1 .. wcall - 1 PROVE m \in 1 .. MaxLines /\ Stage(m) # "waiting"
  <2>0. Positions = 1 .. Len(log) /\ Len(log) \in Nat
    BY DEF Positions, TypeInv, TypeOK
  <2>1. m \in Positions /\ m \in 1 .. MaxLines /\ m < wcall /\ m \in Nat
    BY <1>1, <2>0, LineIsRead
  <2>2. futures[m] # Pending
    <3>1. \A i \in DOMAIN tasks : tasks[i] # m
      BY <1>1, <2>1 DEF TypeInv, TypeOK, QueueInv
    <3> QED BY <1>1, <2>1, <3>1 DEF TypeInv, QueueInv
  <2>3. futures[m].kind \in Results
    <3>1. futures[m] \in ResultType
      BY <2>1 DEF TypeInv, TypeOK, Positions
    <3> QED BY <3>1 DEF ResultType
  <2> QED BY <2>1, <2>2, <2>3, StageOf DEF Results, Outcomes
<1>5. ASSUME NEW m \in 1 .. MaxLines PROVE Stage(m) \notin {"running", "stopping"}
  <2>1. m \in Positions => futures[m].kind \in Results
    <3>1. m \in Positions => futures[m] \in ResultType
      BY DEF TypeInv, TypeOK, Positions
    <3> QED BY <3>1 DEF ResultType
  <2> QED BY <1>2, <2>1, StageOf DEF Results, Outcomes
<1> QED BY <1>1, <1>3, <1>4, <1>5

LEMMA QuietImplements ==
  ASSUME TypeInv, TypeInv', WorkerEnds \/ Pass \/ Finish \/ ReadEnds \/ Join \/ CloseOutput
                              \/ UNCHANGED vars
  PROVE  UNCHANGED Lifecycle!vars
<1>1. /\ UNCHANGED <<log, wcall, futures, replies>>
      /\ Busy' = Busy
  BY DEF WorkerEnds, Pass, Finish, ReadEnds, Join, CloseOutput, vars, Worker, Busy, readerVars,
         workVars, callVars
<1>2. Busy => HeldStage' = HeldStage
  BY DEF WorkerEnds, Pass, Finish, ReadEnds, Join, CloseOutput, vars, Worker, Busy, HeldStage,
         readerVars, workVars, callVars, activeVars
<1>3. \A k \in 1 .. MaxLines : Answered(k)' = Answered(k)
  BY <1>1 DEF Answered
<1> QED BY <1>1, <1>2, <1>3, HeldStays, MovesNone

LEMMA TakeImplements ==
  ASSUME TypeInv, TypeInv', Take
  PROVE  UNCHANGED Lifecycle!vars
<1>1. /\ UNCHANGED <<log, futures, replies>> /\ ~Busy /\ wpc' = "taken"
      /\ wpc \in {"idle", "ended"}
      /\ Positions' = Positions
  BY DEF Take, Worker, Busy, Positions
<1>2. HeldStage' = "waiting"
  BY <1>1 DEF HeldStage
<1>3. ASSUME NEW k \in 1 .. MaxLines PROVE Stage(k)' = Stage(k)
  BY <1>1, <1>2 DEF Stage
<1>4. \A k \in 1 .. MaxLines : Answered(k)' = Answered(k)
  BY <1>1 DEF Answered
<1> QED BY <1>3, <1>4, MovesNone

(* handle_line drops a call before the controller: CallLifecycle's Drop.   *)
LEMMA HandleLineImplements ==
  ASSUME TypeInv, TypeInv', HandleLine
  PROVE  Lifecycle!Next \/ UNCHANGED Lifecycle!vars
<1>1. /\ UNCHANGED <<log, wcall, futures, replies>>
      /\ wpc = "taken" /\ wpc' = "resolve" /\ Busy /\ Busy'
      /\ wcall \in Positions /\ futures[wcall] = Pending
      /\ log[wcall].kind = "call" => woutcome' \in {"nothing", "refused"}
  BY DEF HandleLine, Worker, Busy, TypeInv, TypeOK, QueueInv, Unresolved
<1>2. CASE log[wcall].kind # "call"
  <2>1. wcall \in 1 .. MaxLines /\ Stage(wcall)' = Stage(wcall)
    BY <1>1, <1>2, LineIsRead DEF Stage, Positions
  <2>2. \A k \in 1 .. MaxLines : Stage(k)' = Stage(k)
    BY <1>1, <2>1, OthersStay
  <2>3. \A k \in 1 .. MaxLines : Answered(k)' = Answered(k)
    BY <1>1 DEF Answered
  <2> QED BY <2>2, <2>3, MovesNone
<1>3. CASE log[wcall].kind = "call"
  <2>1. Stage(wcall)' \in {"ignored", "refused"}
    BY <1>1, <1>3 DEF Stage, HeldStage, Positions, Busy
  <2>2. PICK n \in 1 .. MaxLines, s \in {"ignored", "refused"} :
          n = wcall /\ Lifecycle!Move(n, s)
    BY <1>1, <2>1, HeldMoves
  <2>3. /\ Stage(n) = "waiting"
        /\ \A m \in 1 .. n - 1 : m \in 1 .. MaxLines /\ Stage(m) # "waiting"
        /\ \A m \in 1 .. MaxLines : Stage(m) \notin {"running", "stopping"}
    BY <1>1, <1>3, <2>2, FirstInLine
  <2>4. Lifecycle!Drop(n)
    BY <2>2, <2>3 DEF Lifecycle!Drop, Lifecycle!First, Lifecycle!Underway, Lifecycle!Line
  <2> QED BY <2>4 DEF Lifecycle!Next, Lifecycle!Line
<1> QED BY <1>2, <1>3

LEMMA RegisterImplements ==
  ASSUME TypeInv, TypeInv', Register
  PROVE  Lifecycle!Next
<1>1. /\ UNCHANGED <<log, wcall, futures, replies>>
      /\ wpc = "taken" /\ wpc' = "preflight" /\ Busy /\ Busy'
      /\ wcall \in Positions /\ futures[wcall] = Pending
      /\ log[wcall].kind = "call"
      /\ active'.cancelled = FALSE
  BY DEF Register, Worker, Busy, TypeInv, TypeOK, QueueInv, Unresolved
<1>2. Stage(wcall)' = "running"
  BY <1>1 DEF Stage, HeldStage, Positions, Busy
<1>3. PICK n \in 1 .. MaxLines : n = wcall /\ Lifecycle!Move(n, "running")
  BY <1>1, <1>2, HeldMoves
<1>4. /\ Stage(n) = "waiting"
      /\ \A m \in 1 .. n - 1 : m \in 1 .. MaxLines /\ Stage(m) # "waiting"
      /\ \A m \in 1 .. MaxLines : Stage(m) \notin {"running", "stopping"}
  BY <1>1, <1>3, FirstInLine
<1>5. Lifecycle!Start(n)
  BY <1>3, <1>4 DEF Lifecycle!Start, Lifecycle!First, Lifecycle!Underway, Lifecycle!Line
<1> QED BY <1>5 DEF Lifecycle!Next, Lifecycle!Line

(* The outcome is decided: `cancelled' only when the event was set.        *)
LEMMA DecidingImplements ==
  ASSUME TypeInv, TypeInv', Refuse \/ Probe \/ Step
  PROVE  Lifecycle!Next \/ UNCHANGED Lifecycle!vars
<1>1. /\ UNCHANGED <<log, wcall, futures, replies, active>>
      /\ wpc \in {"preflight", "probe", "step"}
      /\ wpc' \in {"probe", "step", "finish"}
      /\ wpc' = "finish" => \/ woutcome' \in {"refused", "done"}
                            \/ woutcome' = "cancelled" /\ active.cancelled
  BY DEF Refuse, Probe, Step, Worker, Decide, activeVars
<1>2. /\ Busy /\ Busy' /\ Unresolved /\ Serving
      /\ wcall \in Positions /\ futures[wcall] = Pending /\ log[wcall].kind = "call"
  BY <1>1 DEF Busy, Unresolved, Serving, TypeInv, TypeOK, QueueInv, OutcomeInv
<1>3. CASE wpc' # "finish"
  <2>1. HeldStage' = HeldStage
    BY <1>1, <1>3 DEF HeldStage
  <2>2. \A k \in 1 .. MaxLines : Answered(k)' = Answered(k)
    BY <1>1 DEF Answered
  <2> QED BY <1>1, <1>2, <2>1, <2>2, HeldStays, MovesNone
<1>4. CASE wpc' = "finish"
  <2>1. /\ Stage(wcall)' \in {"refused", "done", "cancelled"}
        /\ Stage(wcall)' = "cancelled" => active.cancelled
    BY <1>1, <1>2, <1>4 DEF Stage, HeldStage, Positions, Busy
  <2>2. PICK n \in 1 .. MaxLines, s \in {"refused", "done", "cancelled"} :
          n = wcall /\ s = Stage(wcall)' /\ Lifecycle!Move(n, s)
    BY <1>1, <1>2, <2>1, HeldMoves
  <2>3. Stage(n) = IF active.cancelled THEN "stopping" ELSE "running"
    BY <1>1, <1>2, <2>2 DEF Stage, HeldStage, Positions, Busy
  <2>4. Lifecycle!End(n)
    BY <2>1, <2>2, <2>3 DEF Lifecycle!End, Lifecycle!Underway
  <2> QED BY <2>4 DEF Lifecycle!Next, Lifecycle!Line
<1> QED BY <1>3, <1>4

(* The result goes to the future: nothing a client sees.                   *)
LEMMA ResolveImplements ==
  ASSUME TypeInv, TypeInv', Resolve
  PROVE  UNCHANGED Lifecycle!vars
<1>1. /\ UNCHANGED <<log, wcall, replies>>
      /\ wpc = "resolve" /\ wpc' \in {"emit", "idle"} /\ Busy
      /\ wcall \in Positions /\ futures[wcall] = Pending
      /\ futures'[wcall].kind = woutcome /\ futures'[wcall] # Pending
      /\ \A n \in Positions : n # wcall => futures'[n] = futures[n]
  BY ResolveFacts DEF Resolve, Busy, Unresolved, TypeInv, QueueInv
<1>2. wcall \in 1 .. MaxLines /\ Stage(wcall)' = Stage(wcall)
  BY <1>1, LineIsRead DEF Stage, HeldStage, Positions, Busy
<1>3. \A k \in 1 .. MaxLines : Stage(k)' = Stage(k)
  BY <1>1, <1>2, OthersStay
<1>4. \A k \in 1 .. MaxLines : Answered(k)' = Answered(k)
  BY <1>1 DEF Answered
<1> QED BY <1>3, <1>4, MovesNone

(* A resolved line is settled, for the client, before it is answered.      *)
LEMMA ResolvedIsSettled ==
  ASSUME TypeInv, NEW n \in Positions, ForExecutor(n), futures[n] # Pending,
         futures[n].kind # "nothing"
  PROVE  Stage(n) \in Outcomes \cup {"protocol"}
<1>1. n \in 1 .. MaxLines
  BY LineIsRead
<1>2. futures[n].kind \in Results
  <2>1. futures[n] \in ResultType
    BY DEF TypeInv, TypeOK, Positions
  <2> QED BY <2>1 DEF ResultType
<1>3. Settled(log[n], futures[n].kind)
  BY DEF TypeInv, OutcomeInv
<1> QED BY <1>1, <1>2, <1>3, StageOf DEF Settled, Results, Outcomes

LEMMA EmitsImplement ==
  ASSUME TypeInv, TypeInv', OrderInv, WorkerEmit \/ Attach \/ ReaderWrite
  PROVE  Lifecycle!Next \/ UNCHANGED Lifecycle!vars
<1>0. /\ UNCHANGED <<log, wcall, futures>>
      /\ \A n \in Positions : futures[n] \in ResultType
      /\ Positions = 1 .. Len(log) /\ Len(log) \in Nat
  <2>1. UNCHANGED <<log, wcall, futures>>
    BY DEF WorkerEmit, Attach, ReaderWrite, workVars
  <2>2. log \in Seq(Lines) /\ futures \in Seq(ResultType) /\ Len(futures) = Len(log)
    BY DEF TypeInv, TypeOK
  <2> QED BY <2>1, <2>2 DEF Positions
<1>1. \A k \in 1 .. MaxLines : Stage(k)' = Stage(k)
  <2>1. CASE WorkerEmit
    <3>1. wcall \in 1 .. MaxLines /\ wcall \in Positions /\ futures[wcall] # Pending
      BY <2>1, LineIsRead DEF WorkerEmit, Worker, TypeInv, TypeOK, QueueInv
    <3>2. Stage(wcall)' = Stage(wcall)
      BY <1>0, <3>1 DEF Stage, Positions
    <3> QED BY <1>0, <3>2, OthersStay
  <2>2. CASE Attach \/ ReaderWrite
    <3>1. Busy' = Busy /\ HeldStage' = HeldStage
      BY <2>2 DEF Attach, ReaderWrite, Busy, HeldStage, workVars, callVars, activeVars
    <3> QED BY <1>0, <3>1, HeldStays
  <2> QED BY <2>1, <2>2
<1>2. CASE UNCHANGED replies
  <2>1. \A k \in 1 .. MaxLines : Answered(k)' = Answered(k)
    BY <1>2 DEF Answered
  <2> QED BY <1>1, <2>1, MovesNone
<1>3. CASE replies' # replies
  <2>1. CASE WorkerEmit
    <3>1. /\ replies' = Append(replies, Reply(wcall, futures[wcall]))
          /\ futures[wcall].kind # "nothing"
          /\ wcall \in Positions /\ ForExecutor(wcall) /\ futures[wcall] # Pending
          /\ Unanswered(wcall)
      BY <1>3, <2>1 DEF WorkerEmit, Worker, Emit, Write, Busy, TypeInv, TypeOK, QueueInv, OrderInv,
                        NoneYet
    <3>2. futures[wcall] \in ResultType
      BY <1>0, <3>1
    <3> QED BY <1>1, <3>1, <3>2, ResolvedIsSettled, Tells
  <2>2. CASE Attach
    <3>0. Len(log) \in Positions /\ ForExecutor(Len(log)) /\ Unanswered(Len(log))
      BY <1>0, <2>2 DEF Attach, TypeInv, OutcomeInv, OrderInv, NoneYet
    <3>1. /\ replies' = Append(replies, Reply(Len(log), futures[Len(log)]))
          /\ futures[Len(log)].kind # "nothing"
          /\ Len(log) \in Positions /\ ForExecutor(Len(log)) /\ futures[Len(log)] # Pending
          /\ Unanswered(Len(log))
      BY <1>3, <2>2, <3>0 DEF Attach, Emit, Write
    <3>2. futures[Len(log)] \in ResultType
      BY <1>0, <3>1
    <3> QED BY <1>1, <3>1, <3>2, ResolvedIsSettled, Tells
  <2>3. CASE ReaderWrite
    <3>0. Plainly(rreply) \in OwnResultType
      BY DEF TypeInv, TypeOK, Plainly, Result, OwnResultType
    <3>1. /\ replies' = Append(replies, Reply(Len(log), Plainly(rreply)))
          /\ Len(log) \in Positions /\ log[Len(log)].kind = "stop"
          /\ Unanswered(Len(log))
      BY <1>0, <1>3, <2>3 DEF ReaderWrite, Write, TypeInv, OutcomeInv, OrderInv, NoneYet
    <3>2. Stage(Len(log)) = "protocol"
      BY <3>1, StageOf, LineIsRead
    <3> QED BY <1>1, <3>0, <3>1, <3>2, Tells
  <2> QED BY <2>1, <2>2, <2>3
<1> QED BY <1>2, <1>3

(* A line arrives, and perhaps stops the call that runs.                   *)
LEMMA ReadImplements ==
  ASSUME TypeInv, TypeInv', CancelInv, ReadCancel \/ ReadStop \/ ReadOdd \/ Submit
  PROVE  Lifecycle!Next
<1>1. PICK line \in Lines, result \in ResultType :
        /\ Read(line, result)
        /\ UNCHANGED <<workVars, replies>>
        /\ \/ /\ line.kind \in {"cancel", "stop", "odd"}
              /\ \/ UNCHANGED active
                 \/ active' = [active EXCEPT !.cancelled = TRUE]
           \/ /\ line.kind \in {"call", "plain"} /\ result = Pending
              /\ UNCHANGED active
  <2>1. ReadCancel =>
          \E line \in Lines : /\ Read(line, Plainly("nothing")) /\ line.kind = "cancel"
                              /\ active' = RequestCancel(line.id, line.gen)
                              /\ UNCHANGED <<workVars, replies>>
    BY DEF ReadCancel
  <2>2. ReadStop =>
          \E line \in Lines : /\ Read(line, Plainly("nothing")) /\ line.kind = "stop"
                              /\ active' \in {active, RequestCancel(NullId, AnyGen)}
                              /\ UNCHANGED <<workVars, replies>>
    BY DEF ReadStop
  <2>3. Submit => \E line \in Lines : /\ Read(line, Pending) /\ line.kind \in {"call", "plain"}
                                      /\ UNCHANGED <<workVars, active, replies>>
    BY DEF Submit, activeVars
  <2>4. ReadOdd => \E line \in Lines : /\ Read(line, Plainly("nothing")) /\ line.kind = "odd"
                                       /\ UNCHANGED <<workVars, active, replies>>
    BY DEF ReadOdd, activeVars
  <2> QED BY <2>1, <2>2, <2>3, <2>4, PlainResults DEF RequestCancel
<1>2. /\ Len(log) \in Nat /\ Len(log') = Len(log) + 1 /\ Len(log) < MaxLines
      /\ Positions = 1 .. Len(log) /\ Positions' = 1 .. Len(log) + 1
      /\ \A k \in Positions : log'[k] = log[k] /\ futures'[k] = futures[k]
      /\ log'[Len(log) + 1] = line /\ futures'[Len(log) + 1] = result
  BY <1>1, ReadFacts DEF TypeInv
<1>3. UNCHANGED <<wpc, wcall, woutcome>> /\ Busy' = Busy /\ (Busy => wcall \in Positions)
  BY <1>1 DEF workVars, callVars, Busy, TypeInv, TypeOK
<1>4. PICK n \in 1 .. MaxLines : n = Len(log) + 1
  BY <1>2, PyServerAssumption
<1>5. /\ Stage(n) = "unread"
      /\ \A m \in 1 .. n - 1 : m \in 1 .. MaxLines /\ m \in Positions
  BY <1>2, <1>4, StageOf, PyServerAssumption
<1>6. ASSUME NEW m \in 1 .. n - 1 PROVE Stage(m) # "unread"
  <2>1. m \in Positions /\ m \in 1 .. MaxLines
    BY <1>5
  <2>2. futures[m].kind \in Results
    <3>1. futures[m] \in ResultType
      <4>1. futures \in Seq(ResultType) /\ DOMAIN futures = Positions
        BY DEF TypeInv, TypeOK, Positions
      <4> QED BY <2>1, <4>1
    <3> QED BY <3>1 DEF ResultType
  <2>3. HeldStage # "unread"
    BY DEF HeldStage, TypeInv, TypeOK, Results, Outcomes
  <2> QED BY <2>1, <2>2, <2>3, StageOf DEF Results, Outcomes
<1>7. /\ line.kind # "call" => Stage(n)' = "protocol"
      /\ line.kind = "call" => Stage(n)' = "waiting"
  <2>1. n \in Positions' /\ n \notin Positions /\ log'[n] = line /\ futures'[n] = result
        /\ ~(n > Len(log'))
    BY <1>2, <1>4
  <2>2. ~(Busy /\ n = wcall)
    BY <1>3, <2>1
  <2> QED BY <1>1, <1>3, <2>1, <2>2 DEF Stage, Busy
<1>8. ASSUME NEW k \in 1 .. MaxLines, k # n, HeldStage' = HeldStage \/ k # wcall \/ k \notin Positions
      PROVE  Stage(k)' = Stage(k)
  <2>1. CASE k \in Positions
    <3>1. /\ k \in Positions' /\ log'[k] = log[k] /\ futures'[k] = futures[k]
          /\ ~(k > Len(log)) /\ ~(k > Len(log'))
      BY <1>2, <2>1
    <3> QED BY <1>3, <1>8, <2>1, <3>1 DEF Stage, Busy
  <2>2. CASE k \notin Positions
    <3>1. k > Len(log) /\ k > Len(log') /\ k \notin Positions /\ k \notin Positions'
      BY <1>2, <1>4, <1>8, <2>2
    <3>2. Stage(k) = "unread"
      BY <3>1 DEF Stage
    <3>3. Stage(k)' = "unread"
      BY <3>1 DEF Stage
    <3> QED BY <3>2, <3>3
  <2> QED BY <2>1, <2>2
<1>9. CASE HeldStage' = HeldStage \/ wcall \notin Positions \/ Stage(wcall)' = Stage(wcall)
  <2>1. \A k \in 1 .. MaxLines : k # n => Stage(k)' = Stage(k)
    <3> SUFFICES ASSUME NEW k \in 1 .. MaxLines, k # n PROVE Stage(k)' = Stage(k)
      OBVIOUS
    <3>1. CASE HeldStage' = HeldStage \/ k # wcall \/ k \notin Positions
      BY <1>8, <3>1
    <3>2. CASE k = wcall /\ Stage(wcall)' = Stage(wcall)
      BY <1>3, <3>2 DEF workVars, callVars
    <3> QED BY <1>9, <3>1, <3>2
  <2>2. PICK s \in {"protocol", "waiting"} : s = Stage(n)'
    BY <1>7
  <2>3. Lifecycle!Move(n, s)
    BY <1>1, <2>1, <2>2, MovesOne
  <2>4. Lifecycle!Arrive(n, s)
    BY <1>4, <1>5, <1>6, <2>3 DEF Lifecycle!Arrive
  <2> QED BY <2>4 DEF Lifecycle!Next, Lifecycle!Line, Lifecycle!Arrivals
<1>10. CASE HeldStage' # HeldStage /\ wcall \in Positions /\ Stage(wcall)' # Stage(wcall)
  <2>1. /\ wpc \in {"preflight", "probe", "step"} /\ ~active.cancelled /\ active'.cancelled
        /\ line.kind \in {"cancel", "stop", "odd"}
    BY <1>1, <1>3, <1>10 DEF HeldStage, TypeInv, TypeOK, ActiveType
  <2>2. PICK m \in 1 .. MaxLines : m = wcall /\ m \in Positions /\ m # n
    BY <1>2, <1>4, <1>10, LineIsRead
  <2>3. log[m].kind = "call" /\ futures[m] = Pending /\ Busy
    BY <2>1, <2>2 DEF TypeInv, QueueInv, OutcomeInv, Serving, Unresolved, Busy
  <2>4. Stage(m) = "running"
    BY <2>1, <2>2, <2>3, StageOf DEF HeldStage
  <2>5. Stage(m)' = "stopping"
    <3>1. /\ m \in Positions' /\ log'[m] = log[m] /\ futures'[m] = futures[m]
          /\ ~(m > Len(log')) /\ HeldStage' = "stopping" /\ m = wcall'
      BY <1>2, <1>3, <2>1, <2>2 DEF HeldStage
    <3> QED BY <1>3, <2>3, <3>1 DEF Stage, Busy
  <2>6. \A k \in 1 .. MaxLines : k # n /\ k # m => Stage(k)' = Stage(k)
    BY <1>8, <2>2
  <2>7. Stage(n)' = "protocol"
    BY <1>7, <2>1
  <2>8. Lifecycle!Arrive(n, "protocol")
    BY <1>1, <1>4, <1>5, <1>6, <2>2, <2>4, <2>5, <2>6, <2>7
    DEF Lifecycle!Arrive, Lifecycle!Line
  <2> QED BY <2>8 DEF Lifecycle!Next, Lifecycle!Line, Lifecycle!Arrivals
<1> QED BY <1>9, <1>10

(* What a client can see of the reader, the executor and the futures is    *)
(* the life of each line as CallLifecycle has it: calls start one at a     *)
(* time and in order, end cancelled only while they are being stopped, and *)
(* are answered once, after they are settled.                              *)
THEOREM Implementation == Spec => ImplementsLifecycle
<1>1. Init => Lifecycle!Init
  <2> SUFFICES ASSUME Init PROVE Lifecycle!Init
    OBVIOUS
  <2>1. \A n \in 1 .. MaxLines : Stage(n) = "unread" /\ ~Answered(n)
    <3> SUFFICES ASSUME NEW n \in 1 .. MaxLines PROVE Stage(n) = "unread" /\ ~Answered(n)
      OBVIOUS
    <3>1. n > Len(log) /\ n \notin Positions /\ DOMAIN replies = {}
      BY PyServerAssumption DEF Init, Positions
    <3> QED BY <3>1 DEF Stage, Answered
  <2> QED BY <2>1 DEF Lifecycle!Init, Lifecycle!Line, Answered
<1>2. TypeInv /\ TypeInv' /\ CancelInv /\ OrderInv /\ [Next]_vars
        => [Lifecycle!Next]_(Lifecycle!vars)
  <2> SUFFICES ASSUME TypeInv, TypeInv', CancelInv, OrderInv, [Next]_vars
               PROVE  Lifecycle!Next \/ UNCHANGED Lifecycle!vars
    OBVIOUS
  <2> QED BY ReadImplements, EmitsImplement, QuietImplements, TakeImplements,
             HandleLineImplements, RegisterImplements, DecidingImplements, ResolveImplements
          DEF Next, ReaderNext, WorkerNext, Exited
<1> QED BY <1>1, <1>2, TypeInvariant, CancelInvariant, OrderInvariant, PTL
        DEF Spec, ImplementsLifecycle, Lifecycle!Spec
===============================================================================
