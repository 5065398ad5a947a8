----------------------------- MODULE NativeRead ------------------------------
(***************************************************************************)
(* One run of a child program whose output the controller wants: the       *)
(* helper's read-only subcommands, osascript and open.  The child writes   *)
(* into two pipes of bounded size, and stops when one is full; somebody    *)
(* must read both, wait for the child, and kill it when its time is over.  *)
(* Three runners do that:                                                  *)
(*   threads  output_with_timeout of src/desktop/rust/src/provider.rs: a   *)
(*            thread per pipe, and a loop around try_wait                  *)
(*   helper   _run of src/desktop/platforms/macos.py: communicate in       *)
(*            slices of 10 ms, and a last communicate after the kill       *)
(*   tool     subprocess.run as macos.py calls it: one communicate with a  *)
(*            timeout; after the kill it only waits                        *)
(* A program is prompt (it goes on whenever it can) until it hangs, and    *)
(* the timeouts are far longer than a prompt program needs.                *)
(***************************************************************************)
EXTENDS Naturals

CONSTANTS
  Words,     \* what a program can say; the empty word among them
  MaxOut,    \* bound on the chunks a program writes into one pipe
  PipeSize   \* chunks that fit in a pipe

ASSUME ReadAssumption ==
  /\ "none" \notin Words
  /\ MaxOut \in Nat
  /\ PipeSize \in Nat \ {0}

VARIABLES
  runner,  \* who runs the child
  spc,     \* control point of the runner
  child,   \* the child process
  exit,    \* how it ended
  word,    \* what it has to say, once it knows
  left,    \* chunks it has still to write, by pipe
  pipe,    \* chunks in the pipe
  reader,  \* the reading end of the pipe
  slow,    \* the child hangs, or has hung
  late,    \* its time is over
  result   \* what the runner makes of it

read == <<runner, spc, child, exit, word, left, pipe, reader, slow, late, result>>

Runners == {"threads", "helper", "tool"}
Pipes == {"out", "err"}
AtAll(v) == [p \in Pipes |-> v]

Fresh ==
  /\ child = "none" /\ exit = "none" /\ word = "none"
  /\ left = AtAll(0) /\ pipe = AtAll(0) /\ reader = AtAll("off")
  /\ slow = FALSE /\ late = FALSE /\ result = "none"

FreshNext ==
  /\ child' = "none" /\ exit' = "none" /\ word' = "none"
  /\ left' = AtAll(0) /\ pipe' = AtAll(0) /\ reader' = AtAll("off")
  /\ slow' = FALSE /\ late' = FALSE /\ result' = "none"

ReadInit == runner \in Runners /\ spc = "spawn" /\ Fresh

(* The next child of the same command.                                     *)
StartRead(r) == runner' = r /\ spc' = "spawn" /\ FreshNext

-----------------------------------------------------------------------------
(* The child.                                                              *)

ChildOnly == UNCHANGED <<runner, spc, late, result>>

(* It looks at the desktop, and knows what it will write.                  *)
Produce(w) ==
  /\ child = "running"
  /\ word = "none"
  /\ word' = w
  /\ \E n \in [Pipes -> 0 .. MaxOut] : left' = n
  /\ UNCHANGED <<child, exit, pipe, reader, slow>>
  /\ ChildOnly

Write(p) ==
  /\ child = "running"
  /\ left[p] > 0
  /\ pipe[p] < PipeSize
  /\ reader[p] # "failed"
  /\ left' = [left EXCEPT ![p] = @ - 1]
  /\ pipe' = [pipe EXCEPT ![p] = @ + 1]
  /\ UNCHANGED <<child, exit, word, reader, slow>>
  /\ ChildOnly

ChildEnds(how) ==
  /\ child' = "zombie"
  /\ exit' = how
  /\ left' = AtAll(0)
  /\ UNCHANGED <<word, pipe, reader, slow>>
  /\ ChildOnly

(* It has said everything.                                                 *)
Succeed == child = "running" /\ word # "none" /\ left = AtAll(0) /\ ChildEnds("ok")

(* It fails or crashes, or writes into a pipe nobody reads any more.       *)
Fail == child = "running" /\ ChildEnds("fail")

Hang ==
  /\ child = "running"
  /\ slow' = TRUE
  /\ UNCHANGED <<child, exit, word, left, pipe, reader>>
  /\ ChildOnly

Child(words) ==
  \/ \E w \in words : Produce(w)
  \/ \E p \in Pipes : Write(p)
  \/ Succeed \/ Fail

-----------------------------------------------------------------------------
(* The readers.                                                            *)

(* Mutant: stderr is read after stdout is.                                 *)
DrainsInTurn(p) ==
  \/ runner = "threads" /\ (p = "err" => reader["out"] = "eof")
  \/ spc \in {"poll", "drain"}

(* A thread reads as long as there is something to read; communicate reads *)
(* both pipes while it runs.                                               *)
Drains(p) == runner = "threads" \/ spc \in {"poll", "drain"}

ReaderOnly == UNCHANGED <<runner, spc, child, exit, word, left, slow, late, result>>

Drain(p) ==
  /\ reader[p] = "reading"
  /\ Drains(p)
  /\ pipe[p] > 0
  /\ pipe' = [pipe EXCEPT ![p] = @ - 1]
  /\ UNCHANGED reader
  /\ ReaderOnly

(* The child's end of the pipe is closed.                                  *)
SeeEof(p) ==
  /\ reader[p] = "reading"
  /\ Drains(p)
  /\ pipe[p] = 0
  /\ child # "running"
  /\ reader' = [reader EXCEPT ![p] = "eof"]
  /\ UNCHANGED pipe
  /\ ReaderOnly

(* read_to_end returns an error, and its thread lets go of the pipe.       *)
ReaderFails(p) ==
  /\ runner = "threads"
  /\ reader[p] = "reading"
  /\ reader' = [reader EXCEPT ![p] = "failed"]
  /\ pipe' = [pipe EXCEPT ![p] = 0]
  /\ ReaderOnly

-----------------------------------------------------------------------------
(* The runner.                                                             *)

RunnerGoes(next) == spc' = next /\ UNCHANGED runner

SpawnFails ==
  /\ spc = "spawn"
  /\ RunnerGoes("done")
  /\ result' = "missing"
  /\ UNCHANGED <<child, exit, word, left, pipe, reader, slow, late>>

Spawn ==
  /\ spc = "spawn"
  /\ RunnerGoes("poll")
  /\ child' = "running"
  /\ reader' = AtAll("reading")
  /\ UNCHANGED <<exit, word, left, pipe, slow, late, result>>

Kept == UNCHANGED <<word, left, pipe, reader, slow, late>>
Drained == \A p \in Pipes : reader[p] # "reading"
Verdict == IF exit = "ok" THEN "ok" ELSE "fail"

(* try_wait has a status.                                                  *)
Reap ==
  /\ spc = "poll" /\ runner = "threads"
  /\ child = "zombie"
  /\ child' = "reaped"
  /\ RunnerGoes("join")
  /\ UNCHANGED <<exit, result>> /\ Kept

(* communicate returns: both pipes are at their end, and the child's       *)
(* status is there.                                                        *)
Communicated ==
  /\ \/ spc = "poll" /\ runner # "threads" /\ result' = Verdict
     \/ spc = "drain" /\ UNCHANGED result
  /\ Drained
  /\ child = "zombie"
  /\ child' = "reaped"
  /\ RunnerGoes("done")
  /\ UNCHANGED exit /\ Kept

(* The clock is read after the child was seen running, or after            *)
(* communicate gave up.                                                    *)
Overdue ==
  /\ spc = "poll"
  /\ late
  /\ runner = "threads" => child = "running"
  /\ result' = "timeout"
  /\ RunnerGoes("kill")
  /\ UNCHANGED <<child, exit>> /\ Kept

(* try_wait itself fails.                                                  *)
PollFails ==
  /\ spc = "poll" /\ runner = "threads"
  /\ result' = "error"
  /\ RunnerGoes("kill")
  /\ UNCHANGED <<child, exit>> /\ Kept

(* The child may be gone by now: then kill does nothing.                   *)
Kill ==
  /\ spc = "kill"
  /\ RunnerGoes(IF runner = "helper" THEN "drain" ELSE "wait")
  /\ IF child = "running"
     THEN child' = "zombie" /\ exit' = "killed" /\ left' = AtAll(0)
     ELSE UNCHANGED <<child, exit, left>>
  /\ UNCHANGED <<word, pipe, reader, slow, late, result>>

(* wait; subprocess.run then closes its ends of the pipes.                 *)
Wait ==
  /\ spc = "wait"
  /\ child = "zombie"
  /\ child' = "reaped"
  /\ IF runner = "threads"
     THEN RunnerGoes("join") /\ UNCHANGED reader
     ELSE RunnerGoes("done") /\ reader' = AtAll("closed")
  /\ UNCHANGED <<exit, word, left, pipe, slow, late, result>>

(* Mutant: the status is taken for the output, and nobody is joined.       *)
JoinNobody ==
  /\ spc = "join"
  /\ RunnerGoes("done")
  /\ result' = IF result # "none" THEN result ELSE Verdict
  /\ UNCHANGED <<child, exit>> /\ Kept

(* Both threads are joined; a reader's error comes before the timeout.     *)
Join ==
  /\ spc = "join"
  /\ Drained
  /\ RunnerGoes("done")
  /\ result' = IF \E p \in Pipes : reader[p] = "failed" THEN "error"
               ELSE IF result # "none" THEN result
               ELSE Verdict
  /\ UNCHANGED <<child, exit>> /\ Kept

(* Somebody who is not hanging can go on: a reader, the runner, the child. *)
SomebodyGoesOn ==
  \/ child = "zombie"
  \/ \E p \in Pipes : reader[p] = "reading" /\ Drains(p) /\ pipe[p] > 0
  \/ child = "running" /\ (left = AtAll(0) \/ \E p \in Pipes : left[p] > 0 /\ pipe[p] < PipeSize)

(* The timeout passes: for a child that hangs, or when nobody goes on.     *)
TimeIsUp ==
  /\ spc = "poll"
  /\ late' = TRUE
  /\ slow \/ ~SomebodyGoesOn
  /\ UNCHANGED <<runner, spc, child, exit, word, left, pipe, reader, slow, result>>

Readers == \E p \in Pipes : Drain(p) \/ SeeEof(p)

Runner ==
  \/ SpawnFails \/ Spawn
  \/ Reap \/ Communicated \/ Overdue \/ PollFails \/ Kill \/ Wait \/ Join

ReadStep(words) ==
  \/ Child(words) \/ Hang
  \/ Readers \/ \E p \in Pipes : ReaderFails(p)
  \/ Runner \/ TimeIsUp

ReadSpec == ReadInit /\ [][ReadStep(Words)]_read

-----------------------------------------------------------------------------

ReadTypeOK ==
  /\ runner \in Runners
  /\ spc \in {"spawn", "poll", "kill", "wait", "drain", "join", "done"}
  /\ child \in {"none", "running", "zombie", "reaped"}
  /\ exit \in {"none", "ok", "fail", "killed"}
  /\ word \in Words \cup {"none"}
  /\ left \in [Pipes -> 0 .. MaxOut]
  /\ pipe \in [Pipes -> 0 .. PipeSize]
  /\ reader \in [Pipes -> {"off", "reading", "eof", "failed", "closed"}]
  /\ slow \in BOOLEAN /\ late \in BOOLEAN
  /\ result \in {"none", "missing", "ok", "fail", "timeout", "error"}

(* What the runner returns is what happened.  An output is accepted only   *)
(* when the child ended by itself, with success, and every chunk it wrote  *)
(* was read; a child is called too slow only when it hung, never because   *)
(* the runner itself left a pipe full (provider.rs:866: two readers run    *)
(* beside the poll loop); and whatever was concluded, no child is left     *)
(* unreaped and no reader left behind.                                     *)
ReadTells ==
  spc = "done" =>
    /\ result = "ok" => /\ exit = "ok" /\ word # "none"
                        /\ \A p \in Pipes : reader[p] = "eof" /\ pipe[p] = 0
    /\ result = "timeout" => slow
    /\ exit = "killed" => result \in {"timeout", "error"}
    /\ child \in {"none", "reaped"}
    /\ Drained
=============================================================================
