--------------------------- MODULE NativeReadProofs ---------------------------
(***************************************************************************)
(* What a read returns is what happened, for pipes of every size and       *)
(* children of every length of output.                                     *)
(***************************************************************************)
EXTENDS NativeRead, TLAPS

(* What holds of the runner where it is.                                   *)
RunnerWhere ==
  /\ spc = "spawn" => Fresh
  /\ spc \in {"poll", "kill", "wait", "drain"} => child \in {"running", "zombie"}
  /\ spc \in {"wait", "drain"} => child = "zombie"
  /\ spc = "join" => child = "reaped" /\ runner = "threads"
  /\ spc = "drain" => runner = "helper"
  /\ spc = "done" => child \in {"none", "reaped"} /\ \A p \in Pipes : reader[p] # "reading"

(* What it has concluded by then.                                          *)
ResultWhere ==
  /\ spc \in {"spawn", "poll"} => result = "none"
  /\ spc \in {"kill", "wait", "drain"} => result \in {"timeout", "error"}
  /\ spc = "join" => result \in {"none", "timeout", "error"}
  /\ late \/ result = "timeout" => slow

(* A child that has ended has said what it could.                          *)
ChildWhere ==
  /\ child \in {"none", "running"} => exit = "none"
  /\ child \in {"zombie", "reaped"} => exit # "none"
  /\ exit = "ok" => word # "none"
  /\ exit = "killed" => result \in {"timeout", "error"}

(* A reader stops at the end of its pipe, or when it fails, and only the   *)
(* Rust threads can fail; nothing is closed before the runner is done.     *)
ReaderWhere ==
  \A p \in Pipes :
    /\ reader[p] = "eof" => pipe[p] = 0 /\ child # "running"
    /\ reader[p] = "failed" => pipe[p] = 0 /\ runner = "threads"
    /\ reader[p] \in {"off", "closed"} => spc \in {"spawn", "done"}

Accepted ==
  spc = "done" /\ result = "ok" =>
    exit = "ok" /\ word # "none" /\ \A p \in Pipes : reader[p] = "eof" /\ pipe[p] = 0

ReadInv == ReadTypeOK /\ RunnerWhere /\ ResultWhere /\ ChildWhere /\ ReaderWhere /\ Accepted

USE DEF Runners, Pipes, AtAll

LEMMA ReadInvTells == ReadInv => ReadTells
BY DEF ReadInv, RunnerWhere, ResultWhere, ChildWhere, Accepted, ReadTells, Drained

LEMMA FreshKeepsInv ==
  ASSUME Fresh', runner' \in Runners, spc' \in {"spawn", "done"}
  PROVE  ReadInv'
<1>1. ReadTypeOK'
  <2>1. left' \in [Pipes -> 0 .. MaxOut]
    BY ReadAssumption DEF Fresh
  <2>2. pipe' \in [Pipes -> 0 .. PipeSize]
    BY ReadAssumption DEF Fresh
  <2>3. reader' \in [Pipes -> {"off", "reading", "eof", "failed", "closed"}]
    BY DEF Fresh
  <2> QED BY <2>1, <2>2, <2>3 DEF ReadTypeOK, Fresh
<1>2. RunnerWhere' /\ ResultWhere' /\ ChildWhere' /\ ReaderWhere' /\ Accepted'
  BY DEF RunnerWhere, ResultWhere, ChildWhere, ReaderWhere, Accepted, Fresh
<1> QED BY <1>1, <1>2 DEF ReadInv

LEMMA UnchangedKeepsInv == ReadInv /\ UNCHANGED read => ReadInv'
BY DEF ReadInv, ReadTypeOK, RunnerWhere, ResultWhere, ChildWhere, ReaderWhere, Accepted, Fresh, read

-----------------------------------------------------------------------------
(* The child and its pipes.                                                *)

LEMMA ChildKeepsInv ==
  ASSUME NEW words \in SUBSET Words, ReadInv, Child(words) \/ Hang
  PROVE  ReadInv'
<1> USE DEF ChildOnly
<1>1. ASSUME NEW w \in words, Produce(w) PROVE ReadInv'
  <2>1. w # "none" /\ w \in Words
    BY <1>1, ReadAssumption
  <2>2. ReadTypeOK'
    BY <1>1, <2>1 DEF Produce, ReadInv, ReadTypeOK
  <2>3. RunnerWhere' /\ ResultWhere' /\ ChildWhere' /\ ReaderWhere' /\ Accepted'
    BY <1>1, <2>1 DEF Produce, ReadInv, RunnerWhere, ResultWhere, ChildWhere, ReaderWhere,
       Accepted, Fresh
  <2> QED BY <2>2, <2>3 DEF ReadInv
<1>2. ASSUME NEW p \in Pipes, Write(p) PROVE ReadInv'
  <2>1. left[p] \in 0 .. MaxOut /\ pipe[p] \in 0 .. PipeSize
    BY DEF ReadInv, ReadTypeOK
  <2>2. left'[p] \in 0 .. MaxOut /\ pipe'[p] \in 0 .. PipeSize
    BY <1>2, <2>1, ReadAssumption DEF Write, ReadInv, ReadTypeOK
  <2>3. ReadTypeOK'
    BY <1>2, <2>2 DEF Write, ReadInv, ReadTypeOK
  <2>4. reader[p] # "eof" /\ reader[p] # "failed"
    BY <1>2 DEF Write, ReadInv, ReaderWhere
  <2>5. ReaderWhere'
    BY <1>2, <2>4 DEF Write, ReadInv, ReadTypeOK, ReaderWhere
  <2>6. RunnerWhere' /\ ResultWhere' /\ ChildWhere' /\ Accepted'
    BY <1>2 DEF Write, ReadInv, RunnerWhere, ResultWhere, ChildWhere, Accepted, Fresh
  <2> QED BY <2>3, <2>5, <2>6 DEF ReadInv
<1>3. ASSUME Succeed \/ Fail PROVE ReadInv'
  <2>1. /\ child = "running" /\ child' = "zombie"
        /\ (exit' = "ok" /\ word # "none") \/ exit' = "fail"
        /\ left' = AtAll(0) /\ UNCHANGED <<word, pipe, reader, slow, runner, spc, late, result>>
    BY <1>3 DEF Succeed, Fail, ChildEnds
  <2>2. left' \in [Pipes -> 0 .. MaxOut]
    BY <2>1, ReadAssumption
  <2>3. ReadTypeOK'
    BY <2>1, <2>2 DEF ReadInv, ReadTypeOK
  <2>4. RunnerWhere' /\ ResultWhere' /\ ChildWhere' /\ ReaderWhere' /\ Accepted'
    BY <2>1 DEF ReadInv, RunnerWhere, ResultWhere, ChildWhere, ReaderWhere, Accepted, Fresh
  <2> QED BY <2>3, <2>4 DEF ReadInv
<1>4. ASSUME Hang PROVE ReadInv'
  BY <1>4 DEF Hang, ReadInv, ReadTypeOK, RunnerWhere, ResultWhere, ChildWhere, ReaderWhere,
     Accepted, Fresh
<1> QED BY <1>1, <1>2, <1>3, <1>4 DEF Child

LEMMA ReadersKeepInv ==
  ASSUME NEW p \in Pipes, ReadInv, Drain(p) \/ SeeEof(p) \/ ReaderFails(p)
  PROVE  ReadInv'
<1> USE DEF ReaderOnly
<1>1. /\ reader[p] = "reading" /\ pipe[p] \in 0 .. PipeSize
      /\ UNCHANGED <<runner, spc, child, exit, word, left, slow, late, result>>
  BY DEF Drain, SeeEof, ReaderFails, ReadInv, ReadTypeOK
<1>2. spc # "done"
  BY <1>1 DEF ReadInv, RunnerWhere
<1>3. reader' \in [Pipes -> {"off", "reading", "eof", "failed", "closed"}]
  BY DEF Drain, SeeEof, ReaderFails, ReadInv, ReadTypeOK
<1>4. pipe' \in [Pipes -> 0 .. PipeSize]
  <2>1. pipe'[p] \in 0 .. PipeSize
    BY <1>1, ReadAssumption DEF Drain, SeeEof, ReaderFails, ReadInv, ReadTypeOK
  <2> QED BY <2>1 DEF Drain, SeeEof, ReaderFails, ReadInv, ReadTypeOK
<1>5. ReadTypeOK'
  BY <1>1, <1>3, <1>4 DEF ReadInv, ReadTypeOK
<1>6. ReaderWhere'
  <2>1. CASE Drain(p)
    BY <1>1, <2>1 DEF Drain, ReadInv, ReadTypeOK, ReaderWhere
  <2>2. CASE SeeEof(p)
    BY <1>1, <2>2 DEF SeeEof, ReadInv, ReadTypeOK, ReaderWhere
  <2>3. CASE ReaderFails(p)
    BY <1>1, <2>3 DEF ReaderFails, ReadInv, ReadTypeOK, ReaderWhere
  <2> QED BY <2>1, <2>2, <2>3
<1>7. spc # "spawn"
  BY <1>1 DEF ReadInv, RunnerWhere, Fresh
<1>8. RunnerWhere' /\ ResultWhere' /\ ChildWhere' /\ Accepted'
  BY <1>1, <1>2, <1>7 DEF ReadInv, RunnerWhere, ResultWhere, ChildWhere, Accepted
<1> QED BY <1>5, <1>6, <1>8 DEF ReadInv

-----------------------------------------------------------------------------
(* The clock: a runner that polls reads both pipes, so a child that does   *)
(* not hang can always go on.                                              *)

LEMMA PollingGoesOn ==
  ReadInv /\ spc = "poll" => SomebodyGoesOn
<1> SUFFICES ASSUME ReadInv, spc = "poll" PROVE SomebodyGoesOn
  OBVIOUS
<1>1. child \in {"running", "zombie"}
  BY DEF ReadInv, RunnerWhere
<1>2. CASE child = "running" /\ left = AtAll(0)
  BY <1>2 DEF SomebodyGoesOn
<1>3. CASE child = "running" /\ left # AtAll(0)
  <2>1. PICK p \in Pipes : left[p] # 0
    BY <1>3 DEF ReadInv, ReadTypeOK
  <2>2. left[p] > 0 /\ pipe[p] \in 0 .. PipeSize
    BY <2>1, ReadAssumption DEF ReadInv, ReadTypeOK
  <2>3. CASE pipe[p] < PipeSize
    BY <1>3, <2>2, <2>3 DEF SomebodyGoesOn
  <2>4. CASE pipe[p] = PipeSize
    <3>1. pipe[p] > 0
      BY <2>4, ReadAssumption
    <3>2. reader[p] = "reading"
      BY <3>1 DEF ReadInv, ReadTypeOK, ReaderWhere
    <3> QED BY <3>1, <3>2 DEF SomebodyGoesOn, Drains
  <2> QED BY <2>2, <2>3, <2>4, ReadAssumption
<1>4. CASE child = "zombie"
  BY <1>4 DEF SomebodyGoesOn
<1> QED BY <1>1, <1>2, <1>3, <1>4

LEMMA ClockKeepsInv == ReadInv /\ TimeIsUp => ReadInv'
<1> SUFFICES ASSUME ReadInv, TimeIsUp PROVE ReadInv'
  OBVIOUS
<1>1. slow
  BY PollingGoesOn DEF TimeIsUp
<1> QED BY <1>1 DEF TimeIsUp, ReadInv, ReadTypeOK, RunnerWhere, ResultWhere, ChildWhere,
     ReaderWhere, Accepted, Fresh

-----------------------------------------------------------------------------
(* The runner.                                                             *)

LEMMA RunnerKeepsInv == ReadInv /\ Runner => ReadInv'
<1> SUFFICES ASSUME ReadInv, Runner PROVE ReadInv'
  OBVIOUS
<1>1. ASSUME SpawnFails PROVE ReadInv'
  BY <1>1 DEF SpawnFails, RunnerGoes, Kept, Fresh, ReadInv, ReadTypeOK, RunnerWhere, ResultWhere, ChildWhere,
     ReaderWhere, Accepted
<1>2. ASSUME Spawn PROVE ReadInv'
  <2>1. reader' = AtAll("reading") /\ reader' \in [Pipes -> {"off", "reading", "eof", "failed", "closed"}]
    BY <1>2 DEF Spawn
  <2> QED BY <1>2, <2>1 DEF Spawn, RunnerGoes, Fresh, ReadInv, ReadTypeOK, RunnerWhere, ResultWhere, ChildWhere,
     ReaderWhere, Accepted
<1>3. ASSUME Reap PROVE ReadInv'
  BY <1>3 DEF Reap, RunnerGoes, Kept, ReadInv, ReadTypeOK, RunnerWhere, ResultWhere, ChildWhere,
     ReaderWhere, Accepted
<1>4. ASSUME Communicated PROVE ReadInv'
  <2>1. \A p \in Pipes : reader[p] # "reading"
    BY <1>4 DEF Communicated, Drained
  <2>2. /\ child = "zombie" /\ child' = "reaped" /\ spc' = "done"
        /\ UNCHANGED <<runner, exit, word, left, pipe, reader, slow, late>>
        /\ \/ spc = "poll" /\ runner # "threads" /\ result' = Verdict
           \/ spc = "drain" /\ result' = result
    BY <1>4 DEF Communicated, RunnerGoes, Kept
  <2>3. ASSUME result' = "ok" PROVE Accepted'
    <3>1. spc = "poll" /\ runner # "threads" /\ exit = "ok"
      BY <2>2, <2>3 DEF Verdict, ReadInv, ResultWhere
    <3>2. \A p \in Pipes : reader[p] = "eof"
      BY <2>1, <3>1 DEF ReadInv, ReadTypeOK, ReaderWhere
    <3> QED BY <2>2, <3>1, <3>2 DEF ReadInv, ChildWhere, ReaderWhere, Accepted
  <2>4. exit = "killed" => spc # "poll"
    BY DEF ReadInv, ChildWhere, ResultWhere
  <2>5. ReadTypeOK' /\ RunnerWhere' /\ ResultWhere' /\ ChildWhere' /\ ReaderWhere'
    BY <2>1, <2>2, <2>4 DEF Verdict, ReadInv, ReadTypeOK, RunnerWhere, ResultWhere, ChildWhere,
       ReaderWhere
  <2> QED BY <2>3, <2>5 DEF ReadInv, Accepted
<1>5. ASSUME Overdue PROVE ReadInv'
  BY <1>5 DEF Overdue, RunnerGoes, Kept, ReadInv, ReadTypeOK, RunnerWhere, ResultWhere, ChildWhere,
     ReaderWhere, Accepted
<1>6. ASSUME PollFails PROVE ReadInv'
  BY <1>6 DEF PollFails, RunnerGoes, Kept, ReadInv, ReadTypeOK, RunnerWhere, ResultWhere, ChildWhere,
     ReaderWhere, Accepted
<1>7. ASSUME Kill PROVE ReadInv'
  <2>1. left' \in [Pipes -> 0 .. MaxOut]
    BY <1>7, ReadAssumption DEF Kill, ReadInv, ReadTypeOK
  <2>2. ReadTypeOK'
    BY <1>7, <2>1 DEF Kill, RunnerGoes, ReadInv, ReadTypeOK
  <2> QED BY <1>7, <2>2 DEF Kill, RunnerGoes, ReadInv, ReadTypeOK, RunnerWhere, ResultWhere,
       ChildWhere, ReaderWhere, Accepted
<1>8. ASSUME Wait PROVE ReadInv'
  <2>1. reader' \in [Pipes -> {"off", "reading", "eof", "failed", "closed"}]
    BY <1>8 DEF Wait, ReadInv, ReadTypeOK
  <2>2. ReadTypeOK'
    BY <1>8, <2>1 DEF Wait, RunnerGoes, ReadInv, ReadTypeOK
  <2> QED BY <1>8, <2>2 DEF Wait, RunnerGoes, ReadInv, ReadTypeOK, RunnerWhere, ResultWhere,
       ChildWhere, ReaderWhere, Accepted
<1>9. ASSUME Join PROVE ReadInv'
  <2>1. /\ spc = "join" /\ spc' = "done"
        /\ \A p \in Pipes : reader[p] # "reading"
        /\ UNCHANGED <<runner, child, exit, word, left, pipe, reader, slow, late>>
    BY <1>9 DEF Join, RunnerGoes, Kept, Drained
  <2>2. \/ result' = "error"
        \/ result # "none" /\ result' = result
        \/ /\ result = "none" /\ result' = Verdict
           /\ \A p \in Pipes : reader[p] # "failed"
    BY <1>9 DEF Join
  <2>3. ASSUME result' = "ok" PROVE Accepted'
    <3>1. exit = "ok" /\ \A p \in Pipes : reader[p] # "failed"
      BY <2>1, <2>2, <2>3 DEF Verdict, ReadInv, ResultWhere
    <3>2. \A p \in Pipes : reader[p] = "eof"
      BY <2>1, <3>1 DEF ReadInv, ReadTypeOK, ReaderWhere
    <3> QED BY <2>1, <3>1, <3>2 DEF ReadInv, ChildWhere, ReaderWhere, Accepted
  <2>4. ReadTypeOK' /\ RunnerWhere' /\ ReaderWhere'
    BY <2>1, <2>2 DEF Verdict, ReadInv, ReadTypeOK, RunnerWhere, ReaderWhere
  <2>5. ResultWhere' /\ ChildWhere'
    BY <2>1, <2>2 DEF Verdict, ReadInv, ReadTypeOK, ResultWhere, ChildWhere, RunnerWhere
  <2> QED BY <2>3, <2>4, <2>5 DEF ReadInv, Accepted
<1> QED BY <1>1, <1>2, <1>3, <1>4, <1>5, <1>6, <1>7, <1>8, <1>9 DEF Runner

LEMMA StepKeepsInv ==
  ASSUME NEW words \in SUBSET Words, ReadInv, ReadStep(words)
  PROVE  ReadInv'
BY ChildKeepsInv, ReadersKeepInv, RunnerKeepsInv, ClockKeepsInv DEF ReadStep, Readers

(* A read alone: every output accepted was said and read to its end, only  *)
(* a child that hung is called too slow, and no child is left behind       *)
(* (output_with_timeout, _run and subprocess.run).                         *)
THEOREM ReadIsTrue == ReadSpec => [](ReadTypeOK /\ ReadTells)
<1>1. ReadInit => ReadInv
  <2> SUFFICES ASSUME ReadInit PROVE ReadInv
    OBVIOUS
  <2>1. left \in [Pipes -> 0 .. MaxOut] /\ pipe \in [Pipes -> 0 .. PipeSize]
    BY ReadAssumption DEF ReadInit, Fresh
  <2>2. reader \in [Pipes -> {"off", "reading", "eof", "failed", "closed"}]
    BY DEF ReadInit, Fresh
  <2> QED BY <2>1, <2>2 DEF ReadInit, Fresh, ReadInv, ReadTypeOK, RunnerWhere, ResultWhere,
       ChildWhere, ReaderWhere, Accepted
<1>2. ReadInv /\ [ReadStep(Words)]_read => ReadInv'
  BY StepKeepsInv, UnchangedKeepsInv
<1>3. ReadInv => ReadTypeOK /\ ReadTells
  BY ReadInvTells DEF ReadInv
<1> QED BY <1>1, <1>2, <1>3, PTL DEF ReadSpec
=============================================================================
