--------------------------- MODULE McpServerProofs ---------------------------
(***************************************************************************)
(* Theorems of McpServer for every set of ids and generations, every       *)
(* channel capacity and every bound on lines and primitives.               *)
(***************************************************************************)
EXTENDS McpServer, TLAPS

(* The worker has a call that is not answered.                             *)
Held == wpc \in {"accepted", "probe", "step", "blind", "finish", "reply", "dead"}

(* TypeOK is not inductive by itself: a response takes its kind from the   *)
(* worker's outcome, so an outcome must be known when it is written.       *)
OutcomeKnown == wpc \in {"finish", "reply"} => woutcome # "none"
TypeInv == TypeOK /\ OutcomeKnown

(* Appending to the input leaves every earlier line in place.              *)
LEMMA AppendKeeps ==
  ASSUME NEW S, NEW s \in Seq(S), NEW e \in S
  PROVE  /\ Append(s, e) \in Seq(S)
         /\ Len(Append(s, e)) = Len(s) + 1
         /\ \A k \in 1 .. Len(s) : Append(s, e)[k] = s[k]
         /\ Append(s, e)[Len(s) + 1] = e
  OBVIOUS

(* A step of the reader that takes a line.                                 *)
LEMMA ReadFacts ==
  ASSUME TypeOK, NEW line \in Lines, Read(line)
  PROVE  /\ log' \in Seq(Lines)
         /\ Len(log)' = Len(log) + 1
         /\ \A k \in 1 .. Len(log) : log'[k] = log[k]
         /\ log'[Len(log) + 1] = line
  BY AppendKeeps DEF Read, TypeOK

(* Removing the head of the channel shifts the others by one.              *)
LEMMA TailShifts ==
  ASSUME NEW S, NEW s \in Seq(S), s # <<>>
  PROVE  /\ Tail(s) \in Seq(S)
         /\ Len(Tail(s)) = Len(s) - 1
         /\ \A k \in 1 .. Len(s) - 1 : Tail(s)[k] = s[k + 1]
         /\ Head(s) = s[1] /\ Len(s) >= 1 /\ Head(s) \in S
  OBVIOUS

-----------------------------------------------------------------------------
(* What a reader step that takes a line and leaves the worker alone does   *)
(* to the type invariant.                                                  *)
LEMMA ReadKeepsType ==
  ASSUME TypeInv, NEW line \in Lines, Read(line),
         UNCHANGED <<piped, wpc, workVars, nextGen, replies>>,
         rpc' \in {"read", "write", "closed"}, rreply' \in RepliesType,
         active' \in [id : Ids \cup {NoId}, gen : Nat, cancelled : BOOLEAN],
         \/ queue' = queue
         \/ /\ line.kind = "call"
            /\ Len(queue) < Capacity
            /\ queue' = Append(queue, Len(log) + 1)
  PROVE  TypeInv'
<1>1. /\ log' \in Seq(Lines)
      /\ Len(log') = Len(log) + 1
      /\ \A k \in 1 .. Len(log) : log'[k] = log[k]
      /\ log'[Len(log) + 1] = line
  BY ReadFacts DEF TypeInv
<1>2. Len(log) \in Nat /\ Len(queue) \in Nat /\ Capacity \in Nat
  BY ServerAssumption DEF TypeInv, TypeOK
<1>3. \A n \in 1 .. Len(log) : /\ n \in 1 .. Len(log')
                                /\ log'[n].kind = log[n].kind
  BY <1>1, <1>2
<1>4. \A i \in 1 .. Len(queue) :
        queue[i] \in 1 .. Len(log) /\ log[queue[i]].kind = "call"
  BY DEF TypeInv, TypeOK, Positions
<1>5. /\ queue' \in Seq(Nat)
      /\ Len(queue') <= Capacity
      /\ \A i \in 1 .. Len(queue') :
           queue'[i] \in 1 .. Len(log') /\ log'[queue'[i]].kind = "call"
  <2>1. CASE queue' = queue
    BY <1>3, <1>4, <2>1 DEF TypeInv, TypeOK
  <2>2. CASE /\ line.kind = "call"
             /\ Len(queue) < Capacity
             /\ queue' = Append(queue, Len(log) + 1)
    <3>1. /\ queue' \in Seq(Nat)
          /\ Len(queue') = Len(queue) + 1
          /\ \A k \in 1 .. Len(queue) : queue'[k] = queue[k]
          /\ queue'[Len(queue) + 1] = Len(log) + 1
      BY <2>2, <1>2, AppendKeeps DEF TypeInv, TypeOK
    <3>2. ASSUME NEW i \in 1 .. Len(queue')
          PROVE  queue'[i] \in 1 .. Len(log') /\ log'[queue'[i]].kind = "call"
      <4>1. i = Len(queue) + 1 \/ i \in 1 .. Len(queue)
        BY <1>2, <3>1
      <4>2. CASE i = Len(queue) + 1
        BY <1>1, <1>2, <2>2, <3>1, <4>2
      <4>3. CASE i \in 1 .. Len(queue)
        BY <1>3, <1>4, <3>1, <4>3
      <4> QED BY <4>1, <4>2, <4>3
    <3> QED BY <1>2, <2>2, <3>1, <3>2
  <2> QED BY <2>1, <2>2
<1>6. Held => wcall' \in 1 .. Len(log') /\ log'[wcall'].kind = "call"
  BY <1>3 DEF Held, Positions, workVars, TypeInv, TypeOK
<1>7. DOMAIN queue' = 1 .. Len(queue')
  BY <1>5
<1> QED BY <1>1, <1>5, <1>6, <1>7
        DEF Held, Positions, workVars, OutcomeKnown, TypeInv, TypeOK

LEMMA NoReplyType == NoReply \in RepliesType
  BY DEF NoReply, Reply, RepliesType, ReplyKinds

LEMMA ReaderAnswerType ==
  ASSUME TypeOK, NEW kind \in ReplyKinds, ReaderAnswers(kind)
  PROVE  rpc' = "write" /\ rreply' \in RepliesType
  BY DEF ReaderAnswers, Reply, RepliesType, Position, TypeOK

LEMMA HandleType ==
  ASSUME TypeOK
  PROVE  LET Handle == [id : Ids \cup {NoId}, gen : Nat, cancelled : BOOLEAN] IN
         /\ Cancelled \in Handle
         /\ \A id, gen : CancelledRequest(id, gen) \in Handle
         /\ \A token : Finished(token) \in Handle
         /\ \A id \in Ids : Begun(id) \in Handle
<1> DEFINE Handle == [id : Ids \cup {NoId}, gen : Nat, cancelled : BOOLEAN]
<1>1. active \in Handle /\ nextGen + 1 \in Nat
  BY DEF TypeOK
<1>2. [active EXCEPT !.cancelled = TRUE] \in Handle
  BY <1>1
<1>3. NoActive \in Handle
  BY DEF NoActive
<1>4. \A id \in Ids : Begun(id) \in Handle
  BY <1>1 DEF Begun
<1> QED BY <1>1, <1>2, <1>3, <1>4 DEF Cancelled, CancelledRequest, Finished

LEMMA TypeInvariant == Spec => []TypeInv
<1>1. Init => TypeInv
  BY NoReplyType, ServerAssumption
  DEF Init, TypeInv, TypeOK, OutcomeKnown, Lines, RepliesType, Outcomes, NoActive
<1>2. ASSUME TypeInv, [Next]_vars PROVE TypeInv'
  <2> USE <1>2
  <2>t. TypeOK
    BY DEF TypeInv
  <2>1. CASE ReadCancel
    <3>1. PICK line \in Lines :
            /\ Read(line)
            /\ active' = CancelledRequest(line.id, line.gen)
            /\ UNCHANGED <<piped, readerVars, queue, wpc, workVars, nextGen, replies>>
      BY <2>1 DEF ReadCancel
    <3>2. rpc' = "read" /\ rreply' = rreply
      BY <3>1 DEF readerVars, Read
    <3> QED BY <2>t, <3>1, <3>2, ReadKeepsType, HandleType DEF TypeOK
  <2>2. CASE ReadStop
    <3>1. PICK line \in Lines :
            /\ Read(line)
            /\ IF line.answer
               THEN /\ active' = Cancelled
                    /\ ReaderAnswers(IF IsActive THEN "stopped" ELSE "idle")
               ELSE UNCHANGED <<active, readerVars>>
            /\ UNCHANGED <<piped, queue, wpc, workVars, nextGen, replies>>
      BY <2>2 DEF ReadStop
    <3>2. rpc' \in {"read", "write"} /\ rreply' \in RepliesType
      BY <2>t, <3>1, ReaderAnswerType DEF readerVars, Read, ReplyKinds, TypeOK
    <3>3. active' \in [id : Ids \cup {NoId}, gen : Nat, cancelled : BOOLEAN]
      BY <2>t, <3>1, HandleType DEF TypeOK
    <3> QED BY <3>1, <3>2, <3>3, ReadKeepsType
  <2>3. CASE ReadCall
    <3>1. PICK line \in Lines :
            /\ line.kind = "call"
            /\ Read(line)
            /\ \/ /\ Len(queue) < Capacity
                  /\ queue' = Append(queue, Position)
                  /\ UNCHANGED readerVars
               \/ /\ ReaderAnswers("busy")
                  /\ UNCHANGED queue
               \/ /\ rpc' = "closed"
                  /\ UNCHANGED <<rreply, queue>>
            /\ UNCHANGED <<piped, wpc, workVars, handleVars, replies>>
      BY <2>3 DEF ReadCall
    <3>2. rpc' \in {"read", "write", "closed"} /\ rreply' \in RepliesType
      BY <2>t, <3>1, ReaderAnswerType DEF readerVars, Read, ReplyKinds, TypeOK
    <3> QED BY <2>t, <3>1, <3>2, ReadKeepsType DEF Position, handleVars, TypeOK
  <2>4. CASE ReadPlain
    <3>1. PICK line \in Lines :
            /\ Read(line)
            /\ ReaderAnswers("plain")
            /\ UNCHANGED <<piped, queue, wpc, workVars, handleVars, replies>>
      BY <2>4 DEF ReadPlain
    <3>2. rpc' = "write" /\ rreply' \in RepliesType
      BY <2>t, <3>1, ReaderAnswerType DEF ReplyKinds
    <3> QED BY <2>t, <3>1, <3>2, ReadKeepsType DEF handleVars, TypeOK
  <2>5. CASE ReaderWrite
    <3>1. /\ replies' \in Seq(RepliesType)
          /\ rreply' \in RepliesType
          /\ rpc' \in {"read", "failed"}
      <4>1. Append(replies, rreply) \in Seq(RepliesType)
        BY <2>t, AppendKeeps DEF TypeOK
      <4> QED BY <2>5, <2>t, <4>1, NoReplyType DEF ReaderWrite, TypeOK
    <3> QED BY <2>5, <2>t, <3>1
            DEF ReaderWrite, TypeInv, TypeOK, OutcomeKnown, Positions, workVars,
                handleVars
  <2>6. CASE ReadEof \/ ReadError \/ Join \/ Exit \/ CloseOutput
    BY <2>6 DEF ReadEof, ReadError, Join, Exit, CloseOutput, TypeInv, TypeOK,
                OutcomeKnown, Positions, readerVars, workVars, handleVars
  <2>7. CASE Receive
    <3>1. /\ queue' \in Seq(Nat)
          /\ Len(queue') = Len(queue) - 1
          /\ \A k \in 1 .. Len(queue) - 1 : queue'[k] = queue[k + 1]
          /\ wcall' = queue[1] /\ Len(queue) >= 1
      BY <2>7, <2>t, TailShifts DEF Receive, TypeOK
    <3>2. /\ DOMAIN queue' = 1 .. Len(queue) - 1
          /\ DOMAIN queue = 1 .. Len(queue)
          /\ Len(queue) \in Nat /\ Capacity \in Nat
      BY <2>t, <3>1, ServerAssumption DEF TypeOK
    <3>a. \A i \in 1 .. Len(queue) :
            queue[i] \in Positions /\ log[queue[i]].kind = "call"
      BY <2>t, <3>2 DEF TypeOK
    <3>3. ASSUME NEW i \in DOMAIN queue'
          PROVE  queue'[i] \in Positions /\ log[queue'[i]].kind = "call"
      <4>1. i \in 1 .. Len(queue) - 1 /\ i + 1 \in 1 .. Len(queue)
        BY <3>2
      <4> QED BY <3>1, <3>a, <4>1
    <3>4. wcall' \in Positions /\ log[wcall'].kind = "call"
      <4>1. 1 \in 1 .. Len(queue)
        BY <3>1, <3>2
      <4> QED BY <3>1, <3>a, <4>1
    <3> QED BY <2>7, <2>t, <3>1, <3>2, <3>3, <3>4
            DEF Receive, TypeInv, TypeOK, OutcomeKnown, Positions, Outcomes,
                readerVars, handleVars
  <2>8. CASE WorkerEnds \/ Ignore \/ Refuse
    BY <2>8 DEF WorkerEnds, Ignore, Refuse, TypeInv, TypeOK, OutcomeKnown,
                Positions, Outcomes, readerVars, workVars, handleVars
  <2>9. CASE Begin
    <3>1. log[wcall] \in Lines /\ log[wcall].kind = "call"
      BY <2>9, <2>t DEF Begin, TypeOK, Positions
    <3>2. log[wcall].id \in Ids
      BY <2>9, <3>1 DEF Begin, Lines
    <3>3. active' \in [id : Ids \cup {NoId}, gen : Nat, cancelled : BOOLEAN]
      BY <2>9, <2>t, <3>2, HandleType DEF Begin
    <3>4. wpc' \in {"probe", "blind"} /\ wfrom' \in Nat /\ wtoken' \in Nat
          /\ nextGen' \in Nat
      BY <2>9, <2>t DEF Begin, TypeOK
    <3> QED BY <2>9, <2>t, <3>3, <3>4
            DEF Begin, TypeInv, TypeOK, OutcomeKnown, Positions, readerVars
  <2>10. CASE Probe \/ WorkBlind
    <3>1. /\ UNCHANGED <<log, piped, rpc, rreply, queue, wcall, wtoken, wfrom,
                         wsteps, wlate, active, nextGen, replies>>
          /\ wpc \in {"probe", "blind"} /\ wpc' \in {"step", "finish"}
          /\ \/ UNCHANGED <<woutcome, wto>> /\ wpc' = "step"
             \/ woutcome' \in {"cancelled", "done"} /\ wto' = Len(log)
      BY <2>10 DEF Probe, WorkBlind, Settle, readerVars, handleVars
    <3> QED BY <2>t, <3>1 DEF TypeInv, TypeOK, OutcomeKnown, Positions, Outcomes
  <2>11. CASE Step
    <3>1. /\ wlate' \in Nat /\ wsteps' \in Nat /\ wto' \in Nat
          /\ wpc' \in {"probe", "finish"} /\ woutcome' \in Outcomes
          /\ wpc' = "finish" => woutcome' # "none"
      BY <2>11, <2>t DEF Step, Settle, TypeOK, Outcomes
    <3> QED BY <2>11, <2>t, <3>1
            DEF Step, TypeInv, TypeOK, OutcomeKnown, Positions, readerVars, handleVars
  <2>12. CASE Finish
    BY <2>12, <2>t, HandleType
    DEF Finish, TypeInv, TypeOK, OutcomeKnown, Positions, readerVars
  <2>13. CASE WorkerWrite
    <3>1. Reply(wcall, woutcome, wtoken, wfrom, wto) \in RepliesType
      <4>1. woutcome \in ReplyKinds
        BY <2>13 DEF WorkerWrite, ReplyKinds, Outcomes, TypeInv, TypeOK, OutcomeKnown
      <4> QED BY <4>1, <2>t DEF Reply, RepliesType, TypeOK
    <3>2. replies' \in Seq(RepliesType) /\ wpc' \in {"recv", "dead"}
      <4>1. Append(replies, Reply(wcall, woutcome, wtoken, wfrom, wto))
              \in Seq(RepliesType)
        BY <2>t, <3>1, AppendKeeps DEF TypeOK
      <4> QED BY <2>13, <2>t, <4>1 DEF WorkerWrite, TypeOK
    <3> QED BY <2>13, <2>t, <3>2
            DEF WorkerWrite, TypeInv, TypeOK, OutcomeKnown, Positions, readerVars,
                workVars, handleVars
  <2>14. CASE UNCHANGED vars
    BY <2>14 DEF vars, TypeInv, TypeOK, OutcomeKnown, Positions, readerVars,
                 workVars, handleVars
  <2> QED
    BY <2>1, <2>2, <2>3, <2>4, <2>5, <2>6, <2>7, <2>8, <2>9, <2>10, <2>11,
       <2>12, <2>13, <2>14 DEF Next, Reader, Worker, Terminated
<1> QED BY <1>1, <1>2, PTL DEF Spec

(* In every reachable state both threads, the channel and the handle have  *)
(* the shapes TypeOK gives them; the channel never exceeds its capacity.   *)
THEOREM TypeCorrect == Spec => []TypeOK
<1>1. TypeInv => TypeOK
  BY DEF TypeInv
<1> QED BY <1>1, TypeInvariant, PTL

-----------------------------------------------------------------------------
(* Cancellation.  The invariant ties the token to the input: while the     *)
(* command runs, its token is set exactly when a line aimed at it has been *)
(* taken since its begin.  That needs the handle to hold the worker's own  *)
(* token from begin to finish, and nobody else's.                          *)
LateBound ==
  /\ wlate <= 1
  /\ wpc \notin {"probe", "finish"} => wlate = 0
  /\ wpc = "probe" /\ wlate > 0 => active.cancelled

OutcomeJustified ==
  wpc \in {"finish", "reply"} /\ woutcome = "cancelled" =>
    /\ wto <= Len(log)
    /\ AimedBetween(wfrom, wto, log[wcall].id, wtoken)

RepliesJustified ==
  /\ rreply.kind # "cancelled"
  /\ \A i \in DOMAIN replies : replies[i].kind = "cancelled" =>
       /\ replies[i].line \in Positions
       /\ replies[i].to <= Len(log)
       /\ AimedBetween(replies[i].from, replies[i].to, log[replies[i].line].id,
                       replies[i].gen)

CancelInv == HandleOwned /\ TokenExact /\ LateBound /\ OutcomeJustified
               /\ RepliesJustified

(* Taking a line sets the token of the call it is aimed at, and no other.  *)
Tracks(line) ==
  active' = IF IsActive /\ Aimed(line, active.id, active.gen)
            THEN [active EXCEPT !.cancelled = TRUE]
            ELSE active

TakesLine(line) ==
  /\ Read(line)
  /\ Tracks(line)
  /\ rreply'.kind # "cancelled"
  /\ UNCHANGED <<wpc, workVars, nextGen, replies>>

LEMMA ReadTakesLine ==
  ASSUME TypeOK, CancelInv, ReadCancel \/ ReadStop \/ ReadCall \/ ReadPlain
  PROVE  \E line \in Lines : TakesLine(line)
<1> USE DEF TakesLine, Tracks, Aimed, CancelInv, RepliesJustified
<1>1. CASE ReadCancel
  <2>1. PICK line \in Lines :
          /\ line.kind = "cancel"
          /\ Read(line)
          /\ active' = CancelledRequest(line.id, line.gen)
          /\ UNCHANGED <<readerVars, wpc, workVars, nextGen, replies>>
    BY <1>1 DEF ReadCancel
  <2> QED BY <2>1 DEF CancelledRequest, readerVars
<1>2. CASE ReadStop
  <2>1. PICK line \in Lines :
          /\ line.kind = "stop"
          /\ Read(line)
          /\ IF line.answer
             THEN /\ active' = Cancelled
                  /\ ReaderAnswers(IF IsActive THEN "stopped" ELSE "idle")
             ELSE UNCHANGED <<active, readerVars>>
          /\ UNCHANGED <<wpc, workVars, nextGen, replies>>
    BY <1>2 DEF ReadStop
  <2> QED BY <2>1 DEF Cancelled, ReaderAnswers, Reply, readerVars
<1>3. CASE ReadCall
  <2>1. PICK line \in Lines :
          /\ line.kind = "call"
          /\ Read(line)
          /\ UNCHANGED rreply \/ ReaderAnswers("busy")
          /\ UNCHANGED <<wpc, workVars, active, nextGen, replies>>
    BY <1>3 DEF ReadCall, readerVars, handleVars
  <2> QED BY <2>1 DEF ReaderAnswers, Reply
<1>4. CASE ReadPlain
  <2>1. PICK line \in Lines :
          /\ line.kind = "plain"
          /\ Read(line)
          /\ ReaderAnswers("plain")
          /\ UNCHANGED <<wpc, workVars, active, nextGen, replies>>
    BY <1>4 DEF ReadPlain, handleVars
  <2> QED BY <2>1 DEF ReaderAnswers, Reply
<1> QED BY <1>1, <1>2, <1>3, <1>4

LEMMA ReadKeepsCancelInv ==
  ASSUME TypeOK, CancelInv, NEW line \in Lines, TakesLine(line)
  PROVE  CancelInv'
<1>1. /\ log' \in Seq(Lines)
      /\ Len(log') = Len(log) + 1
      /\ \A k \in 1 .. Len(log) : log'[k] = log[k]
      /\ log'[Len(log) + 1] = line
      /\ Len(log) \in Nat
  BY ReadFacts DEF TakesLine, TypeOK
<1>2. UNCHANGED <<wpc, wcall, wtoken, wfrom, wto, wsteps, wlate, woutcome, replies>>
  BY DEF TakesLine, workVars
<1>3. Held => wcall \in 1 .. Len(log) /\ log'[wcall] = log[wcall]
  BY <1>1 DEF Held, TypeOK, Positions
<1>4. active \in [id : Ids \cup {NoId}, gen : Nat, cancelled : BOOLEAN]
  BY DEF TypeOK
<1>5. /\ active'.gen = active.gen
      /\ active'.id = active.id
      /\ active'.cancelled <=>
           (active.cancelled \/ (IsActive /\ Aimed(line, active.id, active.gen)))
  BY <1>4 DEF TakesLine, Tracks
<1>6. ASSUME NEW from \in Nat, NEW to \in Nat, NEW id, NEW gen, to <= Len(log)
      PROVE  /\ AimedBetween(from, to, id, gen)
               <=> \E k \in from + 1 .. to : Aimed(log'[k], id, gen)
  <2>1. \A k \in from + 1 .. to : log'[k] = log[k]
    BY <1>1, <1>6
  <2> QED BY <2>1 DEF AimedBetween
<1>7. HandleOwned'
  BY <1>2, <1>3, <1>5 DEF CancelInv, HandleOwned, Serving, IsActive, Held
<1>8. TokenExact'
  <2>1. SUFFICES ASSUME wpc \in {"probe", "step", "blind"}
                 PROVE  /\ wfrom <= Len(log')
                        /\ active'.cancelled <=>
                             \E k \in wfrom + 1 .. Len(log') :
                               Aimed(log'[k], log[wcall].id, wtoken)
    BY <1>2, <1>3 DEF TokenExact, AimedBetween, Held
  <2>2. /\ wfrom <= Len(log) /\ wfrom \in Nat /\ IsActive
        /\ active.gen = wtoken /\ active.id = log[wcall].id
    BY <2>1 DEF CancelInv, TokenExact, HandleOwned, Serving, TypeOK
  <2>3. active.cancelled <=> AimedBetween(wfrom, Len(log), log[wcall].id, wtoken)
    BY <2>1 DEF CancelInv, TokenExact
  <2>4. AimedBetween(wfrom, Len(log), log[wcall].id, wtoken)
          <=> \E k \in wfrom + 1 .. Len(log) :
                Aimed(log'[k], log[wcall].id, wtoken)
    BY <1>1, <1>6, <2>2
  <2>5. active'.cancelled <=>
          (active.cancelled \/ Aimed(line, log[wcall].id, wtoken))
    BY <1>5, <2>2
  <2>6. /\ wfrom <= Len(log')
        /\ \A k : k \in wfrom + 1 .. Len(log') <=>
                   (k \in wfrom + 1 .. Len(log) \/ k = Len(log) + 1)
    BY <1>1, <2>2
  <2>7. (\E k \in wfrom + 1 .. Len(log') : Aimed(log'[k], log[wcall].id, wtoken))
          <=> \/ \E k \in wfrom + 1 .. Len(log) :
                   Aimed(log'[k], log[wcall].id, wtoken)
              \/ Aimed(line, log[wcall].id, wtoken)
    BY <1>1, <2>6
  <2> QED BY <2>3, <2>4, <2>5, <2>6, <2>7
<1>9. LateBound'
  BY <1>2, <1>5 DEF CancelInv, LateBound
<1>10. OutcomeJustified'
  <2>1. SUFFICES ASSUME wpc \in {"finish", "reply"}, woutcome = "cancelled"
                 PROVE  /\ wto <= Len(log')
                        /\ \E k \in wfrom + 1 .. wto :
                             Aimed(log'[k], log[wcall].id, wtoken)
    BY <1>2, <1>3 DEF OutcomeJustified, AimedBetween, Held
  <2>2. /\ wto <= Len(log) /\ wto \in Nat /\ wfrom \in Nat
        /\ AimedBetween(wfrom, wto, log[wcall].id, wtoken)
    BY <2>1 DEF CancelInv, OutcomeJustified, TypeOK
  <2> QED BY <1>1, <1>6, <2>2
<1>11. RepliesJustified'
  <2>1. ASSUME NEW i \in DOMAIN replies, replies[i].kind = "cancelled"
        PROVE  /\ replies[i].line \in 1 .. Len(log')
               /\ replies[i].to <= Len(log')
               /\ \E k \in replies[i].from + 1 .. replies[i].to :
                    Aimed(log'[k], log'[replies[i].line].id, replies[i].gen)
    <3>1. replies[i].from \in Nat /\ replies[i].to \in Nat
      <4>1. replies[i] \in RepliesType
        BY DEF TypeOK
      <4> QED BY <4>1 DEF RepliesType
    <3>2. /\ replies[i].line \in 1 .. Len(log)
          /\ replies[i].to <= Len(log)
          /\ AimedBetween(replies[i].from, replies[i].to,
                          log[replies[i].line].id, replies[i].gen)
      BY <2>1 DEF CancelInv, RepliesJustified, Positions
    <3>3. log'[replies[i].line] = log[replies[i].line]
      BY <1>1, <3>2
    <3> QED BY <1>1, <1>6, <3>1, <3>2, <3>3
  <2> QED BY <1>2, <2>1 DEF RepliesJustified, TakesLine, AimedBetween, Positions
<1> QED BY <1>7, <1>8, <1>9, <1>10, <1>11 DEF CancelInv

(* A step that writes a response leaves the others where they were.        *)
LEMMA WriteFacts ==
  ASSUME TypeOK, NEW r \in RepliesType, replies' = Append(replies, r)
  PROVE  /\ DOMAIN replies' = 1 .. Len(replies) + 1
         /\ DOMAIN replies = 1 .. Len(replies)
         /\ Len(replies) \in Nat
         /\ \A i \in 1 .. Len(replies) : replies'[i] = replies[i]
         /\ replies'[Len(replies) + 1] = r
<1>1. /\ replies' \in Seq(RepliesType)
      /\ Len(replies') = Len(replies) + 1
      /\ \A i \in 1 .. Len(replies) : replies'[i] = replies[i]
      /\ replies'[Len(replies) + 1] = r
      /\ replies \in Seq(RepliesType)
  BY AppendKeeps DEF TypeOK
<1> QED BY <1>1

LEMMA WorkerReplyType ==
  ASSUME TypeInv, WorkerWrite
  PROVE  Reply(wcall, woutcome, wtoken, wfrom, wto) \in RepliesType
<1>1. woutcome \in ReplyKinds
  BY DEF WorkerWrite, ReplyKinds, Outcomes, TypeInv, TypeOK, OutcomeKnown
<1> QED BY <1>1 DEF Reply, RepliesType, TypeInv, TypeOK

LEMMA WorkerKeepsCancelInv ==
  ASSUME TypeInv, CancelInv, Worker
  PROVE  CancelInv'
<1> USE DEF CancelInv, HandleOwned, TokenExact, LateBound, OutcomeJustified,
            RepliesJustified, AimedBetween, Serving, IsActive
<1>t. TypeOK
  BY DEF TypeInv
<1>1. CASE Receive \/ WorkerEnds \/ Ignore \/ Refuse
  BY <1>1, <1>t DEF Receive, WorkerEnds, Ignore, Refuse, Positions, readerVars,
                    workVars, handleVars
<1>2. CASE Begin
  <2>1. /\ active' = [id |-> log[wcall].id, gen |-> nextGen + 1, cancelled |-> FALSE]
        /\ wtoken' = nextGen + 1 /\ nextGen + 1 # 0
        /\ wfrom' = Len(log) /\ Len(log) \in Nat
        /\ wpc = "accepted" /\ wpc' \in {"probe", "blind"}
        /\ UNCHANGED <<log, wcall, wlate, replies, rreply>>
    BY <1>2, <1>t DEF Begin, Begun, TypeOK, readerVars
  <2>2. wfrom' + 1 .. Len(log') = {}
    BY <2>1
  <2>3. HandleOwned' /\ LateBound' /\ OutcomeJustified'
    BY <2>1
  <2>4. TokenExact'
    BY <2>1, <2>2
  <2>5. RepliesJustified'
    BY <2>1 DEF Positions
  <2> QED BY <2>3, <2>4, <2>5
<1>3. CASE Probe
  <2>1. /\ wpc = "probe" /\ wpc' \in {"step", "finish"}
        /\ wpc' = "step" => ~active.cancelled
        /\ wpc' = "finish" => active.cancelled /\ wto' = Len(log)
        /\ UNCHANGED <<log, active, wcall, wtoken, wfrom, wlate, replies, rreply>>
        /\ Len(log) \in Nat /\ wlate \in Nat
    BY <1>3, <1>t DEF Probe, Settle, TypeOK, readerVars, handleVars
  <2>2. HandleOwned' /\ TokenExact' /\ RepliesJustified'
    BY <2>1 DEF Positions
  <2>3. LateBound'
    BY <2>1
  <2>4. OutcomeJustified'
    BY <2>1
  <2> QED BY <2>2, <2>3, <2>4
<1>4. CASE Step
  <2>1. /\ wpc = "step" /\ wpc' \in {"probe", "finish"}
        /\ wpc' = "finish" => \/ woutcome' = "done"
                              \/ woutcome' = "cancelled" /\ active.cancelled
        /\ wpc' = "finish" => wto' = Len(log) /\ Len(log) \in Nat
        /\ wlate' = IF AimedBetween(wfrom, Len(log), log[wcall].id, wtoken)
                    THEN wlate + 1 ELSE wlate
        /\ UNCHANGED <<log, active, wcall, wtoken, wfrom, replies, rreply>>
    BY <1>4, <1>t DEF Step, Settle, TypeOK, readerVars, handleVars
  <2>2. HandleOwned' /\ TokenExact' /\ RepliesJustified'
    BY <2>1 DEF Positions
  <2>3. wlate = 0 /\ (active.cancelled <=>
                       AimedBetween(wfrom, Len(log), log[wcall].id, wtoken))
    BY <2>1
  <2>4. LateBound'
    BY <2>1, <2>3
  <2>5. OutcomeJustified'
    BY <2>1, <2>3
  <2> QED BY <2>2, <2>4, <2>5
<1>5. CASE Finish
  BY <1>5 DEF Finish, Finished, NoActive, Positions, readerVars
<1>6. CASE WorkerWrite
  <2>1. /\ wpc = "reply" /\ wpc' \in {"recv", "dead"}
        /\ UNCHANGED <<log, active, rreply, wlate>>
    BY <1>6 DEF WorkerWrite, readerVars, workVars, handleVars
  <2>2. HandleOwned' /\ TokenExact' /\ LateBound' /\ OutcomeJustified'
    BY <2>1
  <2>3. RepliesJustified'
    <3>1. CASE UNCHANGED replies
      BY <2>1, <3>1 DEF Positions
    <3>2. CASE replies' = Append(replies, Reply(wcall, woutcome, wtoken, wfrom, wto))
      <4> DEFINE r == Reply(wcall, woutcome, wtoken, wfrom, wto)
      <4>1. /\ DOMAIN replies' = 1 .. Len(replies) + 1
            /\ DOMAIN replies = 1 .. Len(replies)
            /\ Len(replies) \in Nat
            /\ \A i \in 1 .. Len(replies) : replies'[i] = replies[i]
            /\ replies'[Len(replies) + 1] = r
        BY <1>6, <1>t, <3>2, WriteFacts, WorkerReplyType
      <4>2. r.kind = "cancelled" =>
              /\ r.line \in Positions
              /\ r.to <= Len(log)
              /\ AimedBetween(r.from, r.to, log[r.line].id, r.gen)
        BY <2>1, <1>t DEF Reply, TypeOK
      <4>3. ASSUME NEW i \in DOMAIN replies', replies'[i].kind = "cancelled"
            PROVE  /\ replies'[i].line \in Positions
                   /\ replies'[i].to <= Len(log)
                   /\ AimedBetween(replies'[i].from, replies'[i].to,
                                   log[replies'[i].line].id, replies'[i].gen)
        <5>1. CASE i = Len(replies) + 1
          BY <4>1, <4>2, <4>3, <5>1
        <5>2. CASE i \in 1 .. Len(replies)
          BY <4>1, <4>3, <5>2
        <5> QED BY <4>1, <5>1, <5>2
      <4> QED BY <2>1, <4>3 DEF Positions
    <3> QED BY <1>6, <3>1, <3>2 DEF WorkerWrite
  <2> QED BY <2>2, <2>3
<1>7. CASE WorkBlind
  <2>1. /\ wpc = "blind" /\ wpc' = "finish" /\ woutcome' = "done"
        /\ UNCHANGED <<log, active, wcall, wtoken, wfrom, wlate, replies, rreply>>
    BY <1>7 DEF WorkBlind, Settle, readerVars, handleVars
  <2> QED BY <2>1 DEF Positions
<1> QED BY <1>1, <1>2, <1>3, <1>4, <1>5, <1>6, <1>7 DEF Worker

LEMMA OtherKeepsCancelInv ==
  ASSUME TypeOK, CancelInv,
         \/ ReaderWrite \/ ReadEof \/ ReadError \/ Join \/ Exit \/ CloseOutput
         \/ UNCHANGED vars
  PROVE  CancelInv'
<1> USE DEF CancelInv, HandleOwned, TokenExact, LateBound, OutcomeJustified,
            RepliesJustified, AimedBetween, Serving, IsActive, Positions
<1>1. CASE ReaderWrite
  <2>1. /\ UNCHANGED <<log, wpc, workVars, active>>
        /\ rreply'.kind # "cancelled"
        /\ UNCHANGED replies \/ replies' = Append(replies, rreply)
    BY <1>1 DEF ReaderWrite, NoReply, Reply, handleVars
  <2>2. CASE UNCHANGED replies
    BY <2>1, <2>2 DEF workVars
  <2>3. CASE replies' = Append(replies, rreply)
    <3>1. /\ DOMAIN replies' = 1 .. Len(replies) + 1
          /\ DOMAIN replies = 1 .. Len(replies)
          /\ Len(replies) \in Nat
          /\ \A i \in 1 .. Len(replies) : replies'[i] = replies[i]
          /\ replies'[Len(replies) + 1] = rreply
      BY <2>3, WriteFacts DEF TypeOK
    <3>2. \A i \in DOMAIN replies' :
            replies'[i].kind = "cancelled" =>
              i \in DOMAIN replies /\ replies'[i] = replies[i]
      BY <3>1
    <3>3. RepliesJustified'
      BY <2>1, <3>2
    <3> QED BY <2>1, <3>3 DEF workVars
  <2> QED BY <2>1, <2>2, <2>3
<1>2. CASE ReadEof \/ ReadError \/ Join \/ Exit \/ CloseOutput
  BY <1>2 DEF ReadEof, ReadError, Join, Exit, CloseOutput, readerVars, workVars,
              handleVars
<1>3. CASE UNCHANGED vars
  BY <1>3 DEF vars, readerVars, workVars, handleVars
<1> QED BY <1>1, <1>2, <1>3

LEMMA CancelInvariant == Spec => []CancelInv
<1>1. Init => CancelInv
  BY DEF Init, CancelInv, HandleOwned, TokenExact, LateBound, OutcomeJustified,
         RepliesJustified, Serving, IsActive, NoActive, NoReply, Reply
<1>2. TypeInv /\ CancelInv /\ [Next]_vars => CancelInv'
  <2> SUFFICES ASSUME TypeInv, CancelInv, [Next]_vars PROVE CancelInv'
    OBVIOUS
  <2>t. TypeOK
    BY DEF TypeInv
  <2>1. CASE ReadCancel \/ ReadStop \/ ReadCall \/ ReadPlain
    BY <2>t, <2>1, ReadTakesLine, ReadKeepsCancelInv
  <2>2. CASE Worker
    BY <2>2, WorkerKeepsCancelInv
  <2>3. CASE \/ ReaderWrite \/ ReadEof \/ ReadError \/ Join \/ Exit \/ CloseOutput
             \/ UNCHANGED vars
    BY <2>t, <2>3, OtherKeepsCancelInv
  <2> QED BY <2>1, <2>2, <2>3 DEF Next, Reader, Terminated
<1> QED BY <1>1, <1>2, TypeInvariant, PTL DEF Spec

(* The handle holds a token exactly while a command runs, its own.         *)
THEOREM SlotMatchesWorker == Spec => []HandleOwned
<1>1. CancelInv => HandleOwned
  BY DEF CancelInv
<1> QED BY <1>1, CancelInvariant, PTL

(* A running command's token is set exactly when a line aimed at it has    *)
(* been taken since its begin: none is lost, none is misdirected.          *)
THEOREM NoCancellationLost == Spec => []TokenExact
<1>1. CancelInv => TokenExact
  BY DEF CancelInv
<1> QED BY <1>1, CancelInvariant, PTL

(* The handle holds the running command's token, set exactly by the lines  *)
(* aimed at it.                                                            *)
THEOREM HandleIsExact == Spec => []HandleExact
  BY SlotMatchesWorker, NoCancellationLost, PTL DEF HandleExact

(* A `cancelled' response is always justified by a line the reader took    *)
(* while that very call was running: no cancellation reaches another call. *)
THEOREM CancellationScoped == Spec => []CancelScoped
<1>1. CancelInv => CancelScoped
  BY DEF CancelInv, RepliesJustified, CancelScoped
<1> QED BY <1>1, CancelInvariant, PTL

(* After such a line a command finishes the primitive it is in, at most,   *)
(* and starts no other.                                                    *)
THEOREM CancellationPrompt == Spec => []CancelPrompt
<1>1. CancelInv => CancelPrompt
  BY DEF CancelInv, LateBound, CancelPrompt
<1> QED BY <1>1, CancelInvariant, PTL

-----------------------------------------------------------------------------
(* Responses.  A line that waits for its response (in the channel, with    *)
(* the worker, or in the reader's hands) has none yet and is in one place  *)
(* only; the worker's lines stay in input order.                           *)
Unanswered(n) == \A k \in DOMAIN replies : replies[k].line # n

QueueSorted ==
  /\ \A i, j \in DOMAIN queue : i < j => queue[i] < queue[j]
  /\ Held => \A i \in DOMAIN queue : wcall < queue[i]

NoneYet ==
  /\ \A i \in DOMAIN queue : Unanswered(queue[i])
  /\ Held => Unanswered(wcall)
  /\ rreply.kind \notin Outcomes
  /\ rpc = "write" =>
       /\ rreply.line \in Positions
       /\ Unanswered(rreply.line)
       /\ Held => wcall # rreply.line
       /\ \A i \in DOMAIN queue : queue[i] # rreply.line

AnsweredBehind ==
  \A k \in DOMAIN replies :
    /\ replies[k].line \in Positions
    /\ replies[k].kind \in Outcomes =>
         /\ \A i \in DOMAIN queue : replies[k].line < queue[i]
         /\ Held => replies[k].line < wcall

OrderInv == QueueSorted /\ NoneYet /\ AnsweredBehind /\ OneReplyPerLine /\ InOrder

LEMMA ReadKeepsOrder ==
  ASSUME TypeOK, OrderInv, ReadCancel \/ ReadStop \/ ReadCall \/ ReadPlain
  PROVE  OrderInv'
<1> USE DEF OrderInv, QueueSorted, NoneYet, AnsweredBehind, Unanswered, Held
<1>1. PICK line \in Lines :
        /\ Read(line)
        /\ UNCHANGED <<wpc, wcall, replies>>
        /\ \/ /\ queue' = Append(queue, Position)
              /\ UNCHANGED <<rpc, rreply>>
           \/ /\ UNCHANGED <<queue, rreply>>
              /\ rpc' # "write"
           \/ /\ UNCHANGED queue
              /\ \E kind \in {"busy", "plain", "stopped", "idle"} : ReaderAnswers(kind)
  BY DEF ReadCancel, ReadStop, ReadCall, ReadPlain, readerVars, workVars, Read
<1>2. /\ Len(log') = Len(log) + 1
      /\ Len(log) \in Nat
      /\ rpc = "read"
      /\ Position = Len(log) + 1
  BY <1>1, ReadFacts DEF TypeOK, Read, Position
<1>3. /\ \A n \in Positions : n < Position /\ n \in Positions'
      /\ Position \in Positions'
  BY <1>2 DEF Positions
<1>4. /\ \A k \in DOMAIN replies : replies[k].line \in Positions
      /\ \A i \in DOMAIN queue : queue[i] \in Positions
      /\ Held => wcall \in Positions
  BY DEF TypeOK
<1>5. CASE queue' = Append(queue, Position) /\ UNCHANGED <<rpc, rreply>>
  <2>1. /\ queue \in Seq(Nat) /\ Position \in Nat
        /\ Len(queue) \in Nat
    BY <1>2 DEF TypeOK
  <2>2. /\ DOMAIN queue' = 1 .. Len(queue) + 1
        /\ DOMAIN queue = 1 .. Len(queue)
        /\ \A i \in 1 .. Len(queue) : queue'[i] = queue[i]
        /\ queue'[Len(queue) + 1] = Position
    BY <1>5, <2>1, AppendKeeps
  <2>3. \A i \in DOMAIN queue' :
          \/ i \in DOMAIN queue /\ queue'[i] = queue[i]
          \/ i = Len(queue) + 1 /\ queue'[i] = Position
    BY <2>1, <2>2
  <2>4. QueueSorted'
    <3>1. ASSUME NEW i \in DOMAIN queue', NEW j \in DOMAIN queue', i < j
          PROVE  queue'[i] < queue'[j]
      <4>1. i \in DOMAIN queue /\ queue'[i] = queue[i]
        BY <2>1, <2>2, <3>1
      <4> QED BY <1>3, <1>4, <2>3, <3>1, <4>1
    <3>2. ASSUME Held, NEW i \in DOMAIN queue' PROVE wcall < queue'[i]
      BY <1>3, <1>4, <2>3, <3>2
    <3> QED BY <1>1, <3>1, <3>2
  <2>5. NoneYet'
    <3>1. ASSUME NEW i \in DOMAIN queue', NEW k \in DOMAIN replies
          PROVE  replies[k].line # queue'[i]
      <4>1. replies[k].line < Position /\ replies[k].line \in Nat
        BY <1>3, <1>4 DEF Positions
      <4> QED BY <2>1, <2>3, <4>1
    <3> QED BY <1>1, <1>2, <1>5, <3>1
  <2>6. AnsweredBehind'
    BY <1>1, <1>3, <1>4, <2>3
  <2> QED BY <1>1, <2>4, <2>5, <2>6 DEF OneReplyPerLine, InOrder
<1>6. CASE UNCHANGED <<queue, rreply>> /\ rpc' # "write"
  BY <1>1, <1>3, <1>6 DEF OneReplyPerLine, InOrder
<1>7. CASE /\ UNCHANGED queue
           /\ \E kind \in {"busy", "plain", "stopped", "idle"} : ReaderAnswers(kind)
  <2>1. rreply'.line = Position /\ rreply'.kind \notin Outcomes
    BY <1>7 DEF ReaderAnswers, Reply, Outcomes
  <2>2. \A n \in Positions : n # Position
    BY <1>2 DEF Positions
  <2>3. NoneYet'
    BY <1>1, <1>3, <1>4, <1>7, <2>1, <2>2
  <2> QED BY <1>1, <1>3, <1>7, <2>3 DEF OneReplyPerLine, InOrder
<1> QED BY <1>1, <1>5, <1>6, <1>7

(* Writing the response of a line that had none, and waits nowhere else.   *)
LEMMA WriteKeepsOrder ==
  ASSUME TypeOK, OrderInv, NEW r \in RepliesType,
         replies' = Append(replies, r),
         UNCHANGED <<log, queue>>,
         r.line \in Positions, Unanswered(r.line),
         rreply'.kind \notin Outcomes,
         \A i \in DOMAIN queue : queue[i] # r.line,
         \/ /\ r.kind \notin Outcomes /\ rpc' # "write"
            /\ UNCHANGED <<wpc, wcall>> /\ (Held => wcall # r.line)
         \/ /\ r.kind \in Outcomes /\ Held /\ r.line = wcall /\ ~Held'
            /\ UNCHANGED <<rpc, rreply>>
  PROVE  OrderInv'
<1> USE DEF OrderInv, QueueSorted, NoneYet, AnsweredBehind, Unanswered
<1>1. /\ DOMAIN replies' = 1 .. Len(replies) + 1
      /\ DOMAIN replies = 1 .. Len(replies)
      /\ Len(replies) \in Nat
      /\ \A k \in 1 .. Len(replies) : replies'[k] = replies[k]
      /\ replies'[Len(replies) + 1] = r
  BY WriteFacts
<1>2. \A k \in DOMAIN replies' :
        \/ k \in DOMAIN replies /\ replies'[k] = replies[k]
        \/ k = Len(replies) + 1 /\ replies'[k] = r
  BY <1>1
<1>3. QueueSorted'
  BY DEF Held
<1>4. NoneYet'
  BY <1>2 DEF Held, Positions
<1>5. AnsweredBehind'
  BY <1>2 DEF Held, Positions
<1>6. OneReplyPerLine'
  <2>1. ASSUME NEW i \in DOMAIN replies', NEW j \in DOMAIN replies',
               replies'[i].line = replies'[j].line
        PROVE  i = j
    BY <1>2, <2>1 DEF OneReplyPerLine
  <2> QED BY <2>1 DEF OneReplyPerLine
<1>7. InOrder'
  <2>1. ASSUME NEW i \in DOMAIN replies', NEW j \in DOMAIN replies',
               i < j, replies'[i].kind \in Outcomes, replies'[j].kind \in Outcomes
        PROVE  replies'[i].line < replies'[j].line
    <3>1. i \in DOMAIN replies /\ replies'[i] = replies[i]
      BY <1>1, <2>1
    <3> QED BY <1>2, <2>1, <3>1 DEF InOrder
  <2> QED BY <2>1 DEF InOrder
<1> QED BY <1>3, <1>4, <1>5, <1>6, <1>7

LEMMA WorkerKeepsOrder ==
  ASSUME TypeInv, OrderInv, Worker
  PROVE  OrderInv'
<1> USE DEF OrderInv, QueueSorted, NoneYet, AnsweredBehind, Unanswered
<1>t. TypeOK
  BY DEF TypeInv
<1>1. CASE Receive
  <2>1. /\ Len(queue') = Len(queue) - 1
        /\ \A k \in 1 .. Len(queue) - 1 : queue'[k] = queue[k + 1]
        /\ wcall' = queue[1] /\ Len(queue) >= 1
        /\ queue' \in Seq(Nat) /\ queue \in Seq(Nat)
    BY <1>1, <1>t, TailShifts DEF Receive, TypeOK
  <2>2. /\ DOMAIN queue' = 1 .. Len(queue) - 1
        /\ DOMAIN queue = 1 .. Len(queue)
        /\ Len(queue) \in Nat
    BY <2>1
  <2>3. \A i \in DOMAIN queue' : /\ i + 1 \in DOMAIN queue
                                 /\ queue'[i] = queue[i + 1]
                                 /\ 1 < i + 1
    BY <2>1, <2>2
  <2>4. 1 \in DOMAIN queue
    BY <2>1, <2>2
  <2>5. /\ UNCHANGED <<log, replies, rpc, rreply>>
        /\ wpc = "recv" /\ wpc' = "accepted"
    BY <1>1 DEF Receive, readerVars
  <2>6. QueueSorted'
    <3>1. ASSUME NEW i \in DOMAIN queue', NEW j \in DOMAIN queue', i < j
          PROVE  queue'[i] < queue'[j]
      <4>1. i + 1 < j + 1
        BY <2>2, <3>1
      <4> QED BY <2>3, <4>1
    <3>2. \A i \in DOMAIN queue' : wcall' < queue'[i]
      BY <2>1, <2>3, <2>4
    <3> QED BY <3>1, <3>2
  <2>7. NoneYet'
    BY <2>1, <2>3, <2>4, <2>5 DEF Held, Positions
  <2>8. AnsweredBehind'
    BY <2>1, <2>3, <2>4, <2>5 DEF Held, Positions
  <2> QED BY <2>5, <2>6, <2>7, <2>8 DEF OneReplyPerLine, InOrder
<1>2. CASE WorkerEnds \/ Ignore \/ Refuse
  BY <1>2 DEF WorkerEnds, Ignore, Refuse, Held, Positions, readerVars, workVars,
              OneReplyPerLine, InOrder
<1>3. CASE Begin \/ Probe \/ Step \/ WorkBlind \/ Finish
  <2>1. /\ Held /\ Held'
        /\ UNCHANGED <<log, replies, rpc, rreply, queue, wcall>>
    BY <1>3 DEF Begin, Probe, Step, WorkBlind, Finish, Settle, Held, readerVars, workVars
  <2> QED BY <2>1 DEF Positions, OneReplyPerLine, InOrder
<1>4. CASE WorkerWrite
  <2>1. /\ wpc = "reply" /\ wpc' \in {"recv", "dead"} /\ Held
        /\ UNCHANGED <<log, rpc, rreply, queue, wcall>>
    BY <1>4 DEF WorkerWrite, readerVars, workVars, Held
  <2>2. CASE UNCHANGED replies
    BY <2>1, <2>2 DEF Positions, OneReplyPerLine, InOrder, Held
  <2>3. CASE /\ replies' = Append(replies, Reply(wcall, woutcome, wtoken, wfrom, wto))
             /\ wpc' = "recv"
    <3> DEFINE r == Reply(wcall, woutcome, wtoken, wfrom, wto)
    <3>1. r \in RepliesType /\ r.line = wcall /\ r.kind = woutcome
      BY <1>4, WorkerReplyType DEF Reply
    <3>2. woutcome \in Outcomes
      BY <1>t DEF TypeOK
    <3>3. wcall \in Positions /\ Unanswered(wcall)
      BY <2>1, <1>t DEF TypeOK
    <3>4. \A i \in DOMAIN queue : queue[i] # wcall
      BY <2>1, <1>t DEF TypeOK
    <3>5. ~Held'
      BY <2>3 DEF Held
    <3> QED BY <1>t, <2>1, <2>3, <3>1, <3>2, <3>3, <3>4, <3>5, WriteKeepsOrder
  <2> QED BY <1>4, <2>2, <2>3 DEF WorkerWrite
<1> QED BY <1>1, <1>2, <1>3, <1>4 DEF Worker

LEMMA OtherKeepsOrder ==
  ASSUME TypeOK, OrderInv,
         \/ ReaderWrite \/ ReadEof \/ ReadError \/ Join \/ Exit \/ CloseOutput
         \/ UNCHANGED vars
  PROVE  OrderInv'
<1> USE DEF OrderInv, QueueSorted, NoneYet, AnsweredBehind, Unanswered
<1>1. CASE ReaderWrite
  <2>1. /\ rpc = "write" /\ rpc' # "write"
        /\ UNCHANGED <<log, queue, wpc, wcall>>
        /\ rreply'.kind \notin Outcomes
        /\ UNCHANGED replies \/ replies' = Append(replies, rreply)
    BY <1>1 DEF ReaderWrite, NoReply, Reply, Outcomes, workVars
  <2>2. CASE UNCHANGED replies
    BY <2>1, <2>2 DEF Positions, OneReplyPerLine, InOrder, Held
  <2>3. CASE replies' = Append(replies, rreply)
    BY <2>1, <2>3, WriteKeepsOrder DEF TypeOK
  <2> QED BY <2>1, <2>2, <2>3
<1>2. CASE ReadEof \/ ReadError \/ Join \/ Exit \/ CloseOutput
  BY <1>2 DEF ReadEof, ReadError, Join, Exit, CloseOutput, Held, Positions,
              readerVars, workVars, OneReplyPerLine, InOrder
<1>3. CASE UNCHANGED vars
  BY <1>3 DEF vars, readerVars, workVars, Held, Positions, OneReplyPerLine, InOrder
<1> QED BY <1>1, <1>2, <1>3

LEMMA OrderInvariant == Spec => []OrderInv
<1>1. Init => OrderInv
  BY DEF Init, OrderInv, QueueSorted, NoneYet, AnsweredBehind, OneReplyPerLine,
         InOrder, Held, NoReply, Reply, Outcomes
<1>2. TypeInv /\ OrderInv /\ [Next]_vars => OrderInv'
  <2> SUFFICES ASSUME TypeInv, OrderInv, [Next]_vars PROVE OrderInv'
    OBVIOUS
  <2>t. TypeOK
    BY DEF TypeInv
  <2>1. CASE ReadCancel \/ ReadStop \/ ReadCall \/ ReadPlain
    BY <2>t, <2>1, ReadKeepsOrder
  <2>2. CASE Worker
    BY <2>2, WorkerKeepsOrder
  <2>3. CASE \/ ReaderWrite \/ ReadEof \/ ReadError \/ Join \/ Exit \/ CloseOutput
             \/ UNCHANGED vars
    BY <2>t, <2>3, OtherKeepsOrder
  <2> QED BY <2>1, <2>2, <2>3 DEF Next, Reader, Terminated
<1> QED BY <1>1, <1>2, TypeInvariant, PTL DEF Spec

(* No line of input is ever answered twice, by the reader, by the worker,  *)
(* or by one after the other.                                              *)
THEOREM SingleResponse == Spec => []OneReplyPerLine
<1>1. OrderInv => OneReplyPerLine
  BY DEF OrderInv
<1> QED BY <1>1, OrderInvariant, PTL

(* The worker's responses leave in the order the calls came in.            *)
THEOREM ResponsesInOrder == Spec => []InOrder
<1>1. OrderInv => InOrder
  BY DEF OrderInv
<1> QED BY <1>1, OrderInvariant, PTL

(* Each line one response, and calls in their order.                       *)
THEOREM AnswersInOrder == Spec => []AnsweredInOrder
  BY SingleResponse, ResponsesInOrder, PTL DEF AnsweredInOrder

-----------------------------------------------------------------------------
(* The service implements CallLifecycle.  A call that was read is in the   *)
(* channel, with the worker, in the reader's hands to be rejected, or it   *)
(* has its response, or it was ignored: never in two of these.             *)
HeldApart ==
  rreply.line # 0 =>
    /\ rreply.line \in Positions
    /\ Unanswered(rreply.line)
    /\ Held => wcall # rreply.line
    /\ \A i \in DOMAIN queue : queue[i] # rreply.line
    /\ log[rreply.line].kind = "call" <=> rreply.kind = "busy"

CallReplies ==
  \A k \in DOMAIN replies :
    log[replies[k].line].kind = "call" => replies[k].kind \in Outcomes \cup {"busy"}

LifeInv ==
  /\ Len(log) <= MaxLines
  /\ rpc = "read" => rreply.line = 0
  /\ rpc = "write" => rreply.line # 0
  /\ HeldApart
  /\ CallReplies

LEMMA ReadKeepsLifeInv ==
  ASSUME TypeOK, OrderInv, LifeInv, ReadCancel \/ ReadStop \/ ReadCall \/ ReadPlain
  PROVE  LifeInv'
<1>1. PICK line \in Lines :
        /\ Read(line)
        /\ UNCHANGED <<wpc, wcall, replies>>
        /\ \/ queue' = Append(queue, Position) /\ UNCHANGED <<rpc, rreply>>
           \/ UNCHANGED <<queue, rreply>> /\ rpc' \in {"read", "closed"}
           \/ /\ UNCHANGED queue
              /\ \/ line.kind = "call" /\ ReaderAnswers("busy")
                 \/ line.kind # "call" /\ \E kind \in {"plain", "stopped", "idle"} :
                                             ReaderAnswers(kind)
  BY DEF ReadCancel, ReadStop, ReadCall, ReadPlain, readerVars, workVars, Read
<1>2. /\ Len(log) \in Nat /\ Len(log) < MaxLines /\ rpc = "read" /\ rreply.line = 0
      /\ Len(log') = Len(log) + 1 /\ log'[Len(log) + 1] = line
      /\ \A k \in 1 .. Len(log) : log'[k] = log[k]
      /\ Position = Len(log) + 1
  BY <1>1, ReadFacts DEF TypeOK, Read, Position, LifeInv
<1>3. /\ \A n \in Positions : n \in Positions' /\ log'[n] = log[n] /\ n # Position
      /\ Position \in Positions'
  BY <1>2 DEF Positions
<1>4. Len(log') <= MaxLines /\ MaxLines \in Nat
  BY <1>2, ServerAssumption
<1>5. CallReplies'
  BY <1>1, <1>3 DEF CallReplies, LifeInv, OrderInv, AnsweredBehind
<1>6. CASE rreply' = rreply
  <2>1. /\ rpc' \in {"read", "closed"} /\ rreply'.line = 0
    BY <1>1, <1>2, <1>6 DEF ReaderAnswers, Reply
  <2> QED BY <1>2, <1>4, <1>5, <2>1 DEF LifeInv, HeldApart
<1>7. CASE /\ UNCHANGED queue
           /\ \/ line.kind = "call" /\ ReaderAnswers("busy")
              \/ line.kind # "call" /\ \E kind \in {"plain", "stopped", "idle"} :
                                          ReaderAnswers(kind)
  <2>1. /\ rreply'.line = Position /\ rpc' = "write"
        /\ log'[Position].kind = "call" <=> rreply'.kind = "busy"
    BY <1>2, <1>7 DEF ReaderAnswers, Reply
  <2>2. /\ \A k \in DOMAIN replies : replies[k].line \in Positions
        /\ \A i \in DOMAIN queue : queue[i] \in Positions
        /\ Held => wcall \in Positions
    BY DEF OrderInv, AnsweredBehind, TypeOK, Held
  <2>3. HeldApart'
    BY <1>1, <1>3, <1>7, <2>1, <2>2 DEF HeldApart, Unanswered, Held
  <2> QED BY <1>2, <1>4, <1>5, <2>1, <2>3 DEF LifeInv
<1> QED BY <1>1, <1>6, <1>7

(* Writing the response of a line, whoever writes it.                      *)
LEMMA WriteKeepsLifeInv ==
  ASSUME TypeOK, OrderInv, LifeInv, NEW r \in RepliesType,
         replies' = Append(replies, r),
         UNCHANGED <<log, queue, wcall>>, Held' => Held,
         r.line \in Positions,
         log[r.line].kind = "call" => r.kind \in Outcomes \cup {"busy"},
         \/ rpc' = "read" /\ rreply'.line = 0
         \/ UNCHANGED <<rpc, rreply>> /\ rreply.line # r.line
  PROVE  LifeInv'
<1>1. /\ DOMAIN replies' = 1 .. Len(replies) + 1
      /\ DOMAIN replies = 1 .. Len(replies)
      /\ Len(replies) \in Nat
      /\ \A k \in 1 .. Len(replies) : replies'[k] = replies[k]
      /\ replies'[Len(replies) + 1] = r
  BY WriteFacts
<1>2. \A k \in DOMAIN replies' :
        \/ k \in DOMAIN replies /\ replies'[k] = replies[k]
        \/ k = Len(replies) + 1 /\ replies'[k] = r
  BY <1>1
<1>3. CallReplies'
  BY <1>2 DEF CallReplies, LifeInv
<1>4. HeldApart'
  BY <1>2 DEF HeldApart, LifeInv, Unanswered, Positions
<1> QED BY <1>3, <1>4 DEF LifeInv

LEMMA WorkerKeepsLifeInv ==
  ASSUME TypeInv, OrderInv, LifeInv, Worker
  PROVE  LifeInv'
<1>t. TypeOK
  BY DEF TypeInv
<1>1. CASE Receive
  <2>1. /\ Len(queue') = Len(queue) - 1
        /\ \A k \in 1 .. Len(queue) - 1 : queue'[k] = queue[k + 1]
        /\ wcall' = queue[1] /\ Len(queue) >= 1
        /\ queue' \in Seq(Nat) /\ queue \in Seq(Nat)
    BY <1>1, <1>t, TailShifts DEF Receive, TypeOK
  <2>2. /\ \A i \in DOMAIN queue' : i + 1 \in DOMAIN queue /\ queue'[i] = queue[i + 1]
        /\ 1 \in DOMAIN queue
    BY <2>1
  <2>3. UNCHANGED <<log, replies, rpc, rreply>>
    BY <1>1 DEF Receive, readerVars
  <2> QED BY <2>1, <2>2, <2>3
          DEF LifeInv, HeldApart, CallReplies, Unanswered, Positions
<1>2. CASE WorkerWrite /\ piped
  <2> DEFINE r == Reply(wcall, woutcome, wtoken, wfrom, wto)
  <2>1. /\ replies' = Append(replies, r)
        /\ Held /\ ~Held'
        /\ UNCHANGED <<log, rpc, rreply, queue, wcall>>
    BY <1>2 DEF WorkerWrite, readerVars, workVars, Held
  <2>2. r \in RepliesType /\ r.line = wcall /\ r.kind = woutcome
    BY <1>2, WorkerReplyType DEF Reply
  <2>3. /\ woutcome \in Outcomes /\ wcall \in Positions
        /\ rreply.line # wcall
    <3>1. wcall # 0
      BY <1>t, <2>1 DEF TypeOK, Held, Positions
    <3> QED BY <1>t, <2>1, <3>1 DEF TypeOK, Held, LifeInv, HeldApart
  <2> QED BY <1>t, <2>1, <2>2, <2>3, WriteKeepsLifeInv
<1>3. CASE \/ WorkerEnds \/ Ignore \/ Refuse \/ Begin \/ Probe \/ Step
           \/ WorkBlind \/ Finish
           \/ WorkerWrite /\ ~piped
  <2>1. /\ UNCHANGED <<log, rpc, rreply, queue, wcall, replies>>
        /\ Held' => Held
    BY <1>3 DEF WorkerEnds, Ignore, Refuse, Begin, Probe, Step, WorkBlind, Finish,
                WorkerWrite, Settle,
                Held, readerVars, workVars
  <2> QED BY <2>1 DEF LifeInv, HeldApart, CallReplies, Unanswered, Positions
<1> QED BY <1>1, <1>2, <1>3 DEF Worker

LEMMA OtherKeepsLifeInv ==
  ASSUME TypeOK, OrderInv, LifeInv,
         \/ ReaderWrite \/ ReadEof \/ ReadError \/ Join \/ Exit \/ CloseOutput
         \/ UNCHANGED vars
  PROVE  LifeInv'
<1>1. CASE ReaderWrite /\ piped
  <2>1. /\ replies' = Append(replies, rreply)
        /\ UNCHANGED <<log, queue, wcall, wpc>>
        /\ rpc = "write" /\ rpc' = "read" /\ rreply'.line = 0
    BY <1>1 DEF ReaderWrite, NoReply, Reply, workVars
  <2>2. /\ rreply \in RepliesType /\ rreply.line \in Positions
        /\ log[rreply.line].kind = "call" => rreply.kind \in Outcomes \cup {"busy"}
    BY <2>1 DEF LifeInv, HeldApart, TypeOK
  <2> QED BY <2>1, <2>2, WriteKeepsLifeInv DEF Held
<1>2. CASE ReaderWrite /\ ~piped
  BY <1>2 DEF ReaderWrite, workVars, LifeInv, HeldApart, CallReplies, Unanswered, Positions, Held
<1>3. CASE ReadEof \/ ReadError \/ Join \/ Exit \/ CloseOutput
  BY <1>3 DEF ReadEof, ReadError, Join, Exit, CloseOutput, Held, Positions,
              readerVars, workVars, LifeInv, HeldApart, CallReplies, Unanswered
<1>4. CASE UNCHANGED vars
  BY <1>4 DEF vars, readerVars, workVars, Held, Positions, LifeInv, HeldApart, CallReplies,
              Unanswered
<1> QED BY <1>1, <1>2, <1>3, <1>4

LEMMA LifeInvariant == Spec => []LifeInv
<1>1. Init => LifeInv
  BY ServerAssumption DEF Init, LifeInv, HeldApart, CallReplies, NoReply, Reply
<1>2. TypeInv /\ OrderInv /\ LifeInv /\ [Next]_vars => LifeInv'
  <2> SUFFICES ASSUME TypeInv, OrderInv, LifeInv, [Next]_vars PROVE LifeInv'
    OBVIOUS
  <2>t. TypeOK
    BY DEF TypeInv
  <2> QED BY <2>t, ReadKeepsLifeInv, WorkerKeepsLifeInv, OtherKeepsLifeInv
          DEF Next, Reader, Terminated
<1> QED BY <1>1, <1>2, TypeInvariant, OrderInvariant, PTL DEF Spec


(* What the stage of each line is.                                         *)
StageFacts ==
  \A n \in 1 .. MaxLines :
    /\ n \in Positions <=> n <= Len(log)
    /\ n \notin Positions => Stage(n) = "unread"
    /\ n \in Positions /\ log[n].kind # "call" => Stage(n) = "protocol"
    /\ n \in Positions /\ log[n].kind = "call" =>
         /\ InChannel(n) => Stage(n) = "waiting"
         /\ Held /\ n = wcall => Stage(n) = HeldStage
         /\ rreply.line = n => Stage(n) = "rejected"
         /\ \A k \in DOMAIN replies :
              replies[k].line = n => Stage(n) = AnswerStage(replies[k].kind)
         /\ ~InChannel(n) /\ ~(Held /\ n = wcall) /\ rreply.line # n /\ ~Answered(n)
              => Stage(n) = "ignored"

LifeTypeInv == TypeInv /\ OrderInv /\ LifeInv

LEMMA StagesKnown == LifeTypeInv => StageFacts
<1> SUFFICES ASSUME LifeTypeInv, NEW n \in 1 .. MaxLines
             PROVE  StageFacts!(n)
  BY DEF StageFacts
<1>1. /\ Len(log) \in Nat /\ n \in Nat /\ Positions = 1 .. Len(log)
      /\ n \in Positions <=> n <= Len(log)
      /\ n > Len(log) <=> n \notin Positions
  BY ServerAssumption DEF LifeTypeInv, TypeInv, TypeOK, Positions
<1>2. /\ InChannel(n) => ~(Held /\ n = wcall) /\ rreply.line # n /\ ~Answered(n)
      /\ Held /\ n = wcall => rreply.line # n /\ ~Answered(n)
      /\ rreply.line = n => ~Answered(n)
  <2>1. InChannel(n) => ~(Held /\ n = wcall)
    <3>1. ASSUME Held, NEW i \in DOMAIN queue, queue[i] = n PROVE n # wcall
      <4>1. wcall < queue[i] /\ wcall \in Nat /\ queue[i] \in Nat
        BY <3>1 DEF LifeTypeInv, OrderInv, QueueSorted, TypeInv, TypeOK
      <4> QED BY <3>1, <4>1
    <3> QED BY <3>1 DEF InChannel
  <2>2. n # 0
    BY <1>1
  <2> QED BY <2>1, <2>2
          DEF LifeTypeInv, OrderInv, NoneYet, Unanswered, LifeInv, HeldApart, InChannel, Answered
<1>3. ASSUME n \in Positions, log[n].kind = "call" PROVE Stage(n) = CallStage(n)
  BY <1>1, <1>3 DEF Stage
<1>4. Holding(n) <=> Held /\ n = wcall
  BY DEF Holding, Held
<1>5. ASSUME NEW k \in DOMAIN replies, replies[k].line = n
      PROVE  Answered(n) /\ AnswerOf(n) = k
  BY <1>5 DEF Answered, AnswerOf, LifeTypeInv, OrderInv, OneReplyPerLine
<1>6. /\ InChannel(n) => CallStage(n) = "waiting"
      /\ Held /\ n = wcall => CallStage(n) = HeldStage
      /\ rreply.line = n => CallStage(n) = "rejected"
      /\ Answered(n) => CallStage(n) = AnswerStage(replies[AnswerOf(n)].kind)
      /\ ~InChannel(n) /\ ~(Held /\ n = wcall) /\ rreply.line # n /\ ~Answered(n)
           => CallStage(n) = "ignored"
  BY <1>2, <1>4 DEF CallStage
<1>7. /\ n \notin Positions => Stage(n) = "unread"
      /\ n \in Positions /\ log[n].kind # "call" => Stage(n) = "protocol"
  BY <1>1 DEF Stage
<1> QED BY <1>1, <1>3, <1>5, <1>6, <1>7

LEMMA StagesKnownNext == LifeTypeInv' => StageFacts'
BY StagesKnown, PTL


LEMMA LineIsRead == LifeTypeInv => \A n \in Positions : n \in 1 .. MaxLines
BY ServerAssumption DEF LifeTypeInv, TypeInv, TypeOK, LifeInv, Positions

(* A line that a step leaves where it is.                                  *)
LEMMA LineStays ==
  ASSUME LifeTypeInv, LifeTypeInv', NEW k \in 1 .. MaxLines,
         k \in Positions' <=> k \in Positions,
         k \in Positions => log'[k] = log[k],
         InChannel(k)' <=> InChannel(k),
         (Held' /\ k = wcall') <=> (Held /\ k = wcall),
         Held /\ k = wcall => HeldStage' = HeldStage,
         rreply'.line = k <=> rreply.line = k,
         UNCHANGED replies
  PROVE  Stage(k)' = Stage(k)
<1>1. StageFacts!(k) /\ StageFacts!(k)'
  BY StagesKnown, StagesKnownNext DEF StageFacts
<1>2. Answered(k)' <=> Answered(k)
  BY DEF Answered
<1>3. CASE k \in Positions /\ log[k].kind = "call" /\ Answered(k)
  <2>1. PICK i \in DOMAIN replies : replies[i].line = k
    BY <1>3 DEF Answered
  <2> QED BY <1>1, <1>3, <2>1
<1> QED BY <1>1, <1>2, <1>3

(* The stages when a step moves no line, or one.                           *)
LEMMA MovesNone ==
  ASSUME \A k \in 1 .. MaxLines : Stage(k)' = Stage(k), UNCHANGED replies
  PROVE  UNCHANGED Lifecycle!vars
BY DEF Lifecycle!vars, Answered

LEMMA MovesOne ==
  ASSUME NEW n \in 1 .. MaxLines, NEW s, Stage(n)' = s,
         \A k \in 1 .. MaxLines : k # n => Stage(k)' = Stage(k),
         UNCHANGED replies
  PROVE  Lifecycle!Move(n, s)
BY DEF Lifecycle!Move, Answered

(* Steps that leave the channel, the reader's hands and the output alone:  *)
(* only the worker's line can move.                                        *)
LEMMA OthersStay ==
  ASSUME LifeTypeInv, LifeTypeInv',
         UNCHANGED <<log, rreply, queue, wcall, replies>>
  PROVE  /\ \A k \in 1 .. MaxLines : k # wcall => Stage(k)' = Stage(k)
         /\ Held' = Held /\ (Held => HeldStage' = HeldStage) =>
              UNCHANGED Lifecycle!vars
<1>1. ASSUME NEW k \in 1 .. MaxLines, k # wcall PROVE Stage(k)' = Stage(k)
  BY <1>1, LineStays DEF Positions, InChannel
<1>2. ASSUME Held' = Held, Held => HeldStage' = HeldStage, NEW k \in 1 .. MaxLines
      PROVE  Stage(k)' = Stage(k)
  BY <1>2, LineStays DEF Positions, InChannel
<1> QED BY <1>1, <1>2, MovesNone

LEMMA QuietImplements ==
  ASSUME LifeTypeInv, LifeTypeInv',
         \/ ReadEof \/ ReadError \/ Join \/ Exit \/ CloseOutput \/ WorkerEnds \/ Finish
         \/ ReaderWrite /\ ~piped
         \/ WorkerWrite /\ ~piped
         \/ UNCHANGED vars
  PROVE  UNCHANGED Lifecycle!vars
<1>1. UNCHANGED <<log, rreply, queue, wcall, replies>>
  BY DEF ReadEof, ReadError, Join, Exit, CloseOutput, WorkerEnds, Finish, ReaderWrite,
         WorkerWrite, vars, readerVars, workVars
<1>2. Held' = Held /\ (Held => HeldStage' = HeldStage)
  BY DEF ReadEof, ReadError, Join, Exit, CloseOutput, WorkerEnds, Finish, ReaderWrite,
         WorkerWrite, vars, readerVars, workVars, handleVars, Held, HeldStage
<1> QED BY <1>1, <1>2, OthersStay

(* A call that the worker receives goes on waiting.                        *)
LEMMA ReceiveImplements ==
  ASSUME LifeTypeInv, LifeTypeInv', Receive
  PROVE  UNCHANGED Lifecycle!vars
<1>1. /\ Len(queue') = Len(queue) - 1
      /\ \A k \in 1 .. Len(queue) - 1 : queue'[k] = queue[k + 1]
      /\ wcall' = queue[1] /\ Len(queue) >= 1
      /\ queue' \in Seq(Nat) /\ queue \in Seq(Nat)
  BY TailShifts DEF Receive, LifeTypeInv, TypeInv, TypeOK
<1>2. /\ UNCHANGED <<log, rreply, replies>> /\ ~Held /\ Held' /\ HeldStage' = "waiting"
      /\ Positions' = Positions
  BY DEF Receive, readerVars, Held, HeldStage, Positions
<1>3. ASSUME NEW k \in 1 .. MaxLines PROVE Stage(k)' = Stage(k)
  <2>1. InChannel(k) <=> k = wcall' \/ InChannel(k)'
    <3>0. /\ DOMAIN queue = 1 .. Len(queue) /\ Len(queue) \in Nat
          /\ DOMAIN queue' = 1 .. Len(queue) - 1
      BY <1>1
    <3>1. ASSUME NEW i \in DOMAIN queue, i # 1
          PROVE  \E j \in DOMAIN queue' : queue'[j] = queue[i]
      <4>1. i - 1 \in 1 .. Len(queue) - 1 /\ (i - 1) + 1 = i
        BY <3>0, <3>1
      <4>2. queue'[i - 1] = queue[(i - 1) + 1]
        BY <1>1, <4>1
      <4> QED BY <3>0, <4>1, <4>2
    <3>2. \A i \in DOMAIN queue' : i + 1 \in DOMAIN queue /\ queue'[i] = queue[i + 1]
      BY <1>1, <3>0
    <3>3. 1 \in DOMAIN queue
      BY <1>1
    <3> QED BY <1>1, <3>1, <3>2, <3>3 DEF InChannel
  <2>2. StageFacts!(k) /\ StageFacts!(k)'
    BY StagesKnown, StagesKnownNext DEF StageFacts
  <2>3. CASE InChannel(k)
    BY <1>2, <2>1, <2>2, <2>3
  <2>4. CASE ~InChannel(k)
    BY <1>2, <2>1, <2>4, LineStays
  <2> QED BY <2>3, <2>4
<1> QED BY <1>2, <1>3, MovesNone

(* No line before the worker's waits, and none is underway.                *)
LEMMA FirstInLine ==
  ASSUME LifeTypeInv, wpc = "accepted"
  PROVE  /\ wcall \in 1 .. MaxLines
         /\ Stage(wcall) = "waiting"
         /\ \A m \in 1 .. wcall - 1 : m \in 1 .. MaxLines /\ Stage(m) # "waiting"
         /\ \A m \in 1 .. MaxLines : Stage(m) \notin {"running", "stopping"}
<1>1. /\ wcall \in Positions /\ wcall \in 1 .. MaxLines /\ log[wcall].kind = "call"
      /\ Held /\ HeldStage = "waiting" /\ wcall \in Nat
  BY LineIsRead DEF LifeTypeInv, TypeInv, TypeOK, Held, HeldStage
<1>2. ASSUME NEW m \in 1 .. MaxLines
      PROVE  /\ Stage(m) \notin {"running", "stopping"}
             /\ Stage(m) = "waiting" => wcall <= m
  <2>1. StageFacts!(m)
    BY StagesKnown DEF StageFacts
  <2>2. InChannel(m) => wcall <= m
    BY <1>1 DEF InChannel, LifeTypeInv, OrderInv, QueueSorted, TypeInv, TypeOK
  <2>3. CASE Answered(m) /\ m \in Positions /\ log[m].kind = "call"
    <3>1. PICK i \in DOMAIN replies : replies[i].line = m
      BY <2>3 DEF Answered
    <3>2. replies[i].kind \in Outcomes \cup {"busy"}
      BY <2>3, <3>1 DEF LifeTypeInv, LifeInv, CallReplies
    <3> QED BY <2>1, <2>3, <3>1, <3>2 DEF AnswerStage, Outcomes
  <2> QED BY <1>1, <2>1, <2>2, <2>3
<1>3. StageFacts!(wcall)
  BY <1>1, StagesKnown DEF StageFacts
<1>4. ASSUME NEW m \in 1 .. wcall - 1 PROVE m \in 1 .. MaxLines /\ ~(wcall <= m)
  BY <1>1, ServerAssumption
<1> QED BY <1>1, <1>2, <1>3, <1>4


(* A step that moves the line the worker has to the stage s.               *)
LEMMA HeldMoves ==
  ASSUME LifeTypeInv, LifeTypeInv', Held,
         UNCHANGED <<log, rreply, queue, wcall, replies>>
  PROVE  \E n \in 1 .. MaxLines :
           \E s : n = wcall /\ s = Stage(wcall)' /\ Lifecycle!Move(n, s)
<1>1. PICK n \in 1 .. MaxLines : n = wcall
  BY LineIsRead DEF LifeTypeInv, TypeInv, TypeOK, Held
<1>2. PICK s : s = Stage(wcall)'
  OBVIOUS
<1>3. Stage(n)' = s
  BY <1>1, <1>2
<1>4. \A k \in 1 .. MaxLines : k # n => Stage(k)' = Stage(k)
  BY <1>1, OthersStay
<1> QED BY <1>1, <1>2, <1>3, <1>4, MovesOne

(* The stage of the worker's line is HeldStage.                            *)
LEMMA HeldStageOf ==
  ASSUME LifeTypeInv, Held
  PROVE  Stage(wcall) = HeldStage
<1>1. wcall \in Positions /\ wcall \in 1 .. MaxLines /\ log[wcall].kind = "call"
  BY LineIsRead DEF LifeTypeInv, TypeInv, TypeOK, Held
<1> QED BY <1>1, StagesKnown DEF StageFacts

LEMMA HeldStageOfNext ==
  ASSUME LifeTypeInv', Held', UNCHANGED wcall
  PROVE  Stage(wcall)' = HeldStage'
<1>1. /\ wcall \in Positions' /\ wcall \in 1 .. MaxLines /\ log'[wcall].kind = "call"
  BY ServerAssumption DEF LifeTypeInv, LifeInv, TypeInv, TypeOK, Held, Positions
<1>2. PICK n \in 1 .. MaxLines : n = wcall
  BY <1>1
<1>3. StageFacts!(n)'
  BY StagesKnownNext DEF StageFacts
<1> QED BY <1>1, <1>2, <1>3

(* The worker begins a call, or drops it before that.                      *)
LEMMA AcceptedImplements ==
  ASSUME LifeTypeInv, LifeTypeInv', Ignore \/ Refuse \/ Begin
  PROVE  Lifecycle!Next
<1>1. /\ UNCHANGED <<log, rreply, queue, wcall, replies>>
      /\ wpc = "accepted" /\ Held
  BY DEF Ignore, Refuse, Begin, readerVars, workVars, Held
<1>1a. PICK n \in 1 .. MaxLines : \E s : /\ n = wcall /\ s = Stage(wcall)'
                                         /\ Lifecycle!Move(n, s)
  BY <1>1, HeldMoves
<1>2. PICK s : n = wcall /\ s = Stage(wcall)' /\ Lifecycle!Move(n, s)
  BY <1>1a
<1>3. /\ Stage(n) = "waiting"
      /\ \A m \in 1 .. n - 1 : m \in 1 .. MaxLines /\ Stage(m) # "waiting"
      /\ \A m \in 1 .. MaxLines : Stage(m) \notin {"running", "stopping"}
  BY <1>1, <1>2, FirstInLine
<1>4. CASE Begin
  <2>1. Held' /\ HeldStage' = "running"
    BY <1>4 DEF Begin, Begun, Held, HeldStage
  <2>2. s = "running"
    BY <1>1, <1>2, <2>1, HeldStageOfNext
  <2>3. Lifecycle!Start(n)
    BY <1>2, <1>3, <2>2
    DEF Lifecycle!Start, Lifecycle!First, Lifecycle!Underway, Lifecycle!Line
  <2> QED BY <2>3 DEF Lifecycle!Next, Lifecycle!Line
<1>5. CASE Refuse \/ Ignore
  <2>1. s \in {"ignored", "refused"}
    <3>1. CASE Refuse
      <4>1. Held' /\ HeldStage' = "refused"
        BY <3>1 DEF Refuse, Held, HeldStage
      <4> QED BY <1>1, <1>2, <4>1, HeldStageOfNext
    <3>2. CASE Ignore
      <4>1. ~Held' /\ Positions' = Positions
        BY <3>2 DEF Ignore, Held, Positions
      <4>2. /\ n \in Positions /\ log[n].kind = "call" /\ ~InChannel(n)
            /\ rreply.line # n /\ ~Answered(n)
        <5>1. n \in Positions /\ log[n].kind = "call" /\ wcall \in Nat /\ n # 0
          BY <1>1, <1>2 DEF LifeTypeInv, TypeInv, TypeOK
        <5>2. \A i \in DOMAIN queue : queue[i] # n
          BY <1>1, <1>2 DEF LifeTypeInv, TypeInv, TypeOK, OrderInv, QueueSorted
        <5> QED BY <1>1, <1>2, <5>1, <5>2
                DEF LifeTypeInv, OrderInv, NoneYet, Unanswered, LifeInv, HeldApart, InChannel,
                    Answered
      <4>3. StageFacts!(n)'
        BY StagesKnownNext DEF StageFacts
      <4>4. ~InChannel(n)' /\ ~Answered(n)'
        BY <1>1, <4>2 DEF InChannel, Answered
      <4> QED BY <1>1, <1>2, <4>1, <4>2, <4>3, <4>4
    <3> QED BY <1>5, <3>1, <3>2
  <2>2. Lifecycle!Drop(n)
    BY <1>2, <1>3, <2>1
    DEF Lifecycle!Drop, Lifecycle!First, Lifecycle!Underway, Lifecycle!Line
  <2> QED BY <2>2 DEF Lifecycle!Next, Lifecycle!Line
<1> QED BY <1>4, <1>5

(* The outcome is decided: `cancelled' only when the token was set.        *)
LEMMA DecidingImplements ==
  ASSUME LifeTypeInv, LifeTypeInv', Probe \/ Step \/ WorkBlind
  PROVE  Lifecycle!Next \/ UNCHANGED Lifecycle!vars
<1>1. /\ UNCHANGED <<log, rreply, queue, wcall, replies, active>>
      /\ wpc \in {"probe", "step", "blind"} /\ Held /\ Held'
      /\ wpc' \in {"probe", "step", "finish"}
      /\ wpc' = "finish" => \/ woutcome' = "done"
                            \/ woutcome' = "cancelled" /\ active.cancelled
  BY DEF Probe, Step, WorkBlind, Settle, Held, readerVars, handleVars
<1>2. CASE wpc' # "finish"
  <2>1. HeldStage' = HeldStage
    BY <1>1, <1>2 DEF HeldStage
  <2> QED BY <1>1, <2>1, OthersStay
<1>3. CASE wpc' = "finish"
  <2>1. /\ HeldStage' = woutcome'
        /\ HeldStage = IF active.cancelled THEN "stopping" ELSE "running"
    BY <1>1, <1>3 DEF HeldStage
  <2>1a. PICK n \in 1 .. MaxLines : \E s : /\ n = wcall /\ s = Stage(wcall)'
                                           /\ Lifecycle!Move(n, s)
    BY <1>1, HeldMoves
  <2>2. PICK s : n = wcall /\ s = Stage(wcall)' /\ Lifecycle!Move(n, s)
    BY <2>1a
  <2>3. Stage(n) = HeldStage /\ s = woutcome'
    BY <1>1, <2>1, <2>2, HeldStageOf, HeldStageOfNext
  <2>4. Lifecycle!End(n)
    BY <1>1, <1>3, <2>1, <2>2, <2>3 DEF Lifecycle!End, Lifecycle!Underway
  <2> QED BY <2>4 DEF Lifecycle!Next, Lifecycle!Line
<1> QED BY <1>2, <1>3


(* A response is written: by the worker, or by the reader.                 *)
LEMMA TellsOne ==
  ASSUME LifeTypeInv, LifeTypeInv', NEW r \in RepliesType,
         replies' = Append(replies, r), UNCHANGED log,
         r.line \in Positions, Unanswered(r.line),
         Stage(r.line) \in Outcomes \cup {"protocol", "rejected"},
         Stage(r.line) # "none",
         Stage(r.line) = IF log[r.line].kind = "call" THEN AnswerStage(r.kind) ELSE "protocol",
         \A k \in 1 .. MaxLines : k # r.line =>
           /\ InChannel(k)' <=> InChannel(k)
           /\ (Held' /\ k = wcall') <=> (Held /\ k = wcall)
           /\ Held /\ k = wcall => HeldStage' = HeldStage
           /\ rreply'.line = k <=> rreply.line = k
  PROVE  Lifecycle!Next
<1>1. PICK n \in 1 .. MaxLines : n = r.line
  BY LineIsRead
<1>2. /\ DOMAIN replies' = 1 .. Len(replies) + 1
      /\ DOMAIN replies = 1 .. Len(replies)
      /\ Len(replies) \in Nat
      /\ \A k \in 1 .. Len(replies) : replies'[k] = replies[k]
      /\ replies'[Len(replies) + 1] = r
  BY WriteFacts DEF LifeTypeInv, TypeInv
<1>3. /\ \A k \in DOMAIN replies : k \in DOMAIN replies' /\ replies'[k] = replies[k]
      /\ Len(replies) + 1 \in DOMAIN replies'
      /\ \A k \in DOMAIN replies' : \/ k \in DOMAIN replies
                                    \/ k = Len(replies) + 1
  BY <1>2
<1>4. Positions' = Positions
  BY DEF Positions
<1>5. ASSUME NEW k \in 1 .. MaxLines PROVE Stage(k)' = Stage(k)
  <2>1. StageFacts!(k) /\ StageFacts!(k)'
    BY StagesKnown, StagesKnownNext DEF StageFacts
  <2>2. CASE k = n
    BY <1>1, <1>2, <1>3, <1>4, <2>1, <2>2
  <2>3. CASE k # n
    <3>1. Answered(k)' <=> Answered(k)
      BY <1>1, <1>2, <1>3, <2>3 DEF Answered
    <3>2. CASE k \in Positions /\ log[k].kind = "call" /\ Answered(k)
      <4>1. PICK i \in DOMAIN replies : replies[i].line = k
        BY <3>2 DEF Answered
      <4> QED BY <1>3, <1>4, <2>1, <3>2, <4>1
    <3> QED BY <1>1, <1>4, <2>1, <2>3, <3>1, <3>2
  <2> QED BY <2>2, <2>3
<1>6. \A m : (\E i \in DOMAIN replies' : replies'[i].line = m)
               <=> (m = n \/ \E i \in DOMAIN replies : replies[i].line = m)
  BY <1>1, <1>2, <1>3
<1>7. Lifecycle!Tell(n)
  BY <1>1, <1>5, <1>6
  DEF Lifecycle!Tell, Unanswered, Answered, Outcomes, Lifecycle!Outcomes
<1> QED BY <1>7 DEF Lifecycle!Next, Lifecycle!Line

LEMMA WritesImplement ==
  ASSUME LifeTypeInv, LifeTypeInv', piped, ReaderWrite \/ WorkerWrite
  PROVE  Lifecycle!Next
<1>1. CASE ReaderWrite
  <2>1. /\ replies' = Append(replies, rreply)
        /\ UNCHANGED <<log, queue, wpc, wcall, active, woutcome>>
        /\ rpc = "write" /\ rreply'.line = 0
    BY <1>1 DEF ReaderWrite, NoReply, Reply, workVars, handleVars
  <2>2. /\ rreply \in RepliesType /\ rreply.line \in Positions /\ rreply.line \in 1 .. MaxLines
        /\ Unanswered(rreply.line)
        /\ log[rreply.line].kind = "call" => rreply.kind = "busy"
    BY <2>1, LineIsRead DEF LifeTypeInv, TypeInv, TypeOK, LifeInv, HeldApart
  <2>3. Stage(rreply.line) = IF log[rreply.line].kind = "call" THEN "rejected" ELSE "protocol"
    BY <2>2, StagesKnown DEF StageFacts
  <2>4. \A k \in 1 .. MaxLines : k # 0
    OBVIOUS
  <2>5. /\ Held' = Held /\ HeldStage' = HeldStage
        /\ \A k : InChannel(k)' <=> InChannel(k)
    BY <2>1 DEF Held, HeldStage, InChannel
  <2> QED BY <2>1, <2>2, <2>3, <2>4, <2>5, TellsOne DEF AnswerStage
<1>2. CASE WorkerWrite
  <2> DEFINE r == Reply(wcall, woutcome, wtoken, wfrom, wto)
  <2>1. /\ replies' = Append(replies, r)
        /\ Held /\ ~Held' /\ wpc = "reply"
        /\ UNCHANGED <<log, rreply, queue, wcall>>
    BY <1>2 DEF WorkerWrite, readerVars, workVars, Held
  <2>2. r \in RepliesType /\ r.line = wcall /\ r.kind = woutcome
    BY <1>2, WorkerReplyType DEF Reply, LifeTypeInv
  <2>3. /\ wcall \in Positions /\ Unanswered(wcall) /\ log[wcall].kind = "call"
        /\ woutcome \in {"done", "cancelled", "refused"}
    BY <2>1 DEF LifeTypeInv, TypeInv, TypeOK, OutcomeKnown, OrderInv, NoneYet, Held, Outcomes
  <2>4. Stage(wcall) = woutcome
    BY <2>1, HeldStageOf DEF HeldStage
  <2>5. \A k : InChannel(k)' <=> InChannel(k)
    BY <2>1 DEF InChannel
  <2> QED BY <2>1, <2>2, <2>3, <2>4, <2>5, TellsOne DEF AnswerStage, Outcomes
<1> QED BY <1>1, <1>2

(* A line arrives, and perhaps stops the call that runs.                   *)
LEMMA ReadImplements ==
  ASSUME LifeTypeInv, LifeTypeInv', ReadCancel \/ ReadStop \/ ReadCall \/ ReadPlain
  PROVE  Lifecycle!Next
<1>1. PICK line \in Lines :
        /\ Read(line)
        /\ UNCHANGED <<wpc, wcall, woutcome, replies>>
        /\ \/ UNCHANGED active
           \/ line.kind # "call" /\ active' = [active EXCEPT !.cancelled = TRUE]
        /\ \/ queue' = Append(queue, Position) /\ UNCHANGED rreply
           \/ UNCHANGED queue /\ rreply' \in {rreply} \cup
                {Reply(Position, kind, 0, 0, 0) : kind \in {"busy", "plain", "stopped", "idle"}}
  <2>1. ReadCancel => \E line \in Lines :
          /\ Read(line) /\ line.kind = "cancel"
          /\ active' = CancelledRequest(line.id, line.gen)
          /\ UNCHANGED <<wpc, wcall, woutcome, replies, queue, rreply>>
    BY DEF ReadCancel, workVars, readerVars
  <2>2. ReadStop => \E line \in Lines :
          /\ Read(line) /\ line.kind = "stop"
          /\ active' \in {active, Cancelled}
          /\ UNCHANGED <<wpc, wcall, woutcome, replies, queue>>
          /\ UNCHANGED rreply \/ \E kind \in {"stopped", "idle"} : ReaderAnswers(kind)
    BY DEF ReadStop, workVars, readerVars
  <2>3. ReadCall => \E line \in Lines :
          /\ Read(line)
          /\ UNCHANGED <<wpc, wcall, woutcome, replies, active>>
          /\ \/ queue' = Append(queue, Position) /\ UNCHANGED rreply
             \/ UNCHANGED <<queue, rreply>>
             \/ UNCHANGED queue /\ ReaderAnswers("busy")
    BY DEF ReadCall, workVars, readerVars, handleVars
  <2>4. ReadPlain => \E line \in Lines :
          /\ Read(line) /\ ReaderAnswers("plain")
          /\ UNCHANGED <<wpc, wcall, woutcome, replies, active, queue>>
    BY DEF ReadPlain, workVars, handleVars
  <2> QED BY <2>1, <2>2, <2>3, <2>4 DEF CancelledRequest, Cancelled, ReaderAnswers
<1>2. /\ Len(log) \in Nat /\ Len(log) < MaxLines /\ rpc = "read" /\ rreply.line = 0
      /\ Len(log') = Len(log) + 1 /\ log'[Len(log) + 1] = line
      /\ \A k \in 1 .. Len(log) : log'[k] = log[k]
      /\ Position = Len(log) + 1
      /\ Positions = 1 .. Len(log) /\ Positions' = 1 .. Len(log) + 1
  <2>1. TypeOK /\ LifeInv
    BY DEF LifeTypeInv, TypeInv
  <2>2. Len(log) \in Nat /\ Len(log) < MaxLines /\ rpc = "read"
    BY <1>1, <2>1 DEF Read, TypeOK
  <2> QED BY <1>1, <2>1, <2>2, ReadFacts DEF Position, LifeInv, Positions
<1>3. PICK n \in 1 .. MaxLines : n = Len(log) + 1
  BY <1>2, ServerAssumption
<1>4. ASSUME NEW k \in 1 .. MaxLines, k # n
      PROVE  /\ k \in Positions' <=> k \in Positions
             /\ k \in Positions => log'[k] = log[k]
             /\ InChannel(k)' <=> InChannel(k)
             /\ (Held' /\ k = wcall') <=> (Held /\ k = wcall)
             /\ rreply'.line = k <=> rreply.line = k
  <2>1. k # Position /\ k # 0 /\ (k \in Positions' <=> k \in Positions)
    BY <1>2, <1>3, <1>4
  <2>2. InChannel(k)' <=> InChannel(k)
    <3>1. CASE queue' = Append(queue, Position)
      <4>1. /\ queue \in Seq(Nat) /\ Position \in Nat
        BY <1>2 DEF LifeTypeInv, TypeInv, TypeOK
      <4>2. /\ DOMAIN queue' = 1 .. Len(queue) + 1
            /\ DOMAIN queue = 1 .. Len(queue)
            /\ Len(queue) \in Nat
            /\ \A i \in 1 .. Len(queue) : queue'[i] = queue[i]
            /\ queue'[Len(queue) + 1] = Position
        BY <3>1, <4>1, AppendKeeps
      <4> QED BY <2>1, <4>2 DEF InChannel
    <3> QED BY <1>1, <3>1 DEF InChannel
  <2> QED BY <1>1, <1>2, <2>1, <2>2 DEF Held, Reply
<1>5. HeldStage' = HeldStage \/ (/\ wpc \in {"probe", "step", "blind"}
                                 /\ line.kind # "call"
                                 /\ HeldStage = "running" /\ HeldStage' = "stopping")
  BY <1>1 DEF HeldStage, LifeTypeInv, TypeInv, TypeOK
<1>6. Stage(n) = "unread"
  BY <1>2, <1>3, StagesKnown DEF StageFacts
<1>7. ASSUME NEW m \in 1 .. n - 1 PROVE m \in 1 .. MaxLines /\ Stage(m) # "unread"
  <2>1. m \in 1 .. MaxLines /\ m \in Positions
    BY <1>2, <1>3, ServerAssumption
  <2>2. StageFacts!(m)
    BY <2>1, StagesKnown DEF StageFacts
  <2>3. HeldStage # "unread"
    BY DEF HeldStage, LifeTypeInv, TypeInv, TypeOK, Outcomes
  <2>4. CASE Answered(m) /\ log[m].kind = "call"
    <3>1. PICK i \in DOMAIN replies : replies[i].line = m
      BY <2>4 DEF Answered
    <3>2. replies[i].kind \in Outcomes \cup {"busy"}
      BY <2>4, <3>1 DEF LifeTypeInv, LifeInv, CallReplies
    <3> QED BY <2>1, <2>2, <2>4, <3>1, <3>2 DEF AnswerStage, Outcomes
  <2> QED BY <2>1, <2>2, <2>3, <2>4
<1>8. /\ line.kind # "call" => Stage(n)' = "protocol"
      /\ Stage(n)' \in {"protocol", "waiting", "rejected", "ignored"}
  <2>1. n \in Positions' /\ log'[n] = line /\ n \notin Positions
    BY <1>2, <1>3
  <2>2. StageFacts!(n)'
    BY StagesKnownNext DEF StageFacts
  <2>3. ~(Held' /\ n = wcall')
    BY <1>1, <2>1 DEF Held, LifeTypeInv, TypeInv, TypeOK
  <2>4. ~Answered(n)'
    BY <1>1, <2>1 DEF Answered, LifeTypeInv, OrderInv, AnsweredBehind
  <2> QED BY <2>1, <2>2, <2>3, <2>4
<1>9. PICK s \in Lifecycle!Arrivals : s = Stage(n)'
  BY <1>8 DEF Lifecycle!Arrivals
<1>10. CASE HeldStage' = HeldStage \/ ~Held
  <2>1. \A k \in 1 .. MaxLines : k # n => Stage(k)' = Stage(k)
    BY <1>1, <1>4, <1>10, LineStays
  <2>2. Lifecycle!Move(n, s)
    BY <1>1, <1>9, <2>1, MovesOne
  <2>3. Lifecycle!Arrive(n, s)
    BY <1>3, <1>6, <1>7, <2>2 DEF Lifecycle!Arrive
  <2> QED BY <2>3, <1>9 DEF Lifecycle!Next, Lifecycle!Line
<1>11. CASE HeldStage' # HeldStage /\ Held
  <2>1. PICK m \in 1 .. MaxLines : m = wcall /\ m \in Positions /\ m # n
    BY <1>2, <1>3, <1>11, LineIsRead DEF LifeTypeInv, TypeInv, TypeOK, Held
  <2>2. Stage(m) = "running"
    BY <1>5, <1>11, <2>1, HeldStageOf
  <2>3. Stage(m)' = "stopping"
    <3>1. Held' /\ UNCHANGED wcall
      BY <1>1, <1>11 DEF Held
    <3> QED BY <1>5, <1>11, <2>1, <3>1, HeldStageOfNext
  <2>4. \A k \in 1 .. MaxLines : k # n /\ k # m => Stage(k)' = Stage(k)
    BY <1>1, <1>4, <2>1, LineStays
  <2>5. Stage(n)' = "protocol"
    BY <1>5, <1>8, <1>11
  <2>6. Lifecycle!Arrive(n, "protocol")
    BY <1>1, <1>3, <1>6, <1>7, <2>1, <2>2, <2>3, <2>4, <2>5
    DEF Lifecycle!Arrive, Lifecycle!Line, Answered
  <2> QED BY <2>6 DEF Lifecycle!Next, Lifecycle!Line, Lifecycle!Arrivals
<1> QED BY <1>10, <1>11

(* What a client can see of the two threads, the channel and the handle is *)
(* the life of each line as CallLifecycle has it: calls start one at a     *)
(* time and in order, end cancelled only while they are being stopped, and *)
(* are answered once, after they are settled; and a call the channel had   *)
(* no room for is told so and never runs.                                  *)
THEOREM Implementation == Spec => ImplementsLifecycle
<1>1. Init => Lifecycle!Init
  <2> SUFFICES ASSUME Init PROVE Lifecycle!Init
    OBVIOUS
  <2>1. \A n \in 1 .. MaxLines : Stage(n) = "unread" /\ ~Answered(n)
    BY ServerAssumption DEF Init, Stage, Answered
  <2> QED BY <2>1 DEF Lifecycle!Init, Lifecycle!Line
<1>2. LifeTypeInv /\ LifeTypeInv' /\ [Next]_vars => [Lifecycle!Next]_(Lifecycle!vars)
  <2> SUFFICES ASSUME LifeTypeInv, LifeTypeInv', [Next]_vars
               PROVE  Lifecycle!Next \/ UNCHANGED Lifecycle!vars
    OBVIOUS
  <2> QED BY ReadImplements, WritesImplement, QuietImplements, ReceiveImplements,
             AcceptedImplements, DecidingImplements
          DEF Next, Reader, Worker, Terminated
<1>3. Spec => []LifeTypeInv
  BY TypeInvariant, OrderInvariant, LifeInvariant, PTL DEF LifeTypeInv
<1> QED BY <1>1, <1>2, <1>3, PTL DEF Spec, ImplementsLifecycle, Lifecycle!Spec
=============================================================================
