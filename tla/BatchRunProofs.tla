---------------------------- MODULE BatchRunProofs ----------------------------
(***************************************************************************)
(* Theorems of BatchRun for every set of well-formed requests, however     *)
(* deep their batches are nested, and every bound on the clock.            *)
(***************************************************************************)
EXTENDS BatchRun, TLAPS

Looping == pc \in {"check", "preflight", "dispatch", "action", "interrupted"}
Leaving == pc \in {"observe", "return"}

(* The batches that run are nested as they are in the request: each one    *)
(* but the innermost is at the node of the next.                           *)
NestInv ==
  /\ pc \in {"entry", "done"} <=> stack = <<>>
  /\ stack # <<>> => stack[1].node = 1
  /\ \A i \in DOMAIN stack :
       /\ plan[stack[i].node].op = "batch"
       /\ stack[i].at \in stack[i].node + 1 .. plan[stack[i].node].last + 1
  /\ \A i \in 1 .. Len(stack) - 1 :
       /\ stack[i + 1].node = stack[i].at
       /\ stack[i].at <= plan[stack[i].node].last
  /\ pc \in {"action", "interrupted"} => plan[Current].op # "batch"

(* d is the earliest deadline of the k outermost batches.                  *)
EarliestOf(d, k) ==
  /\ \A j \in 1 .. k : d <= stack[j].due
  /\ d # Never => \E j \in 1 .. k : d = stack[j].due

(* What a batch saves is the earliest deadline around it.                  *)
TimeInv ==
  /\ \A i \in DOMAIN stack : EarliestOf(stack[i].saved, i - 1)
  /\ Looping => EarliestOf(deadline, Len(stack))
  /\ Leaving => deadline = Top.saved
  /\ pc \in {"entry", "done"} => deadline = Never

(* Only the Rust port can be late, and no action is cleared for a batch    *)
(* that has been late.                                                     *)
LateInv ==
  /\ \A i \in DOMAIN stack :
       /\ stack[i].late <= 1
       /\ stack[i].late > 0 => Over(stack[i]) /\ port = "rust"
  /\ pc \in {"preflight", "dispatch"} => \A i \in DOMAIN stack : stack[i].late = 0

CodeInv ==
  /\ earliest <= deadline
  /\ \A i \in DOMAIN stack : earliest <= stack[i].saved
  /\ result.code = "cancelled" => cancelled
  /\ result.code = "deadline_exceeded" => earliest <= now
  /\ pc = "interrupted" => Interrupted

FreshInv == pc \in {"dispatch", "action", "interrupted"} => Authorized(Current)

(* Every action before node n was dispatched, and succeeded.               *)
AllBefore(n) ==
  /\ {ran[k].node : k \in DOMAIN ran} = {m \in Leaves : m < n}
  /\ \A k \in DOMAIN ran : ran[k].status = "ok"

RanInv ==
  /\ pc = "entry" => ran = <<>>
  /\ Looping => AllBefore(Current)
  /\ Leaving /\ result.code = "ok" => AllBefore(Current) /\ ActionsOver
  /\ pc = "done" /\ result.code = "ok" => AllBefore(Len(plan) + 1)

(* The receipts a running batch has, and those the innermost one returns:  *)
(* together they are the actions that were dispatched.                     *)
Level(i) == IF Leaving /\ i = Len(stack) THEN result.receipts ELSE stack[i].receipts
Within(receipts, from, to) ==
  \A a \in DOMAIN receipts : from < receipts[a].node /\ receipts[a].node < to
AllIn(receipts, done) ==
  \A a \in DOMAIN receipts : OfAction(receipts[a]) => Among(receipts[a], done)
AllButLastIn(receipts, done) ==
  \A a \in DOMAIN receipts : OfAction(receipts[a]) =>
    \/ Among(receipts[a], done)
    \/ receipts[a].status = "failed" /\ LastOfActions(a, receipts)
Kept ==
  /\ \A i \in DOMAIN stack :
       /\ Increasing(Level(i))
       /\ Within(stack[i].receipts, stack[i].node, stack[i].at)
       /\ AllIn(stack[i].receipts, ran)
  /\ Looping \/ Leaving =>
       \A k \in DOMAIN ran : \E i \in DOMAIN stack : Among(ran[k], Level(i))
  /\ Leaving =>
       /\ Within(result.receipts, Top.node, plan[Top.node].last + 1)
       /\ AllButLastIn(result.receipts, ran)
       /\ result.code = "ok" => AllIn(result.receipts, ran)
  /\ pc = "done" => Tells
KeptInv ==
  /\ Increasing(ran) /\ \A k \in DOMAIN ran : OfAction(ran[k])
  /\ ~escaped => Kept

-----------------------------------------------------------------------------
(* The request, and the sequences the model builds.                        *)

LEMMA PlanShape ==
  ASSUME plan \in Plans
  PROVE  /\ Len(plan) \in Nat \ {0} /\ DOMAIN plan = 1 .. Len(plan)
         /\ plan[1].op = "batch" /\ plan[1].last = Len(plan)
         /\ \A n \in DOMAIN plan :
              /\ n \in Nat /\ plan[n].ms \in Nat /\ plan[n].op \in Ops
              /\ plan[n].last \in n .. Len(plan)
              /\ plan[n].last = n <=> plan[n].op # "batch"
              /\ \A m \in n .. plan[n].last :
                   m \in DOMAIN plan /\ plan[m].last <= plan[n].last
<1>1. /\ plan \in Seq(Node) /\ plan # <<>>
      /\ plan[1].op = "batch" /\ plan[1].last = Len(plan)
      /\ \A n \in DOMAIN plan :
           /\ plan[n].last \in n .. Len(plan)
           /\ plan[n].last = n <=> plan[n].op # "batch"
           /\ \A m \in n .. plan[n].last : plan[m].last <= plan[n].last
  BY BatchAssumption DEF WellFormed
<1>2. Len(plan) \in Nat \ {0} /\ DOMAIN plan = 1 .. Len(plan)
  BY <1>1
<1>3. ASSUME NEW n \in DOMAIN plan PROVE plan[n].ms \in Nat /\ plan[n].op \in Ops /\ n \in Nat
  <2>1. plan[n] \in Node
    BY <1>1
  <2> QED BY <1>2, <2>1 DEF Node
<1>4. ASSUME NEW n \in DOMAIN plan, NEW m \in n .. plan[n].last PROVE m \in DOMAIN plan
  BY <1>1, <1>2, <1>4
<1> QED BY <1>1, <1>2, <1>3, <1>4

LEMMA AppendKeeps ==
  ASSUME NEW S, NEW s \in Seq(S), NEW e \in S
  PROVE  /\ Append(s, e) \in Seq(S)
         /\ Len(Append(s, e)) = Len(s) + 1
         /\ \A k \in 1 .. Len(s) : Append(s, e)[k] = s[k]
         /\ Append(s, e)[Len(s) + 1] = e
  OBVIOUS

(* The receipts a batch has earned, those of an action in it, and that     *)
(* action's own.                                                           *)
LEMMA JoinKeeps ==
  ASSUME NEW S, NEW s \in Seq(S), NEW t \in Seq(S), NEW e \in S
  PROVE  /\ s \o t \o <<e>> \in Seq(S)
         /\ Len(s \o t \o <<e>>) = Len(s) + Len(t) + 1
         /\ \A i \in 1 .. Len(s) : (s \o t \o <<e>>)[i] = s[i]
         /\ \A i \in Len(s) + 1 .. Len(s) + Len(t) : (s \o t \o <<e>>)[i] = t[i - Len(s)]
         /\ (s \o t \o <<e>>)[Len(s) + Len(t) + 1] = e
<1>1. /\ s \o t \in Seq(S) /\ Len(s \o t) = Len(s) + Len(t)
      /\ \A i \in 1 .. Len(s) : (s \o t)[i] = s[i]
      /\ \A i \in Len(s) + 1 .. Len(s) + Len(t) : (s \o t)[i] = t[i - Len(s)]
  OBVIOUS
<1> DEFINE u == s \o t
<1>2. /\ u \in Seq(S) /\ <<e>> \in Seq(S)
      /\ Len(u) \in Nat /\ Len(s) \in Nat /\ Len(t) \in Nat
  BY <1>1
<1>3. /\ u \o <<e>> \in Seq(S) /\ Len(u \o <<e>>) = Len(u) + 1
      /\ \A i \in 1 .. Len(u) : (u \o <<e>>)[i] = u[i]
      /\ (u \o <<e>>)[Len(u) + 1] = e
  <2> HIDE DEF u
  <2> QED BY <1>2
<1> QED BY <1>1, <1>2, <1>3

-----------------------------------------------------------------------------
(* Shapes.                                                                 *)
TypeInv == TypeOK /\ NestInv

LEMMA StackShape ==
  ASSUME TypeInv
  PROVE  /\ Len(stack) \in Nat /\ DOMAIN stack = 1 .. Len(stack)
         /\ \A i \in DOMAIN stack :
              /\ stack[i] \in Batches
              /\ stack[i].node \in DOMAIN plan /\ stack[i].at \in Nat
              /\ stack[i].receipts \in Seq(Receipts)
              /\ stack[i].saved \in 0 .. Never /\ stack[i].due \in 0 .. Never
              /\ stack[i].late \in Nat
<1>1. stack \in Seq(Batches)
  BY DEF TypeInv, TypeOK
<1>2. \A i \in DOMAIN stack : stack[i] \in Batches
  BY <1>1
<1> QED BY <1>1, <1>2 DEF Batches

(* The batches around the innermost one.                                   *)
LEMMA OuterShape ==
  ASSUME TypeInv, Len(stack) > 1
  PROVE  LET s == SubSeq(stack, 1, Len(stack) - 1) IN
         /\ s \in Seq(Batches) /\ Len(s) = Len(stack) - 1
         /\ \A i \in 1 .. Len(stack) - 1 : s[i] = stack[i]
<1>1. stack \in Seq(Batches) /\ Len(stack) \in Nat
  BY DEF TypeInv, TypeOK
<1> QED BY <1>1

LEMMA ReceiptShape ==
  ASSUME NEW n \in DOMAIN plan, NEW code, NEW image \in BOOLEAN
  PROVE  /\ Receipt(n, code, image) \in Receipts
         /\ Receipt(n, code, image).node = n
         /\ Receipt(n, code, image).status = IF code = "ok" THEN "ok" ELSE "failed"
  BY DEF Receipt, Receipts

LEMMA PushFacts ==
  ASSUME TypeInv, NEW n \in DOMAIN plan, Push(n)
  PROVE  /\ Len(stack') = Len(stack) + 1 /\ stack' \in Seq(Batches)
         /\ \A i \in 1 .. Len(stack) : stack'[i] = stack[i]
         /\ stack'[Len(stack) + 1] =
              [node |-> n, at |-> n + 1, receipts |-> <<>>, saved |-> deadline,
               due |-> Due(plan[n].ms), late |-> 0]
         /\ Due(plan[n].ms) \in 0 .. Never
         /\ deadline' = Sooner(deadline, Due(plan[n].ms))
         /\ deadline' \in 0 .. Never
         /\ earliest' = Sooner(earliest, Due(plan[n].ms))
         /\ pc' = "check" /\ result' = result
<1>1. plan \in Plans /\ MaxTime \in Nat /\ now \in 0 .. MaxTime /\ deadline \in 0 .. Never
  BY BatchAssumption DEF TypeInv, TypeOK
<1>2. plan[n].ms \in Nat /\ n \in Nat
  BY <1>1, PlanShape
<1>3. Due(plan[n].ms) \in 0 .. Never
  BY <1>1, <1>2 DEF Due, Never
<1> DEFINE e == [node |-> n, at |-> n + 1, receipts |-> <<>>, saved |-> deadline,
                 due |-> Due(plan[n].ms), late |-> 0]
<1>4. e \in Batches
  BY <1>1, <1>2, <1>3 DEF Batches
<1>5. stack \in Seq(Batches) /\ stack' = Append(stack, e)
  BY DEF TypeInv, TypeOK, Push
<1>6. /\ stack' \in Seq(Batches) /\ Len(stack') = Len(stack) + 1
      /\ \A i \in 1 .. Len(stack) : stack'[i] = stack[i]
      /\ stack'[Len(stack) + 1] = e
  <2> HIDE DEF e
  <2> QED BY <1>4, <1>5, AppendKeeps
<1>7. Sooner(deadline, Due(plan[n].ms)) \in 0 .. Never
  BY <1>1, <1>3 DEF Sooner
<1> QED BY <1>3, <1>6, <1>7 DEF Push

AtAnAction == pc \in {"preflight", "dispatch", "action", "interrupted"}

(* s is the running batches, or those around the innermost one, and the    *)
(* innermost of s is at an action.                                         *)
Outer(s) ==
  /\ s \in Seq(Batches)
  /\ Len(s) \in 1 .. Len(stack)
  /\ \/ Len(s) = Len(stack) /\ AtAnAction
     \/ Len(s) + 1 = Len(stack) /\ pc = "return"
  /\ \A i \in 1 .. Len(s) : s[i] = stack[i]
  /\ stack[Len(s)].at <= plan[stack[Len(s)].node].last

(* Batch k of the stack is then the innermost: it goes on with its next    *)
(* action, or it is over.                                                  *)
SettledAt(k, code, told) ==
  /\ stack[k].at \in DOMAIN plan
  /\ told \in Seq(Receipts)
  /\ Len(stack') = k /\ stack' \in Seq(Batches)
  /\ \A i \in 1 .. k - 1 : stack'[i] = stack[i]
  /\ code = "ok" =>
       /\ stack'[k] = [stack[k] EXCEPT !.receipts = told,
                                       !.at = plan[stack[k].at].last + 1]
       /\ pc' = "check" /\ UNCHANGED <<deadline, result>>
  /\ code # "ok" =>
       /\ stack'[k] = stack[k]
       /\ result' = Result(code, told, FALSE)
       /\ deadline' = stack[k].saved
       /\ pc' = AfterActions(stack[k].node) /\ pc' \in {"observe", "return"}

LEMMA SettledFacts ==
  ASSUME TypeInv, NEW s, Outer(s), NEW code \in Codes, NEW inner \in Seq(Receipts),
         NEW image \in BOOLEAN, Settled(s, code, inner, image)
  PROVE  SettledAt(Len(s), code, Told(stack[Len(s)], code, inner, image))
<1> DEFINE k == Len(s)
           told == Told(stack[k], code, inner, image)
           moved == [stack[k] EXCEPT !.receipts = told, !.at = plan[stack[k].at].last + 1]
<1>1. /\ k \in 1 .. Len(stack) /\ Len(stack) \in Nat /\ k \in DOMAIN stack
      /\ s[k] = stack[k] /\ s \in Seq(Batches) /\ DOMAIN s = 1 .. k
  <2>1. /\ k \in 1 .. Len(stack) /\ s \in Seq(Batches)
        /\ \A i \in 1 .. k : s[i] = stack[i]
    BY DEF Outer
  <2>2. Len(stack) \in Nat /\ DOMAIN stack = 1 .. Len(stack)
    BY StackShape
  <2> QED BY <2>1, <2>2
<1>2. /\ stack[k] \in Batches /\ stack[k].receipts \in Seq(Receipts)
      /\ stack[k].node \in DOMAIN plan
      /\ stack[k].at \in stack[k].node + 1 .. plan[stack[k].node].last
      /\ plan \in Plans
  BY <1>1, StackShape DEF TypeInv, TypeOK, NestInv, Outer
<1>3. stack[k].at \in DOMAIN plan /\ plan[stack[k].at].last + 1 \in Nat
  <2>1. /\ stack[k].node \in Nat /\ plan[stack[k].node].last \in Nat
        /\ \A m \in stack[k].node .. plan[stack[k].node].last : m \in DOMAIN plan
    BY <1>2, PlanShape
  <2>2. stack[k].at \in DOMAIN plan
    BY <1>2, <2>1
  <2>3. plan[stack[k].at].last \in stack[k].at .. Len(plan) /\ stack[k].at \in Nat
    BY <1>2, <2>2, PlanShape
  <2> QED BY <2>2, <2>3
<1>4. told \in Seq(Receipts)
  <2>1. Receipt(stack[k].at, code, image) \in Receipts
    BY <1>3, ReceiptShape
  <2> QED BY <1>2, <2>1, JoinKeeps DEF Told
<1>5. moved \in Batches
  <2> HIDE DEF told, k
  <2> QED BY <1>2, <1>3, <1>4 DEF Batches
<1>6. CASE code = "ok"
  <2>1. /\ stack' = [s EXCEPT ![k].receipts = told, ![k].at = plan[stack[k].at].last + 1]
        /\ pc' = "check" /\ UNCHANGED <<deadline, result>>
    BY <1>1, <1>6 DEF Settled
  <2>2. stack' = [s EXCEPT ![k] = moved]
    <3> HIDE DEF told, k
    <3> QED BY <1>1, <1>2, <2>1
  <2>3. /\ Len(stack') = k /\ stack' \in Seq(Batches)
        /\ \A i \in 1 .. k - 1 : stack'[i] = stack[i]
        /\ stack'[k] = moved
    <3> HIDE DEF moved, told
    <3> QED BY <1>1, <1>5, <2>2 DEF Outer
  <2>4. SettledAt(k, code, told)
    <3> HIDE DEF told, k
    <3> QED BY <1>3, <1>4, <1>6, <2>1, <2>3 DEF SettledAt
  <2> QED BY <2>4
<1>7. CASE code # "ok"
  <2>1. /\ stack' = s /\ result' = Result(code, told, FALSE)
        /\ deadline' = stack[k].saved
        /\ pc' = AfterActions(stack[k].node)
    BY <1>1, <1>7 DEF Settled, Conclude
  <2>2. /\ Len(stack') = k /\ stack' \in Seq(Batches) /\ stack'[k] = stack[k]
        /\ \A i \in 1 .. k - 1 : stack'[i] = stack[i]
    <3> HIDE DEF told
    <3> QED BY <1>1, <2>1 DEF Outer
  <2>3. pc' \in {"observe", "return"}
    BY <2>1 DEF AfterActions
  <2>4. SettledAt(k, code, told)
    <3> HIDE DEF told, k
    <3> QED BY <1>3, <1>4, <1>7, <2>1, <2>2, <2>3 DEF SettledAt
  <2> QED BY <2>4
<1> QED BY <1>6, <1>7


(* A step settles an action of the batch that runs, or of the one around   *)
(* it, when that is over.                                                  *)
Settles(s, code, inner, image) ==
  /\ Outer(s) /\ code \in Codes /\ inner \in Seq(Receipts) /\ image \in BOOLEAN
  /\ Settled(s, code, inner, image)

SomeSettles == \E s, code, inner, image : Settles(s, code, inner, image)

LEMMA CurrentShape ==
  ASSUME TypeInv, pc \notin {"entry", "done"}
  PROVE  /\ Len(stack) >= 1 /\ Len(stack) \in DOMAIN stack
         /\ Top.node \in DOMAIN plan /\ Current \in Nat
         /\ plan[Top.node].last \in Nat
         /\ AtAnAction => Outer(stack) /\ Current \in DOMAIN plan
<1>1. stack # <<>> /\ stack \in Seq(Batches) /\ plan \in Plans
  BY DEF TypeInv, TypeOK, NestInv
<1>2. Len(stack) >= 1 /\ Len(stack) \in DOMAIN stack /\ Len(stack) \in Nat
  BY <1>1
<1>3. /\ Top.node \in DOMAIN plan /\ Current \in Nat /\ Current >= Top.node
  BY <1>2, StackShape, PlanShape, <1>1 DEF Top, Current, TypeInv, NestInv
<1>4. /\ plan[Top.node].last \in Nat /\ Top.node \in Nat
      /\ \A m \in Top.node .. plan[Top.node].last : m \in DOMAIN plan
  BY <1>1, <1>3, PlanShape
<1>5. ASSUME AtAnAction PROVE Outer(stack) /\ Current \in DOMAIN plan
  <2>1. Current <= plan[Top.node].last
    BY <1>3, <1>4, <1>5 DEF TypeInv, TypeOK, AtAnAction
  <2>2. /\ Len(stack) \in 1 .. Len(stack) /\ Current \in DOMAIN plan
        /\ stack[Len(stack)].at <= plan[stack[Len(stack)].node].last
    BY <1>2, <1>3, <1>4, <2>1 DEF Current, Top
  <2> QED BY <1>1, <1>5, <2>2 DEF Outer
<1> QED BY <1>2, <1>3, <1>4, <1>5

LEMMA OuterIsOuter ==
  ASSUME TypeInv, Len(stack) > 1, pc = "return"
  PROVE  Outer(SubSeq(stack, 1, Len(stack) - 1))
<1> DEFINE s == SubSeq(stack, 1, Len(stack) - 1)
<1>1. /\ s \in Seq(Batches) /\ Len(s) = Len(stack) - 1
      /\ \A i \in 1 .. Len(stack) - 1 : s[i] = stack[i]
      /\ Len(stack) \in Nat
  BY OuterShape, StackShape
<1>2. stack[Len(stack) - 1].at <= plan[stack[Len(stack) - 1].node].last
  BY <1>1 DEF TypeInv, NestInv
<1> HIDE DEF s
<1> QED BY <1>1, <1>2 DEF Outer

(* Which action of which batch a step settles.                             *)
LEMMA WhatSettles ==
  ASSUME TypeInv, Next
  PROVE  \/ Refuse \/ Tick \/ Cancel \/ Done \/ Probe \/ FinalObserve \/ Escape
         \/ Admit
         \/ Check
         \/ Preflight /\ pc' = "dispatch"
         \/ Preflight /\ Settles(stack, "failed", <<>>, FALSE)
         \/ Dispatch /\ pc' = "action"
         \/ Dispatch /\ plan[Current].op = "batch" /\ Push(Current)
         \/ /\ Dispatch /\ port = "python" /\ Interrupted /\ UNCHANGED ghosts
            /\ Settles(stack, Interruption, <<>>, FALSE)
         \/ \E code \in {"ok", "failed"} :
              /\ ActionEnds \/ ObserveEnds
              /\ Ran(code)
              /\ Settles(stack, code, <<>>, FALSE)
         \/ Report /\ Settles(stack, Interruption, <<>>, FALSE)
         \/ Return /\ Len(stack) = 1
         \/ /\ Return /\ Len(stack) > 1 /\ UNCHANGED ran
            /\ Settles(SubSeq(stack, 1, Len(stack) - 1), result.code, result.receipts,
                       result.image)
<1>1. /\ AtAnAction => Outer(stack)
      /\ <<>> \in Seq(Receipts)
      /\ Interruption \in Codes /\ {"ok", "failed"} \subseteq Codes
  BY CurrentShape DEF AtAnAction, Interruption, Codes
<1>2. CASE Preflight
  BY <1>1, <1>2 DEF Preflight, AtAnAction, Settles, Codes
<1>3. CASE Dispatch
  BY <1>1, <1>3 DEF Dispatch, AtAnAction, Settles
<1>4. CASE ActionEnds \/ ObserveEnds
  BY <1>1, <1>4 DEF ActionEnds, ObserveEnds, AtAnAction, Settles
<1>5. CASE Report
  BY <1>1, <1>5 DEF Report, AtAnAction, Settles
<1>6. CASE Return
  <2>1. Len(stack) \in Nat /\ Len(stack) >= 1
    BY <1>6, StackShape, CurrentShape DEF Return
  <2>2. result.code \in Codes /\ result.receipts \in Seq(Receipts) /\ result.image \in BOOLEAN
    BY DEF TypeInv, TypeOK
  <2>3. CASE Len(stack) = 1
    BY <1>6, <2>3
  <2>4. CASE Len(stack) # 1
    <3>1. Len(stack) > 1
      BY <2>1, <2>4
    <3> QED BY <1>6, <2>2, <2>4, <3>1, OuterIsOuter DEF Return, Settles, ghosts
  <2> QED BY <2>3, <2>4
<1> QED BY <1>2, <1>3, <1>4, <1>5, <1>6 DEF Next, Controller

(* The same, in short.                                                     *)
LEMMA Steps ==
  ASSUME TypeInv, Next
  PROVE  \/ SomeSettles
         \/ Admit \/ (Dispatch /\ plan[Current].op = "batch" /\ Push(Current))
         \/ Check
         \/ Dispatch /\ pc' = "action"
         \/ Refuse \/ (Return /\ Len(stack) = 1)
         \/ Tick \/ Cancel \/ Done \/ Probe \/ FinalObserve \/ Escape
         \/ Preflight /\ pc' = "dispatch"
<1>1. /\ Settles(stack, "failed", <<>>, FALSE) => SomeSettles
      /\ Settles(stack, Interruption, <<>>, FALSE) => SomeSettles
      /\ \A code \in {"ok", "failed"} : Settles(stack, code, <<>>, FALSE) => SomeSettles
      /\ Settles(SubSeq(stack, 1, Len(stack) - 1), result.code, result.receipts,
                 result.image) => SomeSettles
  BY Zenon DEF SomeSettles
<1>2. (\E code \in {"ok", "failed"} :
         /\ ActionEnds \/ ObserveEnds
         /\ Ran(code)
         /\ Settles(stack, code, <<>>, FALSE)) => SomeSettles
  BY <1>1
<1> QED BY <1>1, <1>2, WhatSettles

LEMMA Pushes ==
  ASSUME TypeInv, Admit \/ (Dispatch /\ plan[Current].op = "batch" /\ Push(Current))
  PROVE  \E n \in DOMAIN plan : Push(n)
<1>1. Admit => 1 \in DOMAIN plan /\ Push(1)
  BY PlanShape DEF TypeInv, TypeOK, Admit
<1>2. Dispatch => Current \in DOMAIN plan
  BY CurrentShape DEF Dispatch, AtAnAction
<1> QED BY <1>1, <1>2

LEMMA PlanStays ==
  ASSUME [Next]_vars
  PROVE  UNCHANGED <<port, plan>> /\ Receipts' = Receipts /\ Batches' = Batches /\ Leaves' = Leaves
<1>1. UNCHANGED <<port, plan>>
  BY DEF Next, Controller, Refuse, Tick, Cancel, Done, Probe, FinalObserve, Escape, Admit, Check,
         Preflight, Dispatch, ActionEnds, ObserveEnds, Report, Return, env, vars
<1> QED BY <1>1 DEF Receipts, Batches, Never, Leaves


(* The nesting, after a step that settles an action.                       *)
LEMMA SettlesKeepsNest ==
  ASSUME TypeInv, NEW s, NEW code, NEW inner, NEW image, Settles(s, code, inner, image),
         UNCHANGED plan
  PROVE  NestInv' /\ stack' # <<>>
<1> DEFINE k == Len(s)
<1>1. /\ Len(stack') = k /\ stack' \in Seq(Batches) /\ k \in 1 .. Len(stack)
      /\ Len(stack) \in Nat /\ DOMAIN stack = 1 .. Len(stack)
      /\ \A i \in 1 .. k - 1 : stack'[i] = stack[i]
      /\ \/ /\ pc' = "check" /\ stack'[k].at = plan[stack[k].at].last + 1
            /\ stack'[k].node = stack[k].node
         \/ pc' \in {"observe", "return"} /\ stack'[k] = stack[k]
      /\ stack[k].at \in DOMAIN plan
  <2>1. /\ Len(stack) \in Nat /\ DOMAIN stack = 1 .. Len(stack)
        /\ k \in 1 .. Len(stack) /\ stack[k] \in Batches
    BY StackShape DEF Settles, Outer
  <2> DEFINE told == Told(stack[k], code, inner, image)
  <2>2. /\ stack[k].at \in DOMAIN plan
        /\ Len(stack') = k /\ stack' \in Seq(Batches)
        /\ \A i \in 1 .. k - 1 : stack'[i] = stack[i]
        /\ code = "ok" =>
             /\ stack'[k] = [stack[k] EXCEPT !.receipts = told,
                                             !.at = plan[stack[k].at].last + 1]
             /\ pc' = "check"
        /\ code # "ok" => stack'[k] = stack[k] /\ pc' \in {"observe", "return"}
    <3>1. SettledAt(k, code, told)
      BY SettledFacts DEF Settles
    <3> HIDE DEF told, k
    <3> QED BY <3>1 DEF SettledAt
  <2>3. CASE code = "ok"
    <3> HIDE DEF told, k
    <3> QED BY <2>1, <2>2, <2>3 DEF Batches
  <2> QED BY <2>1, <2>2, <2>3
<1>2. /\ plan \in Plans /\ DOMAIN stack' = 1 .. k /\ k >= 1 /\ k \in Nat
      /\ pc \notin {"entry", "done"}
  BY <1>1 DEF TypeInv, TypeOK, NestInv
<1>3. /\ stack[k].node \in DOMAIN plan
      /\ stack[k].at \in stack[k].node + 1 .. plan[stack[k].node].last + 1
      /\ stack[k].at <= plan[stack[k].node].last
  BY <1>1, StackShape DEF TypeInv, NestInv, Settles, Outer
<1>4. /\ stack[k].node \in Nat /\ plan[stack[k].node].last \in Nat
      /\ plan[stack[k].at].last \in Nat /\ stack[k].at <= plan[stack[k].at].last
      /\ plan[stack[k].at].last <= plan[stack[k].node].last
  <2>1. /\ stack[k].node \in Nat /\ plan[stack[k].node].last \in Nat
        /\ plan[stack[k].at].last \in stack[k].at .. Len(plan) /\ stack[k].at \in Nat
    BY <1>1, <1>2, <1>3, PlanShape
  <2>2. stack[k].at \in stack[k].node .. plan[stack[k].node].last
    BY <1>3, <2>1
  <2> QED BY <1>2, <1>3, <2>1, <2>2, PlanShape
<1>5. \A i \in 1 .. k :
        /\ stack'[i].node = stack[i].node
        /\ i < k => stack'[i] = stack[i]
        /\ stack'[i].at \in stack[i].node + 1 .. plan[stack[i].node].last + 1
  <2>1. /\ stack'[k].node = stack[k].node
        /\ stack'[k].at \in stack[k].node + 1 .. plan[stack[k].node].last + 1
    BY <1>1, <1>3, <1>4
  <2>2. ASSUME NEW i \in 1 .. k, i # k PROVE i \in 1 .. k - 1 /\ i \in DOMAIN stack
    <3> HIDE DEF k
    <3> QED BY <1>1, <1>2, <2>2
  <2> QED BY <1>1, <2>1, <2>2 DEF TypeInv, NestInv
<1>6. \A i \in 1 .. k - 1 : /\ stack[i + 1].node = stack[i].at
                            /\ stack[i].at <= plan[stack[i].node].last
                            /\ i + 1 \in 1 .. k /\ i \in 1 .. k /\ i < k
  BY <1>1, <1>2 DEF TypeInv, NestInv
<1>7. stack'[1].node = 1 /\ stack' # <<>>
  <2>1. stack # <<>> /\ stack[1].node = 1
    BY <1>1, <1>2 DEF TypeInv, NestInv
  <2>2. 1 \in 1 .. k
    BY <1>2
  <2> QED BY <1>1, <1>2, <1>5, <2>1, <2>2
<1>8. \A i \in DOMAIN stack' : plan[stack'[i].node].op = "batch"
  BY <1>1, <1>2, <1>5 DEF TypeInv, NestInv
<1> HIDE DEF k
<1>9. \A i \in 1 .. k - 1 : /\ stack'[i + 1].node = stack'[i].at
                            /\ stack'[i].at <= plan[stack'[i].node].last
  BY <1>1, <1>5, <1>6
<1> QED BY <1>1, <1>2, <1>5, <1>7, <1>8, <1>9 DEF NestInv

(* ... and after one that begins a batch.                                  *)
LEMMA PushKeepsNest ==
  ASSUME TypeInv, NEW n \in DOMAIN plan, Push(n), UNCHANGED plan, plan[n].op = "batch",
         \/ stack = <<>> /\ n = 1
         \/ pc = "dispatch" /\ n = Current
  PROVE  NestInv' /\ stack' # <<>>
<1>1. /\ Len(stack') = Len(stack) + 1 /\ stack' \in Seq(Batches)
      /\ \A i \in 1 .. Len(stack) : stack'[i] = stack[i]
      /\ stack'[Len(stack) + 1].node = n /\ stack'[Len(stack) + 1].at = n + 1
      /\ pc' = "check"
      /\ Len(stack) \in Nat /\ DOMAIN stack = 1 .. Len(stack)
  <2>1. stack'[Len(stack) + 1] =
          [node |-> n, at |-> n + 1, receipts |-> <<>>, saved |-> deadline,
           due |-> Due(plan[n].ms), late |-> 0]
    BY PushFacts
  <2>2. stack'[Len(stack) + 1].node = n /\ stack'[Len(stack) + 1].at = n + 1
    BY <2>1
  <2> QED BY <2>2, PushFacts, StackShape
<1>2. /\ DOMAIN stack' = 1 .. Len(stack) + 1 /\ stack' # <<>>
      /\ \A i \in DOMAIN stack' : i \in DOMAIN stack \/ i = Len(stack) + 1
  BY <1>1
<1>3. plan \in Plans /\ n \in Nat /\ plan[n].last \in Nat /\ n <= plan[n].last
  BY PlanShape DEF TypeInv, TypeOK
<1>4. \A i \in DOMAIN stack' :
        /\ plan[stack'[i].node].op = "batch"
        /\ stack'[i].at \in stack'[i].node + 1 .. plan[stack'[i].node].last + 1
  BY <1>1, <1>2, <1>3 DEF TypeInv, NestInv
<1>5. stack'[1].node = 1
  <2>1. CASE stack = <<>> /\ n = 1
    BY <1>1, <2>1
  <2>2. CASE stack # <<>>
    <3>1. 1 \in 1 .. Len(stack)
      BY <1>1, <2>2 DEF TypeInv, TypeOK
    <3> QED BY <1>1, <2>2, <3>1 DEF TypeInv, NestInv
  <2>3. stack # <<>> \/ n = 1
    BY DEF TypeInv, NestInv
  <2> QED BY <2>1, <2>2, <2>3
<1>6. \A i \in 1 .. Len(stack') - 1 :
        /\ stack'[i + 1].node = stack'[i].at
        /\ stack'[i].at <= plan[stack'[i].node].last
  <2>1. ASSUME NEW i \in 1 .. Len(stack), i # Len(stack)
        PROVE  i \in 1 .. Len(stack) - 1 /\ i + 1 \in 1 .. Len(stack)
    <3>1. \A m \in Nat : \A j \in 1 .. m : j # m => j \in 1 .. m - 1 /\ j + 1 \in 1 .. m
      OBVIOUS
    <3> QED BY <1>1, <2>1, <3>1
  <2>2. ASSUME Len(stack) >= 1
        PROVE  n = stack[Len(stack)].at /\ n <= plan[stack[Len(stack)].node].last
    <3>1. pc = "dispatch" /\ n = Current /\ Len(stack) \in 1 .. Len(stack)
      BY <1>1, <2>2
    <3> QED BY <3>1, CurrentShape DEF AtAnAction, Outer, Top, Current
  <2>3. ASSUME NEW i \in 1 .. Len(stack)
        PROVE  stack'[i + 1].node = stack[i].at /\ stack[i].at <= plan[stack[i].node].last
    <3>1. CASE i = Len(stack)
      <4>1. Len(stack) >= 1
        BY <1>1, <3>1
      <4> QED BY <1>1, <2>2, <3>1, <4>1
    <3>2. CASE i # Len(stack)
      BY <1>1, <2>1, <3>2 DEF TypeInv, NestInv
    <3> QED BY <3>1, <3>2
  <2>4. Len(stack') - 1 = Len(stack)
    BY <1>1
  <2> QED BY <1>1, <2>3, <2>4
<1> QED BY <1>1, <1>2, <1>4, <1>5, <1>6 DEF NestInv

(* ... and after one that leaves the batches where they are.               *)
LEMMA StaysKeepsNest ==
  ASSUME TypeInv, UNCHANGED plan, pc \notin {"entry", "done"},
         pc' \notin {"entry", "done"},
         Len(stack') = Len(stack), stack' \in Seq(Batches),
         \A i \in DOMAIN stack : stack'[i].node = stack[i].node /\ stack'[i].at = stack[i].at,
         pc' \in {"action", "interrupted"} => plan[Current].op # "batch"
  PROVE  NestInv'
<1>1. /\ Len(stack) \in Nat /\ DOMAIN stack = 1 .. Len(stack) /\ DOMAIN stack' = 1 .. Len(stack)
      /\ Len(stack) >= 1 /\ stack' # <<>> /\ stack # <<>>
  BY StackShape, CurrentShape
<1>2. Current' = Current
  BY <1>1 DEF Current, Top
<1>3. \A i \in 1 .. Len(stack) - 1 : i \in 1 .. Len(stack) /\ i + 1 \in 1 .. Len(stack)
  BY <1>1
<1>4. 1 \in 1 .. Len(stack)
  BY <1>1
<1> QED BY <1>1, <1>2, <1>3, <1>4 DEF TypeInv, NestInv


(* The part of TypeOK that is not about the running batches.               *)
RestOK ==
  /\ port \in Ports /\ plan \in Plans
  /\ cancelled \in BOOLEAN /\ now \in 0 .. MaxTime
  /\ frame \in Nat /\ nextId \in Nat /\ frame < nextId
  /\ ran \in Seq(Receipts)
  /\ earliest \in 0 .. Never /\ escaped \in BOOLEAN

LEMMA RanKeeps ==
  ASSUME TypeInv, Current \in DOMAIN plan, NEW code, Ran(code)
  PROVE  /\ ran' \in Seq(Receipts) /\ Len(ran') = Len(ran) + 1
         /\ \A k \in DOMAIN ran : k \in DOMAIN ran' /\ ran'[k] = ran[k]
         /\ Len(ran) + 1 \in DOMAIN ran'
         /\ ran'[Len(ran) + 1] = Receipt(Current, code, FALSE)
         /\ \A k \in DOMAIN ran' : k \in DOMAIN ran \/ k = Len(ran) + 1
         /\ \A k \in DOMAIN ran : k < Len(ran) + 1
<1> DEFINE e == Receipt(Current, code, FALSE)
<1>1. ran \in Seq(Receipts) /\ e \in Receipts /\ ran' = Append(ran, e)
  BY ReceiptShape DEF TypeInv, TypeOK, Ran
<1> HIDE DEF e
<1>2. /\ ran' \in Seq(Receipts) /\ Len(ran') = Len(ran) + 1
      /\ \A k \in 1 .. Len(ran) : ran'[k] = ran[k]
      /\ ran'[Len(ran) + 1] = e
      /\ Len(ran) \in Nat /\ DOMAIN ran = 1 .. Len(ran)
  BY <1>1, AppendKeeps
<1>3. DOMAIN ran' = 1 .. Len(ran) + 1
  BY <1>2
<1> QED BY <1>2, <1>3 DEF e

LEMMA RestKeeps ==
  ASSUME TypeInv, [Next]_vars
  PROVE  RestOK'
<1>1. UNCHANGED <<port, plan>> /\ Receipts' = Receipts
  BY PlanStays
<1>2. /\ port \in Ports /\ plan \in Plans /\ MaxTime \in Nat
      /\ cancelled \in BOOLEAN /\ now \in 0 .. MaxTime
      /\ frame \in Nat /\ nextId \in Nat /\ frame < nextId
      /\ ran \in Seq(Receipts)
      /\ earliest \in 0 .. Never /\ escaped \in BOOLEAN
  BY BatchAssumption DEF TypeInv, TypeOK
<1>3. cancelled' \in BOOLEAN /\ now' \in 0 .. MaxTime
  <2>1. cancelled' = cancelled \/ cancelled' = TRUE
    BY DEF Next, Controller, Refuse, Tick, Cancel, Done, Probe, FinalObserve, Escape, Admit,
           Check, Preflight, Dispatch, ActionEnds, ObserveEnds, Report, Return, vars
  <2>2. cancelled' \in BOOLEAN
    BY <1>2, <2>1
  <2>3. Tick \/ now' = now
    BY DEF Next, Controller, Refuse, Cancel, Done, Probe, FinalObserve, Escape, Admit,
           Check, Preflight, Dispatch, ActionEnds, ObserveEnds, Report, Return, vars
  <2>4. now' \in 0 .. MaxTime
    BY <1>2, <2>3 DEF Tick
  <2> QED BY <2>2, <2>4
<1>4. frame' \in Nat /\ nextId' \in Nat /\ frame' < nextId'
  <2>1. UNCHANGED <<frame, nextId>> \/ \E ok \in BOOLEAN : Observed(ok)
    BY DEF Next, Controller, Refuse, Tick, Cancel, Done, Probe, FinalObserve, Escape, Admit,
           Check, Preflight, Dispatch, ActionEnds, ObserveEnds, Report, Return, vars, store
  <2>2. \A ok \in BOOLEAN : Observed(ok) =>
           \/ frame' = nextId /\ nextId' = nextId + 1
           \/ frame' \in {frame, 0} /\ nextId' = nextId
    BY DEF Observed
  <2>3. CASE frame' = nextId /\ nextId' = nextId + 1
    BY <1>2, <2>3
  <2>4. CASE frame' \in {frame, 0} /\ nextId' = nextId
    BY <1>2, <2>4
  <2> QED BY <1>2, <2>1, <2>2, <2>3, <2>4
<1>5. earliest' \in 0 .. Never /\ escaped' \in BOOLEAN
  <2>1. earliest' = earliest \/ \E n \in DOMAIN plan : Push(n)
    <3>1. Admit => 1 \in DOMAIN plan
      BY <1>2, PlanShape
    <3>2. Dispatch => Current \in DOMAIN plan
      BY CurrentShape DEF Dispatch, AtAnAction
    <3> QED BY <3>1, <3>2
            DEF Next, Controller, Refuse, Tick, Cancel, Done, Probe, FinalObserve, Escape, Admit,
                Check, Preflight, Dispatch, ActionEnds, ObserveEnds, Report, Return, vars, ghosts
  <2>2. \A n \in DOMAIN plan : Push(n) => earliest' \in 0 .. Never
    BY <1>2, PushFacts DEF Sooner
  <2>3. escaped' \in {escaped, escaped \/ Top.receipts # <<>>}
    BY DEF Next, Controller, Refuse, Tick, Cancel, Done, Probe, FinalObserve, Escape, Admit,
           Check, Preflight, Dispatch, ActionEnds, ObserveEnds, Report, Return, vars, ghosts
  <2> QED BY <1>2, <2>1, <2>2, <2>3
<1>6. ran' \in Seq(Receipts)
  <2>1. UNCHANGED ran \/ \E code : Ran(code) /\ Current \in DOMAIN plan
    <3>1. ActionEnds \/ ObserveEnds \/ Report => Current \in DOMAIN plan
      BY CurrentShape DEF ActionEnds, ObserveEnds, Report, AtAnAction
    <3> QED BY <3>1
            DEF Next, Controller, Refuse, Tick, Cancel, Done, Probe, FinalObserve, Escape, Admit,
                Check, Preflight, Dispatch, ActionEnds, ObserveEnds, Report, Return, vars, ghosts,
                Push
  <2> QED BY <1>2, <2>1, RanKeeps
<1> QED BY <1>1, <1>2, <1>3, <1>4, <1>5, <1>6 DEF RestOK, Never

(* The part that is.                                                       *)
StackOK ==
  /\ deadline \in 0 .. Never
  /\ pc \in {"entry", "check", "preflight", "dispatch", "action", "interrupted",
             "observe", "return", "done"}
  /\ stack \in Seq(Batches)
  /\ AtAnAction => Current <= plan[Top.node].last
  /\ result \in [code : Codes, receipts : Seq(Receipts), image : BOOLEAN]

LEMMA TypeOKParts ==
  ASSUME RestOK, StackOK, NestInv
  PROVE  TypeInv
<1>1. ASSUME AtAnAction PROVE Current \in Top.node + 1 .. plan[Top.node].last
  <2>1. stack # <<>> /\ stack \in Seq(Batches) /\ plan \in Plans
    BY <1>1 DEF NestInv, StackOK, AtAnAction, RestOK
  <2>2. Len(stack) \in DOMAIN stack
    BY <2>1
  <2>3. Top \in Batches /\ Current \in Top.node + 1 .. plan[Top.node].last + 1
    BY <2>1, <2>2 DEF NestInv, Top, Current
  <2>4. Top.node \in DOMAIN plan
    BY <2>3 DEF Batches
  <2>5. plan[Top.node].last \in Top.node .. Len(plan) /\ Top.node \in Nat
    BY <2>1, <2>4, PlanShape
  <2> QED BY <1>1, <2>3, <2>5 DEF StackOK
<1> QED BY <1>1 DEF TypeInv, TypeOK, RestOK, StackOK, NestInv, AtAnAction

LEMMA TypeOKPartsNext == RestOK' /\ StackOK' /\ NestInv' => TypeInv'
<1>1. RestOK /\ StackOK /\ NestInv => TypeInv
  BY TypeOKParts
<1> QED BY <1>1, PTL

LEMMA ResultShape ==
  ASSUME NEW code \in Codes, NEW receipts \in Seq(Receipts), NEW image \in BOOLEAN
  PROVE  Result(code, receipts, image) \in [code : Codes, receipts : Seq(Receipts),
                                            image : BOOLEAN]
  BY DEF Result

LEMMA SettlesKeepsStack ==
  ASSUME TypeInv, NEW s, NEW code, NEW inner, NEW image, Settles(s, code, inner, image),
         UNCHANGED plan, Receipts' = Receipts, Batches' = Batches
  PROVE  StackOK'
<1> DEFINE k == Len(s)
           told == Told(stack[k], code, inner, image)
<1>1. /\ SettledAt(k, code, told) /\ code \in Codes
      /\ k \in 1 .. Len(stack)
  BY SettledFacts DEF Settles, Outer
<1>2. /\ stack[k].saved \in 0 .. Never /\ deadline \in 0 .. Never
      /\ result \in [code : Codes, receipts : Seq(Receipts), image : BOOLEAN]
  BY <1>1, StackShape DEF TypeInv, TypeOK
<1>3. result' \in [code : Codes, receipts : Seq(Receipts), image : BOOLEAN]
  <2> HIDE DEF told, k
  <2>1. told \in Seq(Receipts) /\ (result' = result \/ result' = Result(code, told, FALSE))
    BY <1>1 DEF SettledAt
  <2> QED BY <1>1, <1>2, <2>1, ResultShape
<1> HIDE DEF told, k
<1> QED BY <1>1, <1>2, <1>3 DEF SettledAt, StackOK, AtAnAction, Never

LEMMA PushKeepsStack ==
  ASSUME TypeInv, NEW n \in DOMAIN plan, Push(n),
         UNCHANGED plan, Receipts' = Receipts, Batches' = Batches
  PROVE  StackOK'
  BY PushFacts DEF StackOK, AtAnAction, Never, TypeInv, TypeOK

(* Check, when the actions of the batch are over or it breaks off.         *)
LEMMA CheckForms ==
  ASSUME TypeInv, Check
  PROVE  /\ UNCHANGED stack
         /\ \/ /\ pc' = "preflight" /\ ~ActionsOver /\ LoopCode = "none"
               /\ UNCHANGED <<deadline, result>>
            \/ \E code \in Codes :
                 /\ code # "none"
                 /\ result' = Result(code, Top.receipts, FALSE)
                 /\ deadline' = Top.saved
                 /\ pc' \in {"observe", "return"}
                 /\ code = "ok" => ActionsOver
                 /\ code # "ok" => code = LoopCode
<1>1. LoopCode \in Codes \ {"ok"}
  BY DEF LoopCode, Codes
<1>2. "ok" \in Codes
  BY DEF Codes
<1>3. CASE ActionsOver
  BY <1>2, <1>3 DEF Check, Conclude, AfterActions, Top
<1>4. CASE ~ActionsOver /\ LoopCode # "none"
  BY <1>1, <1>4 DEF Check, Conclude, AfterActions, Top
<1>5. CASE ~ActionsOver /\ LoopCode = "none"
  BY <1>5 DEF Check
<1> QED BY <1>3, <1>4, <1>5

(* Dispatch of an action: batches that are over count it.                  *)
LEMMA DispatchFacts ==
  ASSUME TypeInv, Dispatch, pc' = "action"
  PROVE  /\ Len(stack') = Len(stack) /\ stack' \in Seq(Batches)
         /\ \A i \in DOMAIN stack :
              /\ stack'[i].node = stack[i].node /\ stack'[i].at = stack[i].at
              /\ stack'[i].receipts = stack[i].receipts
              /\ stack'[i].saved = stack[i].saved /\ stack'[i].due = stack[i].due
              /\ stack'[i].late = IF Over(stack[i]) THEN stack[i].late + 1 ELSE stack[i].late
         /\ UNCHANGED <<deadline, result, ghosts>>
         /\ plan[Current].op # "batch"
         /\ port = "python" => ~Interrupted
<1>1. /\ pc = "dispatch" /\ AtAnAction
      /\ ~(port = "python" /\ Interrupted) /\ plan[Current].op # "batch"
      /\ stack' = [i \in DOMAIN stack |->
                     IF Over(stack[i]) THEN [stack[i] EXCEPT !.late = @ + 1] ELSE stack[i]]
      /\ UNCHANGED <<deadline, result, ghosts>>
  <2>1. CASE port = "python" /\ Interrupted
    <3>1. pc' \in {"check", "observe", "return"}
      BY <2>1 DEF Dispatch, Settled, Conclude, AfterActions
    <3> QED BY <3>1
  <2>2. CASE ~(port = "python" /\ Interrupted) /\ plan[Current].op = "batch"
    BY <2>2 DEF Dispatch, Push
  <2> QED BY <2>1, <2>2 DEF Dispatch, AtAnAction
<1>2. /\ Len(stack) \in Nat /\ DOMAIN stack = 1 .. Len(stack)
      /\ \A i \in DOMAIN stack : stack[i] \in Batches
  BY StackShape
<1>3. ASSUME NEW i \in DOMAIN stack
      PROVE  /\ stack'[i] \in Batches
             /\ stack'[i].node = stack[i].node /\ stack'[i].at = stack[i].at
             /\ stack'[i].receipts = stack[i].receipts
             /\ stack'[i].saved = stack[i].saved /\ stack'[i].due = stack[i].due
             /\ stack'[i].late = IF Over(stack[i]) THEN stack[i].late + 1 ELSE stack[i].late
  <2>1. CASE Over(stack[i])
    BY <1>1, <1>2, <2>1 DEF Batches
  <2>2. CASE ~Over(stack[i])
    BY <1>1, <1>2, <2>2 DEF Batches
  <2> QED BY <2>1, <2>2
<1>4. stack' \in [1 .. Len(stack) -> Batches] /\ DOMAIN stack' = 1 .. Len(stack)
  BY <1>1, <1>2, <1>3
<1>5. Len(stack') = Len(stack) /\ stack' \in Seq(Batches)
  BY <1>2, <1>4
<1> QED BY <1>1, <1>3, <1>5

LEMMA TypeInvariant == Spec => []TypeInv
<1>1. Init => TypeInv
  <2> SUFFICES ASSUME Init PROVE TypeInv
    OBVIOUS
  <2>1. RestOK
    <3>1. <<>> \in Seq(Receipts)
      OBVIOUS
    <3>2. port \in Ports /\ plan \in Plans /\ cancelled \in BOOLEAN /\ escaped \in BOOLEAN
      BY DEF Init
    <3>3. /\ now \in 0 .. MaxTime /\ earliest \in 0 .. Never
          /\ frame \in Nat /\ nextId \in Nat /\ frame < nextId
      BY BatchAssumption DEF Init, Never
    <3> QED BY <3>1, <3>2, <3>3 DEF Init, RestOK
  <2>2. <<>> \in Seq(Receipts) /\ <<>> \in Seq(Batches)
    OBVIOUS
  <2>3. StackOK
    BY <2>2, BatchAssumption DEF Init, StackOK, NoResult, Result, Codes, AtAnAction, Never
  <2>4. NestInv
    BY DEF Init, NestInv
  <2> QED BY <2>1, <2>3, <2>4, TypeOKParts
<1>2. ASSUME TypeInv, [Next]_vars PROVE TypeInv'
  <2>1. /\ UNCHANGED <<port, plan>> /\ Receipts' = Receipts /\ Batches' = Batches
        /\ RestOK' /\ Never' = Never
    BY <1>2, PlanStays, RestKeeps DEF Never
  <2>2. ASSUME NEW s, NEW code, NEW inner, NEW image, Settles(s, code, inner, image)
        PROVE  TypeInv'
    BY <1>2, <2>1, <2>2, SettlesKeepsNest, SettlesKeepsStack, TypeOKPartsNext
  <2>3. CASE Admit \/ (Dispatch /\ plan[Current].op = "batch" /\ Push(Current))
    <3>1. Admit => 1 \in DOMAIN plan /\ plan[1].op = "batch" /\ stack = <<>> /\ Push(1)
      BY <1>2, PlanShape DEF TypeInv, TypeOK, NestInv, Admit
    <3>2. Dispatch => Current \in DOMAIN plan /\ pc = "dispatch"
      BY <1>2, CurrentShape DEF Dispatch, AtAnAction
    <3> QED BY <1>2, <2>1, <2>3, <3>1, <3>2, PushKeepsNest, PushKeepsStack, TypeOKPartsNext
  <2>4. CASE Check
    <3>1. StackOK'
      <4>1. /\ Top.receipts \in Seq(Receipts) /\ Top.saved \in 0 .. Never
            /\ Current \in Nat /\ plan[Top.node].last \in Nat /\ stack \in Seq(Batches)
            /\ deadline \in 0 .. Never
            /\ result \in [code : Codes, receipts : Seq(Receipts), image : BOOLEAN]
        BY <1>2, <2>4, StackShape, CurrentShape DEF Check, Top, TypeInv, TypeOK
      <4>2. /\ deadline' \in 0 .. Never
            /\ result' \in [code : Codes, receipts : Seq(Receipts), image : BOOLEAN]
            /\ pc' \in {"preflight", "observe", "return"}
            /\ pc' = "preflight" => ~(Current > plan[Top.node].last)
        <5>1. CASE pc' = "preflight" /\ ~ActionsOver /\ UNCHANGED <<deadline, result>>
          BY <4>1, <5>1 DEF ActionsOver
        <5>2. CASE \E code \in Codes : /\ result' = Result(code, Top.receipts, FALSE)
                                       /\ deadline' = Top.saved
                                       /\ pc' \in {"observe", "return"}
          <6>1. PICK code \in Codes : /\ result' = Result(code, Top.receipts, FALSE)
                                      /\ deadline' = Top.saved
                                      /\ pc' \in {"observe", "return"}
            BY <5>2
          <6>2. result' \in [code : Codes, receipts : Seq(Receipts), image : BOOLEAN]
            BY <4>1, <6>1, ResultShape, Zenon
          <6> QED BY <4>1, <6>1, <6>2
        <5> QED BY <1>2, <2>4, <5>1, <5>2, CheckForms
      <4>3. Top' = Top /\ Current' = Current /\ stack' = stack
        BY <1>2, <2>4, CheckForms DEF Top, Current
      <4> QED BY <2>1, <4>1, <4>2, <4>3 DEF StackOK, AtAnAction
    <3>2. NestInv'
      BY <1>2, <2>1, <2>4, CheckForms, StaysKeepsNest DEF TypeInv, TypeOK, Check
    <3> QED BY <2>1, <3>1, <3>2, TypeOKPartsNext
  <2>5. CASE Dispatch /\ pc' = "action"
    <3>1. /\ Len(stack') = Len(stack) /\ Len(stack) \in DOMAIN stack
          /\ stack'[Len(stack)].at = stack[Len(stack)].at
          /\ stack'[Len(stack)].node = stack[Len(stack)].node
          /\ stack' \in Seq(Batches) /\ pc = "dispatch"
          /\ UNCHANGED <<deadline, result>>
      BY <1>2, <2>5, DispatchFacts, CurrentShape DEF Dispatch
    <3>2. StackOK'
      BY <1>2, <2>1, <2>5, <3>1, CurrentShape
      DEF StackOK, AtAnAction, Top, Current, TypeInv, TypeOK, Outer
    <3>3. NestInv'
      BY <1>2, <2>1, <2>5, <3>1, DispatchFacts, StaysKeepsNest
    <3> QED BY <2>1, <3>2, <3>3, TypeOKPartsNext
  <2>6. CASE Refuse \/ (Return /\ Len(stack) = 1)
    <3>1. /\ pc' = "done" /\ stack' = <<>>
          /\ deadline' = deadline
          /\ result' \in [code : Codes, receipts : Seq(Receipts), image : BOOLEAN]
      <4>1. Refuse => result' \in [code : Codes, receipts : Seq(Receipts), image : BOOLEAN]
        BY DEF Refuse, Result, Codes
      <4> QED BY <1>2, <2>6, <4>1 DEF Refuse, Return, TypeInv, TypeOK, NestInv
    <3>2. StackOK' /\ NestInv'
      BY <1>2, <2>1, <3>1 DEF StackOK, NestInv, AtAnAction, TypeInv, TypeOK
    <3> QED BY <2>1, <3>2, TypeOKPartsNext
  <2>7. CASE \/ Tick \/ Cancel \/ Done \/ Probe \/ FinalObserve \/ Escape \/ UNCHANGED vars
             \/ Preflight /\ pc' = "dispatch"
    <3>1. /\ UNCHANGED stack
          /\ \/ pc' = pc
             \/ pc = "action" /\ pc' = "interrupted"
             \/ pc = "preflight" /\ pc' = "dispatch"
             \/ pc \in {"observe", "preflight"} /\ pc' = "return"
      BY <2>7 DEF Tick, Cancel, Done, Probe, FinalObserve, Escape, Preflight, vars, Settled,
                  Conclude, AfterActions
    <3>2. /\ deadline' \in {deadline, Top.saved}
          /\ deadline' = Top.saved => pc \notin {"entry", "done"} \/ deadline' = deadline
          /\ result' \in [code : Codes, receipts : Seq(Receipts), image : BOOLEAN]
      <4>1. /\ result \in [code : Codes, receipts : Seq(Receipts), image : BOOLEAN]
            /\ <<>> \in Seq(Receipts) /\ "failed" \in Codes
        BY <1>2 DEF TypeInv, TypeOK, Codes
      <4>2. result' \in {result, Result("failed", <<>>, FALSE)}
                          \cup {[result EXCEPT !.image = b] : b \in BOOLEAN}
        BY <2>7 DEF Tick, Cancel, Done, Probe, FinalObserve, Escape, Preflight, vars, Settled,
                    Conclude, AfterActions
      <4>3. deadline' = deadline \/ (pc = "preflight" /\ deadline' = Top.saved)
        BY <2>7 DEF Tick, Cancel, Done, Probe, FinalObserve, Escape, Preflight, vars, Settled,
                    Conclude, AfterActions
      <4> QED BY <4>1, <4>2, <4>3, ResultShape
    <3>3. deadline' \in 0 .. Never
      BY <1>2, <3>2, StackShape, CurrentShape DEF TypeInv, TypeOK, Top
    <3>4. StackOK'
      BY <1>2, <2>1, <3>1, <3>2, <3>3 DEF StackOK, AtAnAction, Top, Current, TypeInv, TypeOK
    <3>5. NestInv'
      BY <1>2, <2>1, <3>1 DEF TypeInv, NestInv, Current, Top
    <3> QED BY <2>1, <3>4, <3>5, TypeOKPartsNext
  <2>8. CASE Next
    <3>1. CASE SomeSettles
      BY <2>2, <3>1 DEF SomeSettles
    <3> QED BY <1>2, <2>8, <2>3, <2>4, <2>5, <2>6, <2>7, <3>1, Steps
  <2> QED BY <1>2, <2>7, <2>8
<1> QED BY <1>1, <1>2, PTL DEF Spec


(* Every variable keeps its shape, and a batch that looks at its current   *)
(* action has one.                                                         *)
THEOREM TypeCorrect == Spec => []TypeOK
  BY TypeInvariant, PTL DEF TypeInv

-----------------------------------------------------------------------------
(* The deadlines.                                                          *)

LEMMA SettlesFrame ==
  ASSUME TypeInv, NEW s, NEW code, NEW inner, NEW image, Settles(s, code, inner, image)
  PROVE  /\ Len(s) \in Nat /\ Len(s) >= 1 /\ Len(s) \in DOMAIN stack
         /\ Len(stack') = Len(s) /\ DOMAIN stack' = 1 .. Len(s)
         /\ \A i \in 1 .. Len(s) :
              /\ i \in DOMAIN stack
              /\ stack'[i].node = stack[i].node
              /\ stack'[i].saved = stack[i].saved
              /\ stack'[i].due = stack[i].due
              /\ stack'[i].late = stack[i].late
         /\ code = "ok" => pc' = "check" /\ UNCHANGED <<deadline, result>>
         /\ code # "ok" => /\ pc' \in {"observe", "return"} /\ result'.code = code
                           /\ deadline' = stack[Len(s)].saved
<1> DEFINE k == Len(s)
           told == Told(stack[k], code, inner, image)
           moved == [stack[k] EXCEPT !.receipts = told, !.at = plan[stack[k].at].last + 1]
<1>1. /\ SettledAt(k, code, told)
      /\ k \in 1 .. Len(stack)
  BY SettledFacts DEF Settles, Outer
<1>2. /\ Len(stack) \in Nat /\ DOMAIN stack = 1 .. Len(stack)
      /\ \A i \in DOMAIN stack : stack[i] \in Batches
  BY StackShape
<1> HIDE DEF told, k
<1>3. /\ moved.node = stack[k].node /\ moved.saved = stack[k].saved
      /\ moved.due = stack[k].due /\ moved.late = stack[k].late
  BY <1>1, <1>2 DEF Batches
<1>4. stack'[k] = stack[k] \/ stack'[k] = moved
  BY <1>1 DEF SettledAt
<1>5. /\ Len(stack') = k /\ stack' \in Seq(Batches)
      /\ \A i \in 1 .. k - 1 : stack'[i] = stack[i]
  BY <1>1 DEF SettledAt
<1> HIDE DEF moved
<1>6. /\ k \in Nat /\ k >= 1 /\ k \in DOMAIN stack /\ DOMAIN stack' = 1 .. k
      /\ \A i \in 1 .. k : i \in DOMAIN stack /\ (i = k \/ i \in 1 .. k - 1)
  BY <1>1, <1>2, <1>5
<1>7. code # "ok" => result'.code = code
  BY <1>1 DEF SettledAt, Result
<1>8. /\ code = "ok" => pc' = "check" /\ UNCHANGED <<deadline, result>>
      /\ code # "ok" => pc' \in {"observe", "return"} /\ deadline' = stack[k].saved
  BY <1>1 DEF SettledAt
<1>9. \A i \in 1 .. k : /\ i \in DOMAIN stack
                        /\ stack'[i].node = stack[i].node
                        /\ stack'[i].saved = stack[i].saved
                        /\ stack'[i].due = stack[i].due
                        /\ stack'[i].late = stack[i].late
  BY <1>3, <1>4, <1>5, <1>6
<1> QED BY <1>5, <1>6, <1>7, <1>8, <1>9 DEF k

(* The deadline in force when an action of batch k of the stack settles.   *)
LEMMA SettlesUnder ==
  ASSUME TypeInv, TimeInv, NEW s, Outer(s)
  PROVE  EarliestOf(deadline, Len(s))
<1>1. CASE Len(s) = Len(stack) /\ AtAnAction
  BY <1>1 DEF TimeInv, Looping, AtAnAction
<1>2. CASE Len(s) + 1 = Len(stack) /\ pc = "return"
  <2>1. /\ Len(s) = Len(stack) - 1 /\ Len(stack) \in DOMAIN stack
    BY <1>2, StackShape, CurrentShape DEF Outer
  <2> QED BY <1>2, <2>1 DEF TimeInv, Leaving, Top
<1> QED BY <1>1, <1>2 DEF Outer

LEMMA TimeInvariant == Spec => []TimeInv
<1>1. Init => TimeInv
  BY DEF Init, TimeInv, Looping, Leaving
<1>2. ASSUME TypeInv, TypeInv', TimeInv, [Next]_vars PROVE TimeInv'
  <2>1. Never' = Never /\ UNCHANGED <<port, plan>> /\ Never \in Nat
    BY <1>2, PlanStays, BatchAssumption DEF Never
  <2>2. /\ Len(stack) \in Nat /\ DOMAIN stack = 1 .. Len(stack)
        /\ \A i \in DOMAIN stack : stack[i].due \in 0 .. Never /\ stack[i].saved \in 0 .. Never
        /\ deadline \in 0 .. Never
    BY <1>2, StackShape DEF TypeInv, TypeOK
  <2>3. CASE SomeSettles
    <3>0. PICK s, code, inner, image : Settles(s, code, inner, image)
      BY <2>3 DEF SomeSettles
    <3> DEFINE k == Len(s)
    <3>1. EarliestOf(deadline, k)
      BY <1>2, <3>0, SettlesUnder DEF Settles
    <3>2. /\ k \in Nat /\ k >= 1 /\ Len(stack') = k /\ DOMAIN stack' = 1 .. k
          /\ \A i \in 1 .. k : /\ i \in DOMAIN stack
                               /\ stack'[i].saved = stack[i].saved
                               /\ stack'[i].due = stack[i].due
          /\ \/ pc' = "check" /\ UNCHANGED <<deadline>>
             \/ pc' \in {"observe", "return"} /\ deadline' = stack[k].saved
      BY <1>2, <3>0, SettlesFrame
    <3> HIDE DEF k
    <3>3. \A i \in DOMAIN stack' : EarliestOf(stack[i].saved, i - 1)
      BY <1>2, <3>2 DEF TimeInv
    <3>4. \A i \in DOMAIN stack' : EarliestOf(stack[i].saved, i - 1)'
      BY <2>1, <3>2, <3>3 DEF EarliestOf
    <3>5. Looping' => EarliestOf(deadline, k)'
      BY <2>1, <3>1, <3>2 DEF EarliestOf, Looping
    <3>6. Leaving' => (deadline = Top.saved)'
      BY <3>2 DEF Leaving, Top
    <3> QED BY <3>2, <3>4, <3>5, <3>6 DEF TimeInv
  <2>4. CASE Admit \/ (Dispatch /\ plan[Current].op = "batch" /\ Push(Current))
    <3>1. PICK n \in DOMAIN plan : Push(n)
      BY <1>2, <2>4, Pushes
    <3>2. EarliestOf(deadline, Len(stack))
      <4>1. Admit => stack = <<>> /\ deadline = Never
        BY <1>2 DEF Admit, TypeInv, NestInv, TimeInv
      <4>2. stack = <<>> /\ deadline = Never => EarliestOf(deadline, Len(stack))
        BY DEF EarliestOf
      <4> QED BY <1>2, <2>4, <4>1, <4>2 DEF Dispatch, TimeInv, Looping
    <3> DEFINE due == Due(plan[n].ms)
               k == Len(stack)
    <3>3. /\ Len(stack') = k + 1 /\ stack' \in Seq(Batches)
          /\ \A i \in 1 .. k : stack'[i] = stack[i]
          /\ stack'[k + 1].saved = deadline /\ stack'[k + 1].due = due
          /\ due \in 0 .. Never
          /\ deadline' = Sooner(deadline, due)
          /\ pc' = "check"
      <4>1. stack'[k + 1] = [node |-> n, at |-> n + 1, receipts |-> <<>>, saved |-> deadline,
                             due |-> due, late |-> 0]
        BY <1>2, <3>1, PushFacts
      <4> HIDE DEF due, k
      <4>2. stack'[k + 1].saved = deadline /\ stack'[k + 1].due = due
        BY <4>1
      <4> QED BY <1>2, <3>1, <4>2, PushFacts DEF due, k
    <3> HIDE DEF due
    <3>4. DOMAIN stack' = 1 .. k + 1 /\ \A i \in 1 .. k + 1 : i \in 1 .. k \/ i = k + 1
      BY <2>2, <3>3
    <3>5. \A i \in DOMAIN stack' : EarliestOf(stack[i].saved, i - 1)'
      <4>1. ASSUME NEW i \in 1 .. k PROVE EarliestOf(stack[i].saved, i - 1)'
        <5>1. /\ EarliestOf(stack[i].saved, i - 1)
              /\ \A j \in 1 .. i - 1 : j \in 1 .. k
          BY <1>2, <2>2, <4>1 DEF TimeInv
        <5> QED BY <2>1, <3>3, <5>1 DEF EarliestOf
      <4>2. ASSUME NEW i \in 1 .. k + 1, i = k + 1 PROVE EarliestOf(stack[i].saved, i - 1)'
        <5>1. /\ \A j \in 1 .. k : deadline <= stack'[j].due
              /\ deadline # Never => \E j \in 1 .. k : deadline = stack'[j].due
          BY <3>2, <3>3 DEF EarliestOf
        <5>2. i - 1 = k /\ stack'[i].saved = deadline
          BY <2>2, <3>3, <4>2
        <5> QED BY <2>1, <5>1, <5>2 DEF EarliestOf
      <4> QED BY <3>4, <4>1, <4>2
    <3>6. EarliestOf(deadline, Len(stack))'
      <4>1. CASE due < deadline
        BY <2>1, <2>2, <3>2, <3>3, <3>4, <4>1 DEF EarliestOf, Sooner
      <4>2. CASE ~(due < deadline)
        BY <2>1, <2>2, <3>2, <3>3, <3>4, <4>2 DEF EarliestOf, Sooner
      <4> QED BY <4>1, <4>2
    <3> QED BY <3>3, <3>5, <3>6 DEF TimeInv, Leaving, Looping
  <2>5. CASE Check \/ Escape
    <3>1. /\ UNCHANGED <<stack>>
          /\ \/ pc' = "preflight" /\ Looping /\ UNCHANGED <<deadline>>
             \/ pc' \in {"observe", "return"} /\ deadline' = Top.saved
      BY <1>2, <2>5, CheckForms DEF Check, Escape, Looping
    <3> QED BY <1>2, <2>1, <3>1 DEF TimeInv, EarliestOf, Looping, Leaving, Top
  <2>6. CASE Dispatch /\ pc' = "action"
    <3>1. /\ Len(stack') = Len(stack) /\ DOMAIN stack' = DOMAIN stack
          /\ \A i \in DOMAIN stack : /\ stack'[i].saved = stack[i].saved
                                     /\ stack'[i].due = stack[i].due
          /\ Looping /\ UNCHANGED <<deadline>>
      BY <1>2, <2>2, <2>6, DispatchFacts DEF Dispatch, Looping
    <3>2. EarliestOf(deadline, Len(stack)) /\ pc' = "action"
      BY <1>2, <2>6, <3>1 DEF TimeInv
    <3>3. EarliestOf(deadline, Len(stack))'
      BY <2>1, <2>2, <3>1, <3>2 DEF EarliestOf
    <3>4. ASSUME NEW i \in DOMAIN stack PROVE EarliestOf(stack[i].saved, i - 1)'
      <4>1. EarliestOf(stack[i].saved, i - 1) /\ \A j \in 1 .. i - 1 : j \in DOMAIN stack
        BY <1>2, <2>2 DEF TimeInv
      <4> QED BY <2>1, <3>1, <4>1 DEF EarliestOf
    <3> QED BY <3>1, <3>2, <3>3, <3>4 DEF TimeInv, Leaving
  <2>7. CASE Refuse \/ (Return /\ Len(stack) = 1)
    <3>1. pc' = "done" /\ stack' = <<>> /\ UNCHANGED <<deadline>>
      BY <1>2, <2>7 DEF Refuse, Return, TypeInv, NestInv
    <3>2. deadline = Never
      <4>1. CASE Refuse
        BY <1>2, <4>1 DEF Refuse, TimeInv
      <4>2. CASE Return /\ Len(stack) = 1
        <5>1. EarliestOf(deadline, 0)
          BY <1>2, <2>2, <4>2 DEF TimeInv, Return, Leaving, Top
        <5> QED BY <5>1 DEF EarliestOf
      <4> QED BY <2>7, <4>1, <4>2
    <3> QED BY <2>1, <3>1, <3>2 DEF TimeInv, Looping, Leaving
  <2>8. CASE \/ Tick \/ Cancel \/ Done \/ Probe \/ FinalObserve \/ UNCHANGED vars
             \/ Preflight /\ pc' = "dispatch"
    <3>1. /\ UNCHANGED <<stack, deadline>>
          /\ \/ pc' = pc
             \/ pc = "action" /\ pc' = "interrupted"
             \/ pc = "preflight" /\ pc' = "dispatch"
             \/ pc = "observe" /\ pc' = "return"
      BY <2>8 DEF Tick, Cancel, Done, Probe, FinalObserve, Preflight, vars, Settled,
                  Conclude, AfterActions
    <3> QED BY <1>2, <2>1, <3>1 DEF TimeInv, EarliestOf, Looping, Leaving, Top
  <2> QED BY <1>2, <2>3, <2>4, <2>5, <2>6, <2>7, <2>8, Steps
<1> QED BY <1>1, <1>2, TypeInvariant, PTL DEF Spec

(* The deadline in force is the earliest one of the batches that are       *)
(* running their actions, whatever way the batches inside them ended.      *)
THEOREM EarliestDeadlineInForce == Spec => []DeadlineIsEarliest
<1>1. ASSUME TypeInv, TimeInv PROVE DeadlineIsEarliest
  <2>1. Len(stack) \in Nat /\ DOMAIN stack = 1 .. Len(stack)
    BY <1>1, StackShape
  <2>2. CASE Looping
    BY <1>1, <2>1, <2>2 DEF TimeInv, EarliestOf, DeadlineIsEarliest, Running, Looping
  <2>3. CASE Leaving
    <3>1. /\ EarliestOf(deadline, Len(stack) - 1) /\ Len(stack) >= 1
          /\ pc \in {"observe", "return"}
      BY <1>1, <2>1, <2>3, CurrentShape DEF TimeInv, Leaving, Top
    <3>2. Running = SubSeq(stack, 1, Len(stack) - 1)
      BY <3>1 DEF Running
    <3>3. stack \in Seq(Batches)
      BY <1>1 DEF TypeInv, TypeOK
    <3>4. /\ DOMAIN Running = 1 .. Len(stack) - 1
          /\ \A i \in 1 .. Len(stack) - 1 : Running[i] = stack[i]
      BY <2>1, <3>1, <3>2, <3>3
    <3> QED BY <3>1, <3>4 DEF EarliestOf, DeadlineIsEarliest
  <2>4. CASE pc \in {"entry", "done"}
    <3>1. stack = <<>> /\ deadline = Never /\ Running = stack
      BY <1>1, <2>4 DEF TypeInv, NestInv, TimeInv, Running
    <3> QED BY <3>1 DEF DeadlineIsEarliest
  <2> QED BY <1>1, <2>2, <2>3, <2>4 DEF TypeInv, TypeOK, Looping, Leaving
<1> QED BY <1>1, TypeInvariant, TimeInvariant, PTL


-----------------------------------------------------------------------------
(* Late actions.                                                           *)

LEMMA Monotone ==
  ASSUME TypeInv, [Next]_vars
  PROVE  /\ cancelled => cancelled'
         /\ now <= now' /\ now \in Nat /\ now' \in Nat
<1>1. cancelled => cancelled'
  BY DEF Next, Controller, Refuse, Tick, Cancel, Done, Probe, FinalObserve, Escape, Admit,
         Check, Preflight, Dispatch, ActionEnds, ObserveEnds, Report, Return, vars
<1>2. Tick \/ now' = now
  BY DEF Next, Controller, Refuse, Cancel, Done, Probe, FinalObserve, Escape, Admit,
         Check, Preflight, Dispatch, ActionEnds, ObserveEnds, Report, Return, vars
<1>3. now \in Nat
  BY BatchAssumption DEF TypeInv, TypeOK
<1> QED BY <1>1, <1>2, <1>3 DEF Tick

(* While neither the token nor the deadline in force stops the innermost   *)
(* batch, no batch around it is over either.                               *)
LEMMA NobodyOver ==
  ASSUME TypeInv, TimeInv, Looping, ~cancelled, ~Expired, NEW i \in DOMAIN stack
  PROVE  ~Over(stack[i])
<1>1. /\ now \in Nat /\ deadline \in Nat /\ stack[i].due \in Nat
      /\ i \in 1 .. Len(stack)
  BY StackShape, BatchAssumption DEF TypeInv, TypeOK, Never
<1>2. deadline <= stack[i].due
  BY <1>1 DEF TimeInv, EarliestOf
<1>3. ~(now >= stack[i].due)
  BY <1>1, <1>2 DEF Expired
<1> QED BY <1>3 DEF Over

LEMMA LateInvariant == Spec => []LateInv
<1>1. Init => LateInv
  BY DEF Init, LateInv
<1>2. ASSUME TypeInv, TimeInv, LateInv, [Next]_vars PROVE LateInv'
  <2>1. /\ cancelled => cancelled'
        /\ now <= now' /\ now \in Nat /\ now' \in Nat
        /\ port' = port
    BY <1>2, Monotone, PlanStays
  <2>2. /\ Len(stack) \in Nat /\ DOMAIN stack = 1 .. Len(stack)
        /\ \A i \in DOMAIN stack : stack[i].due \in 0 .. Never /\ stack[i].late \in Nat
        /\ Never \in Nat
    BY <1>2, StackShape, BatchAssumption DEF Never
  <2>3. \A i \in DOMAIN stack : Over(stack[i]) => cancelled' \/ now' >= stack[i].due
    BY <2>1, <2>2 DEF Over
  <2>4. ASSUME DOMAIN stack' \subseteq DOMAIN stack,
               \A i \in DOMAIN stack' : /\ stack'[i].due = stack[i].due
                                        /\ stack'[i].late = stack[i].late,
               pc' \in {"preflight", "dispatch"} => pc \in {"preflight", "dispatch"}
        PROVE  LateInv'
    <3>1. \A i \in DOMAIN stack' : Over(stack[i]) => Over(stack[i])'
      BY <2>3, <2>4 DEF Over
    <3> QED BY <1>2, <2>1, <2>4, <3>1 DEF LateInv
  <2>5. CASE SomeSettles
    <3>1. PICK s, code, inner, image : Settles(s, code, inner, image)
      BY <2>5 DEF SomeSettles
    <3>2. /\ DOMAIN stack' \subseteq DOMAIN stack
          /\ \A i \in DOMAIN stack' : /\ stack'[i].due = stack[i].due
                                      /\ stack'[i].late = stack[i].late
          /\ pc' \in {"check", "observe", "return"}
      BY <1>2, <3>1, SettlesFrame
    <3> QED BY <2>4, <3>2
  <2>6. CASE Admit \/ (Dispatch /\ plan[Current].op = "batch" /\ Push(Current))
    <3>1. PICK n \in DOMAIN plan : Push(n)
      BY <1>2, <2>6, Pushes
    <3> DEFINE e == [node |-> n, at |-> n + 1, receipts |-> <<>>, saved |-> deadline,
                     due |-> Due(plan[n].ms), late |-> 0]
    <3>2. /\ Len(stack') = Len(stack) + 1 /\ stack' \in Seq(Batches)
          /\ \A i \in 1 .. Len(stack) : stack'[i] = stack[i]
          /\ stack'[Len(stack) + 1] = e
          /\ pc' = "check"
      BY <1>2, <3>1, PushFacts
    <3>3. e.late = 0
      OBVIOUS
    <3> HIDE DEF e
    <3>4. \A i \in DOMAIN stack' : i \in DOMAIN stack \/ (i = Len(stack) + 1 /\ stack'[i] = e)
      BY <2>2, <3>2
    <3>5. \A i \in DOMAIN stack : stack'[i] = stack[i] /\ (Over(stack[i]) => Over(stack[i])')
      BY <2>2, <2>3, <3>2 DEF Over
    <3> QED BY <1>2, <2>1, <3>2, <3>3, <3>4, <3>5 DEF LateInv
  <2>7. CASE Check
    <3>1. CASE pc' # "preflight"
      BY <1>2, <2>4, <2>7, <3>1, CheckForms
    <3>2. CASE pc' = "preflight"
      <4>1. /\ stack' = stack /\ LoopCode = "none" /\ pc = "check"
        BY <1>2, <2>7, <3>2, CheckForms DEF Check
      <4>2. port = "rust" => ~cancelled /\ ~Expired
        BY <4>1 DEF LoopCode
      <4>3. \A i \in DOMAIN stack : stack[i].late = 0
        <5>1. ASSUME NEW i \in DOMAIN stack, stack[i].late > 0 PROVE FALSE
          BY <1>2, <4>1, <4>2, <5>1, NobodyOver DEF LateInv, Looping
        <5> QED BY <2>2, <5>1
      <4> QED BY <4>1, <4>3 DEF LateInv
    <3> QED BY <3>1, <3>2
  <2>8. CASE Dispatch /\ pc' = "action"
    <3>1. /\ DOMAIN stack' = DOMAIN stack
          /\ \A i \in DOMAIN stack :
               /\ stack'[i].due = stack[i].due
               /\ stack'[i].late = IF Over(stack[i]) THEN stack[i].late + 1 ELSE stack[i].late
          /\ port = "python" => ~Interrupted
          /\ pc = "dispatch"
      BY <1>2, <2>2, <2>8, DispatchFacts DEF Dispatch
    <3>2. \A i \in DOMAIN stack : stack[i].late = 0
      BY <1>2, <3>1 DEF LateInv
    <3>3. ASSUME NEW i \in DOMAIN stack, Over(stack[i]) PROVE port = "rust" /\ Over(stack[i])'
      <4>1. port \in {"rust", "python"}
        BY <1>2 DEF TypeInv, TypeOK, Ports
      <4>2. ~(port = "python")
        BY <1>2, <3>1, <3>3, NobodyOver DEF Looping, Interrupted
      <4> QED BY <2>3, <3>1, <3>3, <4>1, <4>2 DEF Over
    <3> QED BY <2>1, <2>8, <3>1, <3>2, <3>3 DEF LateInv
  <2>9. CASE \/ Refuse \/ (Return /\ Len(stack) = 1) \/ Escape
             \/ Tick \/ Cancel \/ Done \/ Probe \/ FinalObserve \/ UNCHANGED vars
             \/ Preflight /\ pc' = "dispatch"
    <3>1. /\ stack' = stack \/ stack' = <<>>
          /\ pc' \in {"preflight", "dispatch"} => pc \in {"preflight", "dispatch"}
      BY <2>9 DEF Refuse, Return, Escape, Tick, Cancel, Done, Probe, FinalObserve, Preflight, vars,
                  Settled, Conclude, AfterActions
    <3> QED BY <2>4, <3>1
  <2> QED BY <1>2, <2>5, <2>6, <2>7, <2>8, <2>9, Steps
<1> QED BY <1>1, <1>2, TypeInvariant, TimeInvariant, PTL DEF Spec

(* After a stop, or after its deadline, a batch dispatches at most the one *)
(* action it had already cleared, nested ones included.                    *)
THEOREM OneLateAtMost == Spec => []AtMostOneLate
<1>1. LateInv => AtMostOneLate
  BY DEF LateInv, AtMostOneLate
<1> QED BY <1>1, LateInvariant, PTL


-----------------------------------------------------------------------------
(* Frames.                                                                 *)

LEMMA FreshInvariant == Spec => []FreshInv
<1>1. Init => FreshInv
  BY DEF Init, FreshInv
<1>2. ASSUME TypeInv, FreshInv, [Next]_vars PROVE FreshInv'
  <2>1. UNCHANGED plan
    BY <1>2, PlanStays
  <2>2. ASSUME UNCHANGED frame, Current' = Current, Authorized(Current) PROVE FreshInv'
    BY <2>1, <2>2 DEF FreshInv, Authorized, Coordinates, Nodes
  <2>3. CASE SomeSettles
    <3>1. PICK s, code, inner, image : Settles(s, code, inner, image)
      BY <2>3 DEF SomeSettles
    <3> QED BY <1>2, <3>1, SettlesFrame DEF FreshInv
  <2>4. CASE Admit \/ (Dispatch /\ plan[Current].op = "batch" /\ Push(Current))
    BY <1>2, <2>4, Pushes DEF Push, FreshInv
  <2>5. CASE Check
    BY <1>2, <2>5, CheckForms DEF FreshInv
  <2>6. CASE Dispatch /\ pc' = "action"
    <3>1. UNCHANGED frame /\ Current' = Current /\ pc = "dispatch"
      <4>1. /\ Len(stack') = Len(stack) /\ Len(stack) \in DOMAIN stack
            /\ stack'[Len(stack)].at = stack[Len(stack)].at
        BY <1>2, <2>6, DispatchFacts, CurrentShape DEF Dispatch
      <4> QED BY <2>6, <4>1 DEF Dispatch, store, Current, Top
    <3> QED BY <1>2, <2>2, <3>1 DEF FreshInv
  <2>7. CASE \/ Refuse \/ (Return /\ Len(stack) = 1) \/ Escape \/ FinalObserve
    BY <2>7 DEF Refuse, Return, Escape, FinalObserve, FreshInv
  <2>8. CASE \/ Tick \/ Cancel \/ Done \/ Probe \/ UNCHANGED vars
             \/ Preflight /\ pc' = "dispatch"
    <3>1. /\ UNCHANGED <<frame, stack>>
          /\ pc' \in {"dispatch", "action", "interrupted"} =>
               \/ pc \in {"dispatch", "action", "interrupted"}
               \/ Authorized(Current)
      BY <2>8 DEF Tick, Cancel, Done, Probe, Preflight, vars, store, Settled, Conclude, AfterActions
    <3> QED BY <1>2, <2>1, <3>1 DEF FreshInv, Authorized, Coordinates, Nodes, Current, Top
  <2> QED BY <1>2, <2>3, <2>4, <2>5, <2>6, <2>7, <2>8, Steps
<1> QED BY <1>1, <1>2, TypeInvariant, PTL DEF Spec

(* An input is dispatched on the frame that is stored at that moment,      *)
(* although observations of the same batch have replaced the one the       *)
(* request was admitted on.                                                *)
THEOREM FreshAtDispatch == Spec => []DispatchedFresh
<1>1. FreshInv => DispatchedFresh
  BY DEF FreshInv, DispatchedFresh, Authorized
<1> QED BY <1>1, FreshInvariant, PTL

-----------------------------------------------------------------------------
(* The outcome: why the call ended...                                      *)

LEMMA CodeInvariant == Spec => []CodeInv
<1>1. Init => CodeInv
  BY BatchAssumption DEF Init, CodeInv, NoResult, Result, Never
<1>2. ASSUME TypeInv, CodeInv, [Next]_vars PROVE CodeInv'
  <2>1. /\ cancelled => cancelled'
        /\ now <= now' /\ now \in Nat /\ now' \in Nat
        /\ deadline \in Nat /\ earliest \in Nat
        /\ \A i \in DOMAIN stack : stack[i].saved \in Nat
    BY <1>2, Monotone, StackShape, BatchAssumption DEF TypeInv, TypeOK, Never
  <2>2. Interruption = "deadline_exceeded" => earliest <= now
    BY <1>2, <2>1 DEF CodeInv, Interruption, Expired
  <2>3. Interrupted /\ Interruption = "cancelled" => cancelled
    BY DEF Interruption, Interrupted
  <2>4. ASSUME NEW s, NEW code, NEW inner, NEW image, Settles(s, code, inner, image),
               UNCHANGED earliest,
               code = "cancelled" => cancelled,
               code = "deadline_exceeded" => earliest <= now
        PROVE  CodeInv'
    <3>1. /\ \A i \in DOMAIN stack' : i \in DOMAIN stack /\ stack'[i].saved = stack[i].saved
          /\ deadline' = deadline \/ \E i \in DOMAIN stack : deadline' = stack[i].saved
          /\ result' = result \/ result'.code = code
          /\ pc' # "interrupted"
      BY <1>2, <2>4, SettlesFrame
    <3>2. /\ earliest' <= deadline'
          /\ \A i \in DOMAIN stack' : earliest' <= stack'[i].saved
      BY <1>2, <2>1, <2>4, <3>1 DEF CodeInv
    <3>3. /\ result'.code = "cancelled" => cancelled'
          /\ result'.code = "deadline_exceeded" => earliest' <= now'
      BY <1>2, <2>1, <2>4, <3>1 DEF CodeInv
    <3> QED BY <3>1, <3>2, <3>3 DEF CodeInv
  <2>5. CASE Preflight /\ Settles(stack, "failed", <<>>, FALSE)
    BY <2>4, <2>5 DEF Preflight, ghosts
  <2>6. CASE Dispatch /\ port = "python" /\ Interrupted /\ UNCHANGED ghosts
             /\ Settles(stack, Interruption, <<>>, FALSE)
    BY <2>2, <2>3, <2>4, <2>6 DEF ghosts
  <2>7. ASSUME NEW code \in {"ok", "failed"}, ActionEnds \/ ObserveEnds,
               Settles(stack, code, <<>>, FALSE)
        PROVE  CodeInv'
    BY <2>4, <2>7 DEF ActionEnds, ObserveEnds
  <2>8. CASE Report /\ Settles(stack, Interruption, <<>>, FALSE)
    BY <1>2, <2>2, <2>3, <2>4, <2>8 DEF Report, CodeInv
  <2>9. CASE Return /\ Settles(SubSeq(stack, 1, Len(stack) - 1), result.code, result.receipts,
                               result.image)
    BY <1>2, <2>4, <2>9 DEF Return, CodeInv, ghosts
  <2>10. CASE Admit \/ (Dispatch /\ plan[Current].op = "batch" /\ Push(Current))
    <3>1. PICK n \in DOMAIN plan : Push(n)
      BY <1>2, <2>10, Pushes
    <3> DEFINE e == [node |-> n, at |-> n + 1, receipts |-> <<>>, saved |-> deadline,
                     due |-> Due(plan[n].ms), late |-> 0]
               due == Due(plan[n].ms)
    <3>2. /\ Len(stack') = Len(stack) + 1 /\ stack' \in Seq(Batches)
          /\ \A i \in 1 .. Len(stack) : stack'[i] = stack[i]
          /\ stack'[Len(stack) + 1] = e
          /\ due \in 0 .. Never
          /\ deadline' = Sooner(deadline, due) /\ earliest' = Sooner(earliest, due)
          /\ pc' = "check" /\ result' = result
      BY <1>2, <3>1, PushFacts
    <3>3. e.saved = deadline
      OBVIOUS
    <3> HIDE DEF e, due
    <3>4. due \in Nat /\ Len(stack) \in Nat /\ DOMAIN stack = 1 .. Len(stack)
      BY <1>2, <3>2, StackShape, BatchAssumption DEF Never
    <3>5. /\ earliest' <= earliest /\ earliest' <= deadline' /\ earliest' \in Nat
          /\ earliest <= deadline
      BY <1>2, <2>1, <3>2, <3>4 DEF Sooner, CodeInv
    <3>6. \A i \in DOMAIN stack' : i \in DOMAIN stack \/ (i = Len(stack) + 1 /\ stack'[i] = e)
      BY <3>2, <3>4
    <3>7. \A i \in DOMAIN stack' : earliest' <= stack'[i].saved
      BY <1>2, <2>1, <3>2, <3>3, <3>4, <3>5, <3>6 DEF CodeInv
    <3>8. /\ result'.code = "cancelled" => cancelled'
          /\ result'.code = "deadline_exceeded" => earliest' <= now'
      BY <1>2, <2>1, <3>2, <3>5 DEF CodeInv
    <3> QED BY <3>2, <3>5, <3>7, <3>8 DEF CodeInv
  <2>11. CASE Check
    <3>1. /\ stack' = stack /\ UNCHANGED <<earliest, cancelled, now>>
          /\ pc' # "interrupted"
      BY <1>2, <2>11, CheckForms DEF Check, ghosts
    <3>2. /\ Top.saved \in Nat /\ earliest <= Top.saved /\ earliest <= deadline
      BY <1>2, <2>1, <2>11, CurrentShape DEF Check, CodeInv, Top
    <3>3. /\ LoopCode = "cancelled" => cancelled
          /\ LoopCode = "deadline_exceeded" => earliest <= now
      BY <2>1, <3>2 DEF LoopCode, Expired
    <3>4. \/ UNCHANGED <<deadline, result>>
          \/ /\ deadline' = Top.saved
             /\ result'.code \in {"ok", LoopCode}
      BY <1>2, <2>11, CheckForms DEF Result
    <3> QED BY <1>2, <3>1, <3>2, <3>3, <3>4 DEF CodeInv
  <2>12. CASE Dispatch /\ pc' = "action"
    <3>1. /\ DOMAIN stack' = DOMAIN stack
          /\ \A i \in DOMAIN stack : stack'[i].saved = stack[i].saved
          /\ UNCHANGED <<deadline, result, earliest, cancelled, now>>
      BY <1>2, <2>12, DispatchFacts, StackShape DEF ghosts, Dispatch
    <3> QED BY <1>2, <2>12, <3>1 DEF CodeInv
  <2>13. CASE \/ Refuse \/ (Return /\ Len(stack) = 1) \/ Escape
              \/ Tick \/ Cancel \/ Done \/ Probe \/ FinalObserve \/ UNCHANGED vars
              \/ Preflight /\ pc' = "dispatch"
    <3>1. /\ stack' = stack \/ stack' = <<>>
          /\ UNCHANGED earliest
          /\ \/ UNCHANGED deadline
             \/ pc = "preflight" /\ deadline' = Top.saved
          /\ \/ result'.code \in {result.code, "failed"}
             \/ result'.code = "cancelled" /\ cancelled
      <4>1. CASE Refuse
        BY <4>1 DEF Refuse, ghosts, Result
      <4>2. CASE FinalObserve
        <5>1. result \in [code : Codes, receipts : Seq(Receipts), image : BOOLEAN]
          BY <1>2 DEF TypeInv, TypeOK
        <5> QED BY <4>2, <5>1 DEF FinalObserve, ghosts
      <4>3. CASE Escape
        BY <4>3 DEF Escape, Result
      <4>4. CASE \/ (Return /\ Len(stack) = 1) \/ Tick \/ Cancel \/ Done \/ Probe
                 \/ UNCHANGED vars \/ (Preflight /\ pc' = "dispatch")
        BY <4>4 DEF Return, Tick, Cancel, Done, Probe, Preflight, vars, ghosts,
                    Settled, Conclude, AfterActions
      <4> QED BY <2>13, <4>1, <4>2, <4>3, <4>4
    <3>2. pc = "preflight" => earliest <= Top.saved
      BY <1>2, CurrentShape DEF CodeInv, Top
    <3>3. earliest' <= deadline' /\ \A i \in DOMAIN stack' : earliest' <= stack'[i].saved
      BY <1>2, <2>1, <3>1, <3>2 DEF CodeInv
    <3>4. /\ result'.code = "cancelled" => cancelled'
          /\ result'.code = "deadline_exceeded" => earliest' <= now'
      BY <1>2, <2>1, <3>1 DEF CodeInv
    <3>5. ASSUME pc' = "interrupted" PROVE Interrupted'
      <4>1. Interrupted /\ UNCHANGED deadline
        BY <1>2, <2>13, <3>5 DEF CodeInv, Refuse, Return, Escape, Tick, Cancel, Done, Probe,
             FinalObserve, Preflight, vars, Settled, Conclude, AfterActions
      <4> QED BY <2>1, <4>1 DEF Interrupted, Expired
    <3> QED BY <3>3, <3>4, <3>5 DEF CodeInv
  <2> QED BY <1>2, <2>5, <2>6, <2>7, <2>8, <2>9, <2>10, <2>11, <2>12, <2>13, WhatSettles
<1> QED BY <1>1, <1>2, TypeInvariant, PTL DEF Spec


-----------------------------------------------------------------------------
(* ... and, when it is complete, what was done.                            *)

(* Between a node and the end of it there is no action but its own.        *)
LEMMA AllBeforeNext ==
  ASSUME TypeInv, NEW n \in DOMAIN plan, n = Current, pc \in {"action", "interrupted"},
         AllBefore(n), Ran("ok"), UNCHANGED plan
  PROVE  AllBefore(n + 1)'
<1>1. /\ n \in Leaves /\ n \in Nat /\ \A m \in Leaves : m \in Nat
      /\ Leaves' = Leaves
  BY PlanShape DEF TypeInv, TypeOK, NestInv, Leaves
<1>2. \A m \in Leaves : m < n + 1 <=> m < n \/ m = n
  BY <1>1
<1> DEFINE e == Receipt(n, "ok", FALSE)
<1>3. e.node = n /\ e.status = "ok"
  BY DEF Receipt
<1> HIDE DEF e
<1>4. /\ \A k \in DOMAIN ran : k \in DOMAIN ran' /\ ran'[k] = ran[k]
      /\ Len(ran) + 1 \in DOMAIN ran'
      /\ ran'[Len(ran) + 1] = e
      /\ \A k \in DOMAIN ran' : k \in DOMAIN ran \/ k = Len(ran) + 1
  BY RanKeeps DEF e
<1>5. {ran'[k].node : k \in DOMAIN ran'} = {ran[k].node : k \in DOMAIN ran} \cup {n}
  BY <1>3, <1>4
<1>6. \A k \in DOMAIN ran' : ran'[k].status = "ok"
  BY <1>3, <1>4 DEF AllBefore
<1>7. {m \in Leaves : m < n + 1} = {m \in Leaves : m < n} \cup {n}
  BY <1>1, <1>2
<1> QED BY <1>1, <1>5, <1>6, <1>7 DEF AllBefore

LEMMA OverAtTheEnd ==
  ASSUME TypeInv, pc \notin {"entry", "done"}, ActionsOver
  PROVE  Current = plan[Top.node].last + 1
<1>1. /\ Len(stack) \in DOMAIN stack /\ Current \in Nat /\ plan[Top.node].last \in Nat
      /\ Top.node \in DOMAIN plan
  BY CurrentShape
<1>2. Current \in Top.node + 1 .. plan[Top.node].last + 1
  BY <1>1 DEF TypeInv, NestInv, Current, Top
<1>3. Top.node \in Nat
  BY <1>1, PlanShape DEF TypeInv, TypeOK
<1> QED BY <1>1, <1>2, <1>3 DEF ActionsOver

LEMMA RanInvariant == Spec => []RanInv
<1>1. Init => RanInv
  BY DEF Init, RanInv, Looping, Leaving
<1>2. ASSUME TypeInv, TypeInv', RanInv, [Next]_vars PROVE RanInv'
  <2>1. UNCHANGED plan /\ Leaves' = Leaves /\ plan \in Plans
    BY <1>2, PlanStays DEF TypeInv, TypeOK
  <2>2. ASSUME NEW n, AllBefore(n), UNCHANGED ran PROVE AllBefore(n)'
    BY <2>1, <2>2 DEF AllBefore
  <2>3. ASSUME NEW s, NEW code, NEW inner, NEW image, Settles(s, code, inner, image),
               code = "ok" => \E n : n = plan[stack[Len(s)].at].last + 1 /\ AllBefore(n)'
        PROVE  RanInv'
    <3> DEFINE k == Len(s)
               told == Told(stack[k], code, inner, image)
    <3>1. SettledAt(k, code, told)
      BY <1>2, <2>3, SettledFacts DEF Settles
    <3>2. /\ code = "ok" => pc' = "check"
          /\ code # "ok" => pc' \in {"observe", "return"} /\ result'.code = code
      BY <1>2, <2>3, SettlesFrame
    <3>3. ASSUME code = "ok" PROVE Current' = plan[stack[k].at].last + 1
      <4> HIDE DEF told, k
      <4>1. /\ Len(stack') = k
            /\ stack'[k] = [stack[k] EXCEPT !.receipts = told, !.at = plan[stack[k].at].last + 1]
        BY <3>1, <3>3 DEF SettledAt
      <4>2. stack[k] \in Batches
        BY <1>2, <2>3, SettlesFrame, StackShape DEF k
      <4> QED BY <4>1, <4>2 DEF Current, Top, Batches
    <3>4. CASE code = "ok"
      <4>1. PICK n : n = Current' /\ AllBefore(n)'
        BY <2>3, <3>3, <3>4
      <4>2. AllBefore(Current)'
        BY <4>1 DEF AllBefore
      <4> QED BY <3>2, <3>4, <4>2 DEF RanInv, Leaving
    <3>5. CASE code # "ok"
      BY <3>2, <3>5 DEF RanInv, Looping
    <3> QED BY <3>4, <3>5
  <2>4. ASSUME UNCHANGED ran, Current' = Current,
               Looping' => Looping,
               Leaving' /\ result'.code = "ok" =>
                 /\ (Looping /\ ActionsOver) \/ (Leaving /\ result.code = "ok")
                 /\ plan[Top.node].last = (plan[Top.node].last)',
               pc' \notin {"entry", "done"}
        PROVE  RanInv'
    <3>1. AllBefore(Current) => AllBefore(Current)'
      BY <2>1, <2>4 DEF AllBefore
    <3>2. ActionsOver /\ plan[Top.node].last = (plan[Top.node].last)' => ActionsOver'
      BY <2>4 DEF ActionsOver
    <3> QED BY <1>2, <2>4, <3>1, <3>2 DEF RanInv
  <2>5. CASE \/ Preflight /\ Settles(stack, "failed", <<>>, FALSE)
             \/ Report /\ Settles(stack, Interruption, <<>>, FALSE)
             \/ Dispatch /\ Settles(stack, Interruption, <<>>, FALSE)
    BY <2>3, <2>5 DEF Interruption
  <2>6. ASSUME NEW code \in {"ok", "failed"}, ActionEnds \/ ObserveEnds, Ran(code),
               Settles(stack, code, <<>>, FALSE)
        PROVE  RanInv'
    <3>1. CASE code = "ok"
      <4>1. pc = "action" /\ Looping /\ AtAnAction
        BY <2>6 DEF ActionEnds, ObserveEnds, Looping, AtAnAction
      <4>2. PICK n \in DOMAIN plan : n = Current
        BY <1>2, <4>1, CurrentShape
      <4>3. AllBefore(n + 1)'
        BY <1>2, <2>1, <2>6, <3>1, <4>1, <4>2, AllBeforeNext DEF RanInv
      <4>4. plan[stack[Len(stack)].at].last = n
        BY <1>2, <2>1, <4>1, <4>2, PlanShape DEF TypeInv, NestInv, Current, Top
      <4> QED BY <2>3, <2>6, <4>3, <4>4
    <3>2. CASE code = "failed"
      BY <2>3, <2>6, <3>2
    <3> QED BY <2>6, <3>1, <3>2
  <2>7. CASE Return /\ Len(stack) > 1 /\ UNCHANGED ran
             /\ Settles(SubSeq(stack, 1, Len(stack) - 1), result.code, result.receipts,
                        result.image)
    <3> DEFINE s == SubSeq(stack, 1, Len(stack) - 1)
    <3>1. /\ Len(stack) \in Nat /\ Len(s) = Len(stack) - 1
          /\ Len(stack) - 1 + 1 = Len(stack) /\ Len(stack) - 1 \in 1 .. Len(stack) - 1
      BY <1>2, <2>7, OuterShape, StackShape
    <3>2. Top.node = stack[Len(s)].at
      BY <1>2, <3>1 DEF TypeInv, NestInv, Top
    <3>3. ASSUME result.code = "ok"
          PROVE  \E n : n = plan[stack[Len(s)].at].last + 1 /\ AllBefore(n)'
      <4>1. AllBefore(Current) /\ ActionsOver
        BY <1>2, <2>7, <3>3 DEF RanInv, Leaving, Return
      <4>2. Current = plan[Top.node].last + 1
        BY <1>2, <2>7, <4>1, OverAtTheEnd DEF Return
      <4>3. PICK n : n = Current
        OBVIOUS
      <4>4. AllBefore(n)'
        BY <2>2, <2>7, <4>1, <4>3
      <4> QED BY <3>2, <4>2, <4>3, <4>4
    <3> HIDE DEF s
    <3>4. Settles(s, result.code, result.receipts, result.image)
      BY <2>7 DEF s
    <3> QED BY <2>3, <3>3, <3>4
  <2>8. CASE Admit \/ (Dispatch /\ plan[Current].op = "batch" /\ Push(Current))
    <3>1. PICK n \in DOMAIN plan : /\ Push(n) /\ plan[n].op = "batch" /\ UNCHANGED ran
                                   /\ AllBefore(n)
      <4>1. CASE Admit
        <5>1. 1 \in DOMAIN plan /\ plan[1].op = "batch" /\ DOMAIN plan = 1 .. Len(plan)
          BY <2>1, PlanShape
        <5>2. ran = <<>> /\ {m \in Leaves : m < 1} = {}
          BY <1>2, <4>1, <5>1 DEF RanInv, Admit, Leaves
        <5>3. AllBefore(1)
          BY <5>2 DEF AllBefore
        <5> QED BY <4>1, <5>1, <5>3 DEF Admit
      <4>2. CASE Dispatch /\ plan[Current].op = "batch" /\ Push(Current)
        <5>1. pc = "dispatch" /\ Looping /\ AtAnAction
          BY <4>2 DEF Dispatch, Looping, AtAnAction
        <5>2. UNCHANGED ran
          BY <4>2 DEF Dispatch, ghosts
        <5> QED BY <1>2, <4>2, <5>1, <5>2, CurrentShape DEF RanInv
      <4> QED BY <2>8, <4>1, <4>2
    <3>2. Current' = n + 1 /\ pc' = "check"
      <4> DEFINE e == [node |-> n, at |-> n + 1, receipts |-> <<>>, saved |-> deadline,
                       due |-> Due(plan[n].ms), late |-> 0]
      <4>1. /\ Len(stack') = Len(stack) + 1 /\ stack'[Len(stack) + 1] = e
            /\ pc' = "check"
        BY <1>2, <3>1, PushFacts
      <4> QED BY <4>1 DEF Current, Top
    <3>3. {m \in Leaves : m < n + 1} = {m \in Leaves : m < n}
      <4>1. /\ n \notin Leaves /\ n \in Nat /\ \A m \in Leaves : m \in Nat
        BY <2>1, <3>1, PlanShape DEF Leaves
      <4> QED BY <4>1
    <3>4. AllBefore(Current)'
      BY <2>1, <3>1, <3>2, <3>3 DEF AllBefore
    <3> QED BY <3>2, <3>4 DEF RanInv, Leaving
  <2>9. CASE Check
    <3>1. /\ UNCHANGED <<ran, stack>> /\ Looping
          /\ pc' \notin {"entry", "done"}
          /\ Leaving' /\ result'.code = "ok" => ActionsOver
      BY <1>2, <2>9, CheckForms DEF Check, ghosts, Looping, Leaving, Result
    <3> QED BY <2>1, <2>4, <3>1 DEF Current, Top
  <2>10. CASE Dispatch /\ pc' = "action"
    <3>1. /\ Len(stack') = Len(stack) /\ Len(stack) \in DOMAIN stack
          /\ stack'[Len(stack)].at = stack[Len(stack)].at
          /\ UNCHANGED ran /\ Looping
      BY <1>2, <2>10, DispatchFacts, CurrentShape DEF Dispatch, ghosts, Looping
    <3> QED BY <2>4, <2>10, <3>1 DEF Current, Top, Leaving
  <2>11. CASE Refuse \/ (Return /\ Len(stack) = 1)
    <3>1. CASE Refuse
      BY <3>1 DEF Refuse, RanInv, Looping, Leaving, Result
    <3>2. CASE Return /\ Len(stack) = 1
      <4>1. /\ pc' = "done" /\ UNCHANGED <<ran, result>> /\ pc = "return" /\ Leaving
        BY <3>2 DEF Return, ghosts, Leaving
      <4>2. ASSUME result.code = "ok" PROVE AllBefore(Len(plan) + 1)'
        <5>1. AllBefore(Current) /\ ActionsOver
          BY <1>2, <4>1, <4>2 DEF RanInv
        <5>2. Current = plan[Top.node].last + 1
          BY <1>2, <4>1, <5>1, OverAtTheEnd
        <5>3. Top.node = 1 /\ plan[1].last = Len(plan)
          BY <1>2, <2>1, <3>2, <4>1, PlanShape, CurrentShape DEF TypeInv, NestInv, Top
        <5> QED BY <2>1, <4>1, <5>1, <5>2, <5>3 DEF AllBefore
      <4> QED BY <4>1, <4>2 DEF RanInv, Looping, Leaving
    <3> QED BY <2>11, <3>1, <3>2
  <2>12. CASE \/ Escape
              \/ Tick \/ Cancel \/ Done \/ Probe \/ FinalObserve \/ UNCHANGED vars
              \/ Preflight /\ pc' = "dispatch"
    <3>1. /\ UNCHANGED <<ran, stack>>
          /\ \/ pc' = pc
             \/ pc = "preflight" /\ pc' = "dispatch"
             \/ pc = "action" /\ pc' = "interrupted"
             \/ pc = "observe" /\ pc' = "return"
             \/ pc = "preflight" /\ pc' = "return" /\ result'.code = "failed"
          /\ result'.code # "failed" => result'.code = result.code
      <4>1. result \in [code : Codes, receipts : Seq(Receipts), image : BOOLEAN]
        BY <1>2 DEF TypeInv, TypeOK
      <4>2. CASE FinalObserve
        BY <4>1, <4>2 DEF FinalObserve, ghosts
      <4>3. CASE Escape
        BY <4>3 DEF Escape, Result
      <4>4. CASE \/ Tick \/ Cancel \/ Done \/ Probe
                 \/ UNCHANGED vars \/ (Preflight /\ pc' = "dispatch")
        BY <4>4 DEF Tick, Cancel, Done, Probe, Preflight, vars, ghosts,
                    Settled, Conclude, AfterActions
      <4> QED BY <2>12, <4>2, <4>3, <4>4
    <3>2. CASE pc' \in {"entry", "done"}
      BY <1>2, <2>1, <3>1, <3>2 DEF RanInv, Looping, Leaving, AllBefore
    <3>3. CASE pc' \notin {"entry", "done"}
      BY <2>1, <2>4, <3>1, <3>3 DEF Looping, Leaving, Current, Top
    <3> QED BY <3>2, <3>3
  <2> QED BY <1>2, <2>5, <2>6, <2>7, <2>8, <2>9, <2>10, <2>11, <2>12, WhatSettles
<1> QED BY <1>1, <1>2, TypeInvariant, PTL DEF Spec


(* Complete means every action ran and succeeded, cancelled that the       *)
(* client asked for it, and deadline_exceeded that some deadline of the    *)
(* call has passed.                                                        *)
THEOREM TrueOutcome == Spec => []OutcomeTrue
<1>1. ASSUME TypeInv, CodeInv, RanInv PROVE OutcomeTrue
  <2>1. ASSUME pc = "done", result.code = "ok"
        PROVE  /\ {ran[i].node : i \in DOMAIN ran} = Leaves
               /\ \A i \in DOMAIN ran : ran[i].status = "ok"
    <3>1. AllBefore(Len(plan) + 1)
      BY <1>1, <2>1 DEF RanInv
    <3>2. /\ Len(plan) \in Nat /\ \A m \in Leaves : m \in 1 .. Len(plan)
      BY <1>1, PlanShape DEF TypeInv, TypeOK, Leaves
    <3>3. {m \in Leaves : m < Len(plan) + 1} = Leaves
      BY <3>2
    <3> QED BY <3>1, <3>3 DEF AllBefore
  <2> QED BY <1>1, <2>1 DEF CodeInv, OutcomeTrue
<1> QED BY <1>1, TypeInvariant, CodeInvariant, RanInvariant, PTL

-----------------------------------------------------------------------------
(* The receipts.                                                           *)

(* t is r, the receipts a batch had, then those of its action, then that   *)
(* action's own.                                                           *)
IsJoined(t, r, inner, e) ==
  /\ t \in Seq(Receipts) /\ r \in Seq(Receipts) /\ inner \in Seq(Receipts) /\ e \in Receipts
  /\ Len(t) = Len(r) + Len(inner) + 1
  /\ \A i \in DOMAIN r : t[i] = r[i]
  /\ \A i \in Len(r) + 1 .. Len(r) + Len(inner) : t[i] = inner[i - Len(r)]
  /\ t[Len(t)] = e

LEMMA Joins ==
  ASSUME NEW r \in Seq(Receipts), NEW inner \in Seq(Receipts), NEW e \in Receipts
  PROVE  IsJoined(r \o inner \o <<e>>, r, inner, e)
<1> DEFINE t == r \o inner \o <<e>>
<1>1. /\ t \in Seq(Receipts)
      /\ Len(t) = Len(r) + Len(inner) + 1
      /\ \A i \in 1 .. Len(r) : t[i] = r[i]
      /\ \A i \in Len(r) + 1 .. Len(r) + Len(inner) : t[i] = inner[i - Len(r)]
      /\ t[Len(r) + Len(inner) + 1] = e
  BY JoinKeeps
<1>2. DOMAIN r = 1 .. Len(r)
  OBVIOUS
<1> HIDE DEF t
<1> QED BY <1>1, <1>2 DEF IsJoined

LEMMA Joined ==
  ASSUME NEW t, NEW r, NEW inner, NEW e, IsJoined(t, r, inner, e)
  PROVE  /\ Len(r) \in Nat /\ Len(inner) \in Nat /\ Len(t) = Len(r) + Len(inner) + 1
         /\ DOMAIN r = 1 .. Len(r) /\ DOMAIN inner = 1 .. Len(inner) /\ DOMAIN t = 1 .. Len(t)
         /\ Len(t) \in DOMAIN t /\ t[Len(t)] = e
         /\ \A i \in DOMAIN r : i \in DOMAIN t /\ t[i] = r[i]
         /\ \A a \in DOMAIN inner : Len(r) + a \in DOMAIN t /\ t[Len(r) + a] = inner[a]
         /\ \A i \in DOMAIN t :
              \/ i \in DOMAIN r /\ t[i] = r[i]
              \/ i \notin DOMAIN r /\ i - Len(r) \in DOMAIN inner /\ t[i] = inner[i - Len(r)]
              \/ i = Len(t) /\ t[i] = e
<1>1. /\ Len(r) \in Nat /\ Len(inner) \in Nat /\ Len(t) = Len(r) + Len(inner) + 1
      /\ DOMAIN r = 1 .. Len(r) /\ DOMAIN inner = 1 .. Len(inner) /\ DOMAIN t = 1 .. Len(t)
  BY DEF IsJoined
<1>2. /\ t[Len(t)] = e
      /\ \A i \in DOMAIN r : t[i] = r[i]
      /\ \A i \in Len(r) + 1 .. Len(r) + Len(inner) : t[i] = inner[i - Len(r)]
  BY DEF IsJoined
<1>3. ASSUME NEW a \in DOMAIN inner
      PROVE  /\ Len(r) + a \in Len(r) + 1 .. Len(r) + Len(inner)
             /\ Len(r) + a \in DOMAIN t /\ Len(r) + a - Len(r) = a
  BY <1>1
<1>4. ASSUME NEW i \in DOMAIN t
      PROVE  \/ i \in DOMAIN r
             \/ i \notin DOMAIN r /\ i - Len(r) \in DOMAIN inner
                  /\ i \in Len(r) + 1 .. Len(r) + Len(inner)
             \/ i = Len(t)
  BY <1>1
<1>5. Len(t) \in DOMAIN t /\ \A i \in DOMAIN r : i \in DOMAIN t
  BY <1>1
<1> QED BY <1>1, <1>2, <1>3, <1>4, <1>5

LEMMA JoinedAmong ==
  ASSUME NEW t, NEW r, NEW inner, NEW e, IsJoined(t, r, inner, e), NEW x
  PROVE  Among(x, t) <=> Among(x, r) \/ Among(x, inner) \/ x = e
  BY Joined DEF Among

LEMMA JoinedKeeps ==
  ASSUME plan \in Plans,
         NEW t, NEW r, NEW inner, NEW e, IsJoined(t, r, inner, e),
         NEW lo \in Nat, NEW hi \in Nat, lo < e.node, e.node < hi,
         Increasing(r), Within(r, lo, e.node),
         Increasing(inner), Within(inner, e.node, hi),
         inner = <<>> \/ ~OfAction(e)
  PROVE  /\ Increasing(t) /\ Within(t, lo, hi)
         /\ LastOfActions(Len(t), t)
         /\ \A a \in DOMAIN inner : LastOfActions(a, inner) =>
              LastOfActions(Len(r) + a, t) \/ inner = <<>>
<1>1. /\ Len(t) = Len(r) + Len(inner) + 1
      /\ Len(r) \in Nat /\ Len(inner) \in Nat
      /\ DOMAIN r = 1 .. Len(r) /\ DOMAIN inner = 1 .. Len(inner) /\ DOMAIN t = 1 .. Len(t)
      /\ r \in Seq(Receipts) /\ inner \in Seq(Receipts) /\ e \in Receipts
  BY Joined DEF IsJoined
<1>2. /\ t[Len(t)] = e
      /\ \A i \in DOMAIN r : t[i] = r[i]
      /\ \A i \in DOMAIN t :
           \/ i \in DOMAIN r /\ t[i] = r[i]
           \/ i \notin DOMAIN r /\ i - Len(r) \in DOMAIN inner /\ t[i] = inner[i - Len(r)]
           \/ i = Len(t) /\ t[i] = e
  BY Joined
<1>3. /\ e.node \in Nat
      /\ \A a \in DOMAIN r : r[a].node \in Nat /\ r[a].node > lo /\ r[a].node < e.node
      /\ \A a \in DOMAIN inner : inner[a].node \in Nat /\ inner[a].node > e.node
                                                       /\ inner[a].node < hi
  <2>1. DOMAIN plan \subseteq Nat
    BY PlanShape
  <2>2. \A x \in Receipts : x.node \in Nat
    BY <2>1 DEF Receipts
  <2> QED BY <1>1, <2>2 DEF Within
<1>4. ASSUME NEW i \in DOMAIN t PROVE lo < t[i].node /\ t[i].node < hi
  BY <1>2, <1>3
<1>5. ASSUME NEW i \in DOMAIN t, NEW j \in DOMAIN t, i < j, OfAction(t[i]), OfAction(t[j])
      PROVE  t[i].node < t[j].node
  <2>1. CASE j \in DOMAIN r
    <3>1. i \in DOMAIN r
      BY <1>1, <1>5, <2>1
    <3> QED BY <1>2, <1>5, <2>1, <3>1 DEF Increasing
  <2>2. CASE j \notin DOMAIN r /\ j - Len(r) \in DOMAIN inner /\ t[j] = inner[j - Len(r)]
    <3>1. CASE i \in DOMAIN r
      BY <1>2, <1>3, <2>2, <3>1
    <3>2. CASE i \notin DOMAIN r
      <4>1. i - Len(r) < j - Len(r) /\ i # Len(t)
        BY <1>1, <1>5, <2>2
      <4>2. i - Len(r) \in DOMAIN inner /\ t[i] = inner[i - Len(r)]
        BY <1>2, <3>2, <4>1
      <4> QED BY <1>5, <2>2, <4>1, <4>2 DEF Increasing
    <3> QED BY <3>1, <3>2
  <2>3. CASE j = Len(t) /\ t[j] = e
    <3>1. inner = <<>> /\ i # Len(t)
      BY <1>1, <1>5, <2>3
    <3>2. i \in DOMAIN r
      BY <1>1, <1>2, <3>1
    <3> QED BY <1>2, <1>3, <2>3, <3>2
  <2> QED BY <1>2, <2>1, <2>2, <2>3
<1>6. ASSUME NEW a \in DOMAIN inner, LastOfActions(a, inner), inner # <<>>,
             NEW j \in DOMAIN t, OfAction(t[j])
      PROVE  j <= Len(r) + a
  <2>1. t[j] # e
    BY <1>6
  <2>2. CASE j \in DOMAIN r
    BY <1>1, <1>6, <2>2
  <2>3. CASE j - Len(r) \in DOMAIN inner /\ t[j] = inner[j - Len(r)]
    <3>1. j - Len(r) <= a
      BY <1>6, <2>3 DEF LastOfActions
    <3> QED BY <1>1, <1>6, <2>3, <3>1
  <2> QED BY <1>2, <2>1, <2>2, <2>3
<1>7. \A j \in DOMAIN t : j <= Len(t)
  BY <1>1
<1> QED BY <1>4, <1>5, <1>6, <1>7 DEF Increasing, Within, LastOfActions


(* The receipts of the k outermost batches, those an action of batch k     *)
(* brings, and the actions that were dispatched when it has ended.         *)
KeptUpTo(k) ==
  \A i \in 1 .. k : /\ Increasing(stack[i].receipts)
                    /\ Within(stack[i].receipts, stack[i].node, stack[i].at)
                    /\ AllIn(stack[i].receipts, ran)
Earned(inner, n, code) ==
  /\ Increasing(inner) /\ Within(inner, n, plan[n].last + 1)
  /\ inner = <<>> \/ plan[n].op = "batch"
  /\ AllButLastIn(inner, ran)
  /\ code = "ok" => AllIn(inner, ran)
Grows(k, n, code, inner, e, rn) ==
  /\ \A x : Among(x, ran) => Among(x, rn)
  /\ \A x : Among(x, rn) =>
       \/ Among(x, inner) \/ x = e
       \/ \E i \in 1 .. k : Among(x, stack[i].receipts)
  /\ Among(e, rn) \/ code # "ok" \/ plan[n].op = "batch"

LEMMA SettlesKept ==
  ASSUME TypeInv, TypeInv', UNCHANGED plan,
         NEW s, NEW code, NEW inner, NEW image, Settles(s, code, inner, image),
         NEW k, k = Len(s), NEW n, n = stack[k].at,
         NEW e, e = Receipt(n, code, image), NEW rn, rn = ran',
         KeptUpTo(k), Earned(inner, n, code), Grows(k, n, code, inner, e, rn)
  PROVE  Kept'
<1> SUFFICES ASSUME \A i \in 1 .. k : /\ Increasing(stack[i].receipts)
                                      /\ Within(stack[i].receipts, stack[i].node, stack[i].at)
                                      /\ AllIn(stack[i].receipts, ran),
                    Increasing(inner), Within(inner, n, plan[n].last + 1),
                    inner = <<>> \/ plan[n].op = "batch",
                    AllButLastIn(inner, ran), code = "ok" => AllIn(inner, ran),
                    \A x : Among(x, ran) => Among(x, rn),
                    \A x : Among(x, rn) =>
                      \/ Among(x, inner) \/ x = e
                      \/ \E i \in 1 .. k : Among(x, stack[i].receipts),
                    \/ Among(e, rn) \/ code # "ok" \/ plan[n].op = "batch"
             PROVE  Kept'
  BY DEF KeptUpTo, Earned, Grows
<1>1. PICK r, told : r = stack[k].receipts /\ told = Told(stack[k], code, inner, image)
  OBVIOUS
<1>2. /\ k \in Nat /\ k >= 1 /\ k \in DOMAIN stack /\ Len(stack') = k /\ DOMAIN stack' = 1 .. k
      /\ n \in DOMAIN plan /\ told \in Seq(Receipts)
      /\ \A i \in 1 .. k : i \in DOMAIN stack /\ stack'[i].node = stack[i].node
      /\ \A i \in 1 .. k - 1 : stack'[i] = stack[i]
      /\ \A i \in 1 .. k : i = k \/ i \in 1 .. k - 1
  <2>1. SettledAt(k, code, told)
    BY <1>1, SettledFacts DEF Settles
  <2>2. /\ k \in Nat /\ k >= 1 /\ k \in DOMAIN stack /\ Len(stack') = k /\ DOMAIN stack' = 1 .. k
        /\ \A i \in 1 .. k : i \in DOMAIN stack /\ stack'[i].node = stack[i].node
    BY SettlesFrame
  <2>3. \A i \in 1 .. k : i = k \/ i \in 1 .. k - 1
    BY <2>2
  <2> QED BY <2>1, <2>2, <2>3 DEF SettledAt
<1>3. /\ code = "ok" =>
           /\ pc' = "check"
           /\ stack'[k].receipts = told /\ stack'[k].at = plan[n].last + 1
      /\ code # "ok" =>
           /\ pc' \in {"observe", "return"} /\ stack'[k] = stack[k]
           /\ result'.receipts = told /\ result'.code # "ok"
  <2>1. SettledAt(k, code, told)
    BY <1>1, SettledFacts DEF Settles
  <2>2. stack[k] \in Batches
    BY <1>2, StackShape
  <2>3. code # "ok" => /\ pc' \in {"observe", "return"} /\ stack'[k] = stack[k]
                       /\ result' = Result(code, told, FALSE)
    BY <2>1 DEF SettledAt
  <2>4. code = "ok" =>
          /\ pc' = "check"
          /\ stack'[k] = [stack[k] EXCEPT !.receipts = told, !.at = plan[n].last + 1]
    BY <2>1 DEF SettledAt
  <2>5. code = "ok" => stack'[k].receipts = told /\ stack'[k].at = plan[n].last + 1
    BY <2>2, <2>4 DEF Batches
  <2> QED BY <2>3, <2>4, <2>5 DEF Result
<1>4. IsJoined(told, r, inner, e)
  <2>1. r \in Seq(Receipts) /\ inner \in Seq(Receipts) /\ e \in Receipts
    BY <1>1, <1>2, StackShape, ReceiptShape DEF Settles
  <2>2. told = r \o inner \o <<e>>
    BY <1>1 DEF Told
  <2> QED BY <2>1, <2>2, Joins
<1>5. /\ e.node = n /\ e.status = IF code = "ok" THEN "ok" ELSE "failed"
      /\ stack[k].node \in Nat /\ stack[k].node < n /\ n \in Nat
      /\ plan[n].last \in Nat /\ n < plan[n].last + 1 /\ plan \in Plans
      /\ plan[stack[k].node].last \in Nat /\ plan[n].last <= plan[stack[k].node].last
  <2>1. /\ stack[k].node \in DOMAIN plan /\ plan \in Plans
        /\ stack[k].at \in stack[k].node + 1 .. plan[stack[k].node].last + 1
        /\ stack[k].at <= plan[stack[k].node].last
    BY <1>2, StackShape DEF TypeInv, TypeOK, NestInv, Settles, Outer
  <2>2. /\ stack[k].node \in Nat /\ plan[stack[k].node].last \in Nat /\ n \in Nat
        /\ plan[n].last \in n .. Len(plan) /\ Len(plan) \in Nat
    BY <1>2, <2>1, PlanShape
  <2>3. n \in stack[k].node .. plan[stack[k].node].last
    BY <2>1, <2>2
  <2>4. plan[n].last <= plan[stack[k].node].last
    BY <2>1, <2>3, PlanShape
  <2>5. e.node = n /\ e.status = IF code = "ok" THEN "ok" ELSE "failed"
    BY <1>2, ReceiptShape DEF Settles
  <2> QED BY <2>1, <2>2, <2>4, <2>5
<1>6. /\ Increasing(told) /\ Within(told, stack[k].node, plan[n].last + 1)
      /\ LastOfActions(Len(told), told)
      /\ \A a \in DOMAIN inner : LastOfActions(a, inner) =>
           LastOfActions(Len(r) + a, told) \/ inner = <<>>
  <2>1. /\ Increasing(r) /\ Within(r, stack[k].node, e.node)
        /\ Within(inner, e.node, plan[n].last + 1)
        /\ inner = <<>> \/ ~OfAction(e)
    BY <1>1, <1>2, <1>5 DEF OfAction
  <2>2. PICK lo, hi : lo = stack[k].node /\ hi = plan[n].last + 1
    OBVIOUS
  <2>3. lo \in Nat /\ hi \in Nat /\ lo < e.node /\ e.node < hi
    BY <1>5, <2>2
  <2> QED BY <1>4, <1>5, <2>1, <2>2, <2>3, JoinedKeeps
<1>7. \A x : Among(x, told) <=> Among(x, r) \/ Among(x, inner) \/ x = e
  BY <1>4, JoinedAmong
<1>8. code = "ok" => AllIn(told, rn)
  <2>1. ASSUME code = "ok", NEW a \in DOMAIN told, OfAction(told[a]) PROVE Among(told[a], rn)
    <3>1. Among(told[a], told)
      BY DEF Among
    <3>2. CASE Among(told[a], r)
      <4>1. AllIn(r, ran)
        BY <1>1, <1>2
      <4>2. Among(told[a], ran)
        BY <2>1, <3>2, <4>1 DEF Among, AllIn
      <4> QED BY <4>2
    <3>3. CASE Among(told[a], inner)
      <4>1. Among(told[a], ran)
        BY <2>1, <3>3 DEF Among, AllIn
      <4> QED BY <4>1
    <3>4. CASE told[a] = e
      BY <1>5, <2>1, <3>4 DEF OfAction
    <3> QED BY <1>7, <3>1, <3>2, <3>3, <3>4
  <2> QED BY <2>1 DEF AllIn
<1>9. code # "ok" => AllButLastIn(told, rn)
  <2>1. ASSUME code # "ok", NEW a \in DOMAIN told, OfAction(told[a])
        PROVE  \/ Among(told[a], rn)
               \/ told[a].status = "failed" /\ LastOfActions(a, told)
    <3>1. CASE a \in DOMAIN r /\ told[a] = r[a]
      <4>1. AllIn(r, ran)
        BY <1>1, <1>2
      <4>2. Among(told[a], ran)
        BY <2>1, <3>1, <4>1 DEF AllIn
      <4> QED BY <4>2
    <3>2. CASE a - Len(r) \in DOMAIN inner /\ told[a] = inner[a - Len(r)]
      <4>1. \/ Among(told[a], ran)
            \/ told[a].status = "failed" /\ LastOfActions(a - Len(r), inner)
        BY <2>1, <3>2 DEF AllButLastIn
      <4>2. Len(r) + (a - Len(r)) = a /\ inner # <<>>
        <5>1. Len(r) \in Nat /\ a \in 1 .. Len(told) /\ Len(told) \in Nat
          BY <1>2, <1>4, Joined
        <5>2. Len(r) + (a - Len(r)) = a
          BY <5>1
        <5> QED BY <3>2, <5>2
      <4> QED BY <1>6, <3>2, <4>1, <4>2
    <3>3. CASE a = Len(told) /\ told[a] = e
      BY <1>5, <1>6, <2>1, <3>3
    <3> QED BY <1>4, <3>1, <3>2, <3>3, Joined
  <2> QED BY <2>1 DEF AllButLastIn
<1>10. \A x : Among(x, rn) => Among(x, told) \/ \E i \in 1 .. k - 1 : Among(x, stack[i].receipts)
  BY <1>1, <1>2, <1>7
<1>11. \A i \in 1 .. k : Level(i)' = IF i = k THEN told ELSE stack[i].receipts
  <2>1. ASSUME NEW i \in 1 .. k PROVE Level(i)' = IF i = k THEN told ELSE stack[i].receipts
    <3>1. CASE i = k
      BY <1>2, <1>3, <3>1 DEF Level, Leaving
    <3>2. CASE i # k
      BY <1>2, <3>2 DEF Level, Leaving
    <3> QED BY <3>1, <3>2
  <2> QED BY <2>1
<1>12. ASSUME NEW i \in 1 .. k
       PROVE  (/\ Increasing(Level(i))
               /\ Within(stack[i].receipts, stack[i].node, stack[i].at)
               /\ AllIn(stack[i].receipts, ran))'
  <2>1. PICK t, u : t = Level(i)' /\ u = stack'[i].receipts
    OBVIOUS
  <2>2. Increasing(t)
    BY <1>2, <1>6, <1>11, <2>1
  <2>3. Increasing(Level(i))'
    BY <2>1, <2>2 DEF Increasing, OfAction
  <2>4. AllIn(u, rn)
    <3>1. CASE i = k /\ code = "ok"
      BY <1>3, <1>8, <2>1, <3>1
    <3>2. CASE stack'[i] = stack[i]
      <4>1. AllIn(u, ran)
        BY <2>1, <3>2
      <4> QED BY <4>1 DEF AllIn
    <3> QED BY <1>2, <1>3, <3>1, <3>2
  <2>5. AllIn(stack[i].receipts, ran)'
    BY <2>1, <2>4 DEF AllIn, OfAction, Among
  <2>6. Within(stack[i].receipts, stack[i].node, stack[i].at)'
    <3>1. CASE i = k /\ code = "ok"
      BY <1>2, <1>3, <1>6, <3>1 DEF Within
    <3>2. CASE stack'[i] = stack[i]
      BY <3>2 DEF Within
    <3> QED BY <1>2, <1>3, <3>1, <3>2
  <2> QED BY <2>3, <2>5, <2>6
<1>13. ASSUME NEW j \in DOMAIN ran' PROVE (\E i \in DOMAIN stack : Among(ran[j], Level(i)))'
  <2>1. PICK x : x = ran'[j]
    OBVIOUS
  <2>2. Among(x, rn)
    BY <2>1 DEF Among
  <2>3. \E i \in 1 .. k : Among(x, Level(i)')
    <3>1. CASE Among(x, told)
      BY <1>2, <1>11, <3>1
    <3>2. ASSUME NEW i \in 1 .. k - 1, Among(x, stack[i].receipts)
          PROVE  \E m \in 1 .. k : Among(x, Level(m)')
      <4>1. i \in 1 .. k /\ i # k
        BY <1>2, <3>2
      <4> QED BY <1>11, <3>2, <4>1
    <3> QED BY <1>10, <2>2, <3>1, <3>2
  <2> QED BY <1>2, <2>1, <2>3 DEF Among
<1>14. Leaving' => (/\ Within(result.receipts, Top.node, plan[Top.node].last + 1)
                    /\ AllButLastIn(result.receipts, ran)
                    /\ result.code = "ok" => AllIn(result.receipts, ran))'
  <2>1. ASSUME code # "ok"
        PROVE  /\ Within(result.receipts, Top.node, plan[Top.node].last + 1)'
               /\ AllButLastIn(result.receipts, ran)'
    <3>1. Top'.node = stack[k].node
      BY <1>2, <1>3, <2>1 DEF Top
    <3>2. \A a \in DOMAIN told : told[a].node \in Nat
      <4>1. DOMAIN plan \subseteq Nat
        BY <1>5, PlanShape
      <4>2. \A a \in DOMAIN told : told[a] \in Receipts
        BY <1>2
      <4> QED BY <4>1, <4>2 DEF Receipts
    <3>3. Within(told, stack[k].node, plan[stack[k].node].last + 1)
      <4>1. PICK last, over : last = plan[n].last /\ over = plan[stack[k].node].last
        OBVIOUS
      <4>2. last \in Nat /\ over \in Nat /\ last <= over
        BY <1>5, <4>1
      <4>3. \A a \in DOMAIN told : stack[k].node < told[a].node /\ told[a].node < last + 1
        BY <1>6, <4>1 DEF Within
      <4>4. \A a \in DOMAIN told : told[a].node < over + 1
        BY <3>2, <4>2, <4>3
      <4> QED BY <4>1, <4>3, <4>4 DEF Within
    <3>4. Within(result.receipts, Top.node, plan[Top.node].last + 1)'
      BY <1>3, <2>1, <3>1, <3>3 DEF Within
    <3>5. AllButLastIn(told, rn)
      BY <1>9, <2>1
    <3>6. AllButLastIn(result.receipts, ran)'
      BY <1>3, <2>1, <3>5 DEF AllButLastIn, OfAction, Among, LastOfActions
    <3> QED BY <3>4, <3>6
  <2> QED BY <1>3, <2>1 DEF Leaving
<1>15. pc' # "done"
  BY <1>3
<1> QED BY <1>2, <1>12, <1>13, <1>14, <1>15 DEF Kept


(* The actions that were dispatched stand in the order of the request.     *)
RanOrder == Increasing(ran) /\ \A k \in DOMAIN ran : OfAction(ran[k])

LEMMA RanSteps ==
  ASSUME TypeInv, [Next]_vars
  PROVE  \/ UNCHANGED ran
         \/ \E code : Ran(code) /\ pc \in {"action", "interrupted"}
  BY DEF Next, Controller, Refuse, Tick, Cancel, Done, Probe, FinalObserve, Escape, Admit,
         Check, Preflight, Dispatch, ActionEnds, ObserveEnds, Report, Return, vars, ghosts, Push

LEMMA RanOrderKept ==
  ASSUME TypeInv, RanInv, RanOrder, [Next]_vars
  PROVE  RanOrder'
<1>1. UNCHANGED plan
  BY PlanStays
<1>2. CASE UNCHANGED ran
  BY <1>1, <1>2 DEF RanOrder, Increasing, OfAction
<1>3. ASSUME NEW code, Ran(code), pc \in {"action", "interrupted"} PROVE RanOrder'
  <2>1. /\ Current \in DOMAIN plan /\ plan[Current].op # "batch" /\ AllBefore(Current)
    BY <1>3, CurrentShape DEF TypeInv, NestInv, AtAnAction, RanInv, Looping
  <2>2. PICK n, e : n = Current /\ e = Receipt(n, code, FALSE)
    OBVIOUS
  <2>3. e.node = n /\ n \in Nat
    BY <2>1, <2>2, ReceiptShape, PlanShape DEF TypeInv, TypeOK
  <2>4. /\ \A k \in DOMAIN ran : k \in DOMAIN ran' /\ ran'[k] = ran[k]
        /\ ran'[Len(ran) + 1] = e
        /\ \A k \in DOMAIN ran' : k \in DOMAIN ran \/ k = Len(ran) + 1
        /\ \A k \in DOMAIN ran : k < Len(ran) + 1
        /\ Len(ran) \in Nat /\ DOMAIN ran = 1 .. Len(ran)
    <3>1. Len(ran) \in Nat /\ DOMAIN ran = 1 .. Len(ran)
      BY DEF TypeInv, TypeOK
    <3> QED BY <1>3, <2>1, <2>2, <3>1, RanKeeps
  <2>5. \A k \in DOMAIN ran : ran[k].node < n
    <3>1. \A k \in DOMAIN ran : ran[k].node \in {ran[j].node : j \in DOMAIN ran}
      OBVIOUS
    <3> QED BY <2>1, <2>2, <3>1 DEF AllBefore
  <2>6. ASSUME NEW k \in DOMAIN ran' PROVE plan[ran'[k].node].op # "batch"
    BY <2>1, <2>2, <2>3, <2>4 DEF RanOrder, OfAction
  <2>7. ASSUME NEW i \in DOMAIN ran', NEW j \in DOMAIN ran', i < j
        PROVE  ran'[i].node < ran'[j].node
    <3>1. i \in DOMAIN ran
      BY <2>4, <2>7
    <3>2. CASE j \in DOMAIN ran
      BY <2>4, <2>7, <3>1, <3>2 DEF RanOrder, Increasing
    <3>3. CASE j = Len(ran) + 1
      BY <2>3, <2>4, <2>5, <3>1, <3>3
    <3> QED BY <2>4, <3>2, <3>3
  <2> QED BY <1>1, <2>6, <2>7 DEF RanOrder, Increasing, OfAction
<1> QED BY <1>2, <1>3, RanSteps

LEMMA RanAmong ==
  ASSUME TypeInv, Current \in DOMAIN plan, NEW code, Ran(code), NEW rn, rn = ran',
         NEW e, e = Receipt(Current, code, FALSE), NEW x
  PROVE  Among(x, rn) <=> Among(x, ran) \/ x = e
  BY RanKeeps DEF Among

(* The innermost batch settles an action that is no batch, or that was     *)
(* never dispatched.                                                       *)
LEMMA OwnKept ==
  ASSUME TypeInv, TypeInv', UNCHANGED plan, Kept, Looping,
         NEW code, Settles(stack, code, <<>>, FALSE),
         NEW e, e = Receipt(Current, code, FALSE), NEW rn, rn = ran',
         \A x : Among(x, ran) => Among(x, rn),
         \A x : Among(x, rn) => Among(x, ran) \/ x = e,
         Among(e, rn) \/ code # "ok"
  PROVE  Kept'
<1>1. PICK s, k, n, inner : s = stack /\ k = Len(stack) /\ n = Current /\ inner = <<>>
  OBVIOUS
<1>2. /\ Settles(s, code, inner, FALSE) /\ k = Len(s) /\ n = stack[k].at
      /\ e = Receipt(n, code, FALSE)
  BY <1>1 DEF Current, Top
<1>3. DOMAIN stack = 1 .. k
  BY <1>1, StackShape
<1>4. \A i \in 1 .. k : Level(i) = stack[i].receipts
  BY DEF Level, Looping, Leaving
<1>5. \A i \in 1 .. k : /\ Increasing(stack[i].receipts)
                        /\ Within(stack[i].receipts, stack[i].node, stack[i].at)
                        /\ AllIn(stack[i].receipts, ran)
  BY <1>3, <1>4 DEF Kept
<1>6. ASSUME NEW x, Among(x, rn) PROVE x = e \/ \E i \in 1 .. k : Among(x, stack[i].receipts)
  <2>1. CASE Among(x, ran)
    <3>1. PICK j \in DOMAIN ran : ran[j] = x
      BY <2>1 DEF Among
    <3> QED BY <1>3, <1>4, <3>1 DEF Kept
  <2> QED BY <1>6, <2>1
<1>7. /\ Increasing(inner) /\ Within(inner, n, plan[n].last + 1)
      /\ AllButLastIn(inner, ran) /\ AllIn(inner, ran)
  BY <1>1 DEF Increasing, Within, AllButLastIn, AllIn
<1>8. KeptUpTo(k) /\ Earned(inner, n, code) /\ Grows(k, n, code, inner, e, rn)
  BY <1>1, <1>5, <1>6, <1>7 DEF KeptUpTo, Earned, Grows
<1> QED BY <1>2, <1>8, SettlesKept

(* The batch around it settles the batch that is over.                     *)
LEMMA OuterKept ==
  ASSUME TypeInv, TypeInv', UNCHANGED <<plan, ran>>, Kept, pc = "return", Len(stack) > 1,
         Settles(SubSeq(stack, 1, Len(stack) - 1), result.code, result.receipts,
                 result.image)
  PROVE  Kept'
<1>1. PICK s, k, n, inner, code, image, rn :
        /\ s = SubSeq(stack, 1, Len(stack) - 1)
        /\ k = Len(s) /\ n = stack[k].at /\ inner = result.receipts
        /\ code = result.code /\ image = result.image /\ rn = ran'
  OBVIOUS
<1>2. PICK e : e = Receipt(n, code, image)
  OBVIOUS
<1>3. Settles(s, code, inner, image)
  BY <1>1
<1>4. /\ k = Len(stack) - 1 /\ Len(stack) \in Nat /\ DOMAIN stack = 1 .. Len(stack)
      /\ \A i \in 1 .. k : i \in DOMAIN stack /\ i # Len(stack)
      /\ k \in 1 .. Len(stack) - 1 /\ k + 1 = Len(stack)
      /\ \A i \in DOMAIN stack : i = Len(stack) \/ i \in 1 .. k
  <2>1. Len(stack) \in Nat /\ DOMAIN stack = 1 .. Len(stack) /\ k = Len(stack) - 1
    BY <1>1, OuterShape, StackShape
  <2>2. \A i \in DOMAIN stack : i = Len(stack) \/ i \in 1 .. k
    BY <2>1
  <2>3. k \in 1 .. Len(stack) - 1 /\ k + 1 = Len(stack)
    BY <2>1
  <2>4. ASSUME NEW i \in 1 .. k PROVE i \in DOMAIN stack /\ i # Len(stack)
    <3>1. i \in Nat /\ i >= 1 /\ i <= Len(stack) - 1
      BY <2>1
    <3>2. \A m \in Nat : i <= m - 1 => i \in 1 .. m /\ i # m
      BY <3>1
    <3> QED BY <2>1, <3>1, <3>2
  <2> QED BY <2>1, <2>2, <2>3, <2>4
<1>5. Top.node = n /\ plan[n].op = "batch"
  BY <1>1, <1>4 DEF TypeInv, NestInv, Top
<1>6. /\ Level(Len(stack)) = inner
      /\ \A i \in 1 .. k : Level(i) = stack[i].receipts
  BY <1>1, <1>4 DEF Level, Leaving
<1>7. \A i \in 1 .. k : /\ Increasing(stack[i].receipts)
                        /\ Within(stack[i].receipts, stack[i].node, stack[i].at)
                        /\ AllIn(stack[i].receipts, ran)
  BY <1>4, <1>6 DEF Kept
<1>8. /\ Increasing(inner) /\ Within(inner, n, plan[n].last + 1)
      /\ AllButLastIn(inner, ran) /\ (code = "ok" => AllIn(inner, ran))
  BY <1>1, <1>4, <1>5, <1>6 DEF Kept, Leaving
<1>9. ASSUME NEW x, Among(x, rn)
      PROVE  Among(x, inner) \/ \E i \in 1 .. k : Among(x, stack[i].receipts)
  <2>1. PICK j \in DOMAIN ran : ran[j] = x
    BY <1>1, <1>9 DEF Among
  <2>2. \E i \in DOMAIN stack : Among(x, Level(i))
    BY <2>1 DEF Kept, Leaving
  <2> QED BY <1>4, <1>6, <2>2
<1>10. \A x : Among(x, ran) => Among(x, rn)
  BY <1>1
<1>11. KeptUpTo(k) /\ Earned(inner, n, code) /\ Grows(k, n, code, inner, e, rn)
  BY <1>5, <1>7, <1>8, <1>9, <1>10 DEF KeptUpTo, Earned, Grows
<1> QED BY <1>1, <1>2, <1>3, <1>11, SettlesKept


(* A step that moves no receipt.                                           *)
LEMMA StillKept ==
  ASSUME TypeInv, Kept, UNCHANGED <<plan, ran>>,
         DOMAIN stack' = DOMAIN stack, Len(stack') = Len(stack),
         \A i \in DOMAIN stack : /\ stack'[i].receipts = stack[i].receipts
                                 /\ stack'[i].node = stack[i].node
                                 /\ stack'[i].at = stack[i].at,
         pc \notin {"entry", "done"}, pc' \notin {"entry", "done"},
         Leaving' => /\ result'.receipts = IF Leaving THEN result.receipts ELSE Top.receipts
                     /\ Leaving => result'.code = result.code,
         Leaving => Leaving'
  PROVE  Kept'
<1>1. /\ Len(stack) \in DOMAIN stack /\ Top' = stack'[Len(stack)]
      /\ Top.node = stack[Len(stack)].node /\ Top.receipts = stack[Len(stack)].receipts
  BY CurrentShape DEF Top
<1>2. ASSUME NEW i \in DOMAIN stack PROVE Level(i)' = Level(i)
  <2>1. CASE i = Len(stack) /\ Leaving'
    BY <1>1, <2>1 DEF Level
  <2>2. CASE ~(i = Len(stack) /\ Leaving')
    <3>1. Level(i)' = stack[i].receipts /\ Level(i) = stack[i].receipts
      BY <2>2 DEF Level
    <3> QED BY <3>1
  <2> QED BY <2>1, <2>2
<1>3. ASSUME NEW i \in DOMAIN stack
      PROVE  (/\ Increasing(Level(i))
              /\ Within(stack[i].receipts, stack[i].node, stack[i].at)
              /\ AllIn(stack[i].receipts, ran))'
  <2>1. /\ Increasing(Level(i))
        /\ Within(stack[i].receipts, stack[i].node, stack[i].at)
        /\ AllIn(stack[i].receipts, ran)
    BY DEF Kept
  <2>2. Increasing(Level(i))'
    BY <1>2, <2>1 DEF Increasing, OfAction
  <2>3. Within(stack[i].receipts, stack[i].node, stack[i].at)'
    BY <2>1 DEF Within
  <2>4. AllIn(stack[i].receipts, ran)'
    BY <2>1 DEF AllIn, OfAction, Among
  <2> QED BY <2>2, <2>3, <2>4
<1>4. ASSUME NEW j \in DOMAIN ran' PROVE (\E i \in DOMAIN stack : Among(ran[j], Level(i)))'
  <2>1. \E i \in DOMAIN stack : Among(ran[j], Level(i))
    BY DEF Kept, Looping, Leaving, TypeInv, TypeOK
  <2> QED BY <1>2, <2>1 DEF Among
<1>5. ASSUME Leaving'
      PROVE  (/\ Within(result.receipts, Top.node, plan[Top.node].last + 1)
              /\ AllButLastIn(result.receipts, ran)
              /\ result.code = "ok" => AllIn(result.receipts, ran))'
  <2>1. CASE Leaving
    <3>1. /\ result'.receipts = result.receipts /\ result'.code = result.code
          /\ Top'.node = Top.node
      BY <1>1, <1>5, <2>1
    <3>2. /\ Within(result.receipts, Top.node, plan[Top.node].last + 1)
          /\ AllButLastIn(result.receipts, ran)
          /\ result.code = "ok" => AllIn(result.receipts, ran)
      BY <2>1 DEF Kept
    <3> QED BY <3>1, <3>2 DEF Within, AllButLastIn, AllIn, OfAction, Among, LastOfActions
  <2>2. CASE ~Leaving
    <3>1. /\ result'.receipts = Top.receipts /\ Top'.node = Top.node
          /\ Within(Top.receipts, Top.node, Current)
          /\ AllIn(Top.receipts, ran)
      BY <1>1, <1>5, <2>2 DEF Kept, Current, Top
    <3>2. PICK end : end = plan[Top.node].last + 1
      OBVIOUS
    <3>3. Current \in Nat /\ end \in Nat /\ Current <= end
      <4>1. Current \in Top.node + 1 .. plan[Top.node].last + 1
        BY <1>1 DEF TypeInv, NestInv, Current, Top
      <4>2. Top.node \in Nat /\ plan[Top.node].last \in Nat /\ Current \in Nat
        BY CurrentShape, PlanShape DEF TypeInv, TypeOK
      <4> QED BY <3>2, <4>1, <4>2
    <3>4. \A a \in DOMAIN Top.receipts : Top.receipts[a].node \in Nat
      <4>1. Top.receipts \in Seq(Receipts)
        BY <1>1, StackShape
      <4>2. \A a \in DOMAIN Top.receipts : Top.receipts[a] \in Receipts
        BY <4>1
      <4>3. DOMAIN plan \subseteq Nat
        BY PlanShape DEF TypeInv, TypeOK
      <4> QED BY <4>2, <4>3 DEF Receipts
    <3>5. Within(Top.receipts, Top.node, end)
      <4>1. PICK t, at : t = Top.receipts /\ at = Current
        OBVIOUS
      <4> QED BY <3>1, <3>3, <3>4, <4>1 DEF Within
    <3>6. Within(result.receipts, Top.node, plan[Top.node].last + 1)'
      BY <3>1, <3>2, <3>5 DEF Within
    <3>7. AllIn(result.receipts, ran)' /\ AllButLastIn(result.receipts, ran)'
      BY <3>1 DEF AllIn, AllButLastIn, OfAction, Among
    <3> QED BY <3>6, <3>7
  <2> QED BY <2>1, <2>2
<1> QED BY <1>3, <1>4, <1>5 DEF Kept

(* A batch that begins has no receipts yet.                                *)
LEMMA PushKept ==
  ASSUME TypeInv, Kept, UNCHANGED <<plan, ran>>, NEW n \in DOMAIN plan, Push(n),
         Looping \/ ran = <<>>, ~Leaving
  PROVE  Kept'
<1> DEFINE e == [node |-> n, at |-> n + 1, receipts |-> <<>>, saved |-> deadline,
                 due |-> Due(plan[n].ms), late |-> 0]
<1>1. /\ Len(stack') = Len(stack) + 1 /\ stack' \in Seq(Batches)
      /\ \A i \in 1 .. Len(stack) : stack'[i] = stack[i]
      /\ stack'[Len(stack) + 1] = e /\ pc' = "check"
  BY PushFacts
<1>2. e.receipts = <<>>
  OBVIOUS
<1> HIDE DEF e
<1>3. /\ Len(stack) \in Nat /\ DOMAIN stack = 1 .. Len(stack)
      /\ \A i \in DOMAIN stack : i \in DOMAIN stack' /\ stack'[i] = stack[i]
      /\ \A i \in DOMAIN stack' : i \in DOMAIN stack \/ stack'[i] = e
  <2>1. Len(stack) \in Nat /\ DOMAIN stack = 1 .. Len(stack)
    BY StackShape
  <2>2. DOMAIN stack' = 1 .. Len(stack) + 1
    BY <1>1, <2>1
  <2> QED BY <1>1, <2>1, <2>2
<1>4. /\ \A i \in DOMAIN stack' : Level(i)' = stack'[i].receipts
      /\ \A i \in DOMAIN stack : Level(i) = stack[i].receipts
  BY <1>1 DEF Level, Leaving
<1>5. ASSUME NEW i \in DOMAIN stack'
      PROVE  (/\ Increasing(Level(i))
              /\ Within(stack[i].receipts, stack[i].node, stack[i].at)
              /\ AllIn(stack[i].receipts, ran))'
  <2>1. CASE i \in DOMAIN stack
    <3>1. /\ Increasing(stack[i].receipts)
          /\ Within(stack[i].receipts, stack[i].node, stack[i].at)
          /\ AllIn(stack[i].receipts, ran)
      BY <1>4, <2>1 DEF Kept
    <3>2. stack'[i] = stack[i] /\ Level(i)' = stack[i].receipts
      BY <1>3, <1>4, <2>1
    <3> QED BY <3>1, <3>2 DEF Increasing, Within, AllIn, OfAction, Among
  <2>2. CASE stack'[i] = e
    <3>1. stack'[i].receipts = <<>> /\ Level(i)' = <<>>
      BY <1>2, <1>4, <2>2
    <3> QED BY <3>1 DEF Increasing, Within, AllIn
  <2> QED BY <1>3, <2>1, <2>2
<1>6. ASSUME NEW j \in DOMAIN ran' PROVE (\E i \in DOMAIN stack : Among(ran[j], Level(i)))'
  <2>1. PICK i \in DOMAIN stack : Among(ran[j], Level(i))
    BY DEF Kept
  <2>2. i \in DOMAIN stack' /\ Level(i)' = Level(i)
    BY <1>3, <1>4
  <2> QED BY <2>1, <2>2 DEF Among
<1> QED BY <1>1, <1>5, <1>6 DEF Kept, Leaving


LEMMA KeptInvariant == Spec => []KeptInv
<1>1. Init => KeptInv
  BY DEF Init, KeptInv, Kept, Increasing, Looping, Leaving
<1>2. ASSUME TypeInv, TypeInv', RanInv, KeptInv, [Next]_vars PROVE KeptInv'
  <2>1. /\ UNCHANGED plan /\ RanOrder /\ RanOrder'
        /\ escaped => escaped'
    <3>1. escaped => escaped'
      BY <1>2 DEF Next, Controller, Refuse, Tick, Cancel, Done, Probe, FinalObserve, Escape, Admit,
         Check, Preflight, Dispatch, ActionEnds, ObserveEnds, Report, Return, vars, ghosts
    <3> QED BY <1>2, <3>1, PlanStays, RanOrderKept DEF KeptInv, RanOrder
  <2> SUFFICES ASSUME ~escaped, ~escaped', Kept PROVE Kept'
    BY <1>2, <2>1 DEF KeptInv, RanOrder
  <2>2. ASSUME NEW code, code # "ok", Settles(stack, code, <<>>, FALSE), Looping, UNCHANGED ran
        PROVE  Kept'
    <3>1. PICK e, rn : e = Receipt(Current, code, FALSE) /\ rn = ran'
      OBVIOUS
    <3> QED BY <1>2, <2>1, <2>2, <3>1, OwnKept
  <2>3. ASSUME NEW code, Settles(stack, code, <<>>, FALSE), Ran(code),
               pc \in {"action", "interrupted"}
        PROVE  Kept'
    <3>1. PICK e, rn : e = Receipt(Current, code, FALSE) /\ rn = ran'
      OBVIOUS
    <3>2. Current \in DOMAIN plan /\ Looping
      BY <1>2, <2>3, CurrentShape DEF AtAnAction, Looping
    <3>3. \A x : Among(x, rn) <=> Among(x, ran) \/ x = e
      BY <1>2, <2>3, <3>1, <3>2, RanAmong
    <3> QED BY <1>2, <2>1, <2>3, <3>1, <3>2, <3>3, OwnKept
  <2>4. CASE Preflight /\ Settles(stack, "failed", <<>>, FALSE)
    BY <2>2, <2>4 DEF Preflight, Looping, ghosts
  <2>5. CASE Dispatch /\ UNCHANGED ghosts /\ Settles(stack, Interruption, <<>>, FALSE)
    BY <2>2, <2>5 DEF Dispatch, Looping, ghosts, Interruption
  <2>6. ASSUME NEW code, ActionEnds \/ ObserveEnds, Ran(code), Settles(stack, code, <<>>, FALSE)
        PROVE  Kept'
    BY <2>3, <2>6 DEF ActionEnds, ObserveEnds
  <2>7. CASE Report /\ Settles(stack, Interruption, <<>>, FALSE)
    BY <2>3, <2>7 DEF Report
  <2>8. CASE Return /\ Len(stack) > 1 /\ UNCHANGED ran
             /\ Settles(SubSeq(stack, 1, Len(stack) - 1), result.code, result.receipts,
                        result.image)
    BY <1>2, <2>1, <2>8, OuterKept DEF Return
  <2>9. CASE Admit \/ (Dispatch /\ plan[Current].op = "batch" /\ Push(Current))
    <3>1. PICK n \in DOMAIN plan : Push(n)
      BY <1>2, <2>9, Pushes
    <3>2. UNCHANGED ran /\ (Looping \/ ran = <<>>) /\ ~Leaving
      BY <1>2, <2>9 DEF Admit, Dispatch, RanInv, Looping, Leaving, ghosts
    <3> QED BY <1>2, <2>1, <3>1, <3>2, PushKept
  <2>10. CASE Check
    <3>1. /\ UNCHANGED <<ran, stack>> /\ Looping /\ ~Leaving
          /\ pc \notin {"entry", "done"} /\ pc' \notin {"entry", "done"}
          /\ Leaving' => result'.receipts = Top.receipts
      BY <1>2, <2>10, CheckForms DEF Check, ghosts, Looping, Leaving, Result
    <3> QED BY <1>2, <2>1, <3>1, StillKept
  <2>11. CASE Dispatch /\ pc' = "action"
    <3>1. /\ DOMAIN stack' = DOMAIN stack /\ Len(stack') = Len(stack)
          /\ \A i \in DOMAIN stack : /\ stack'[i].receipts = stack[i].receipts
                                     /\ stack'[i].node = stack[i].node
                                     /\ stack'[i].at = stack[i].at
      BY <1>2, <2>11, DispatchFacts, StackShape
    <3>2. UNCHANGED ran /\ ~Leaving /\ ~Leaving' /\ pc \notin {"entry", "done"}
      BY <1>2, <2>11, DispatchFacts DEF Dispatch, ghosts, Leaving
    <3> QED BY <1>2, <2>1, <2>11, <3>1, <3>2, StillKept
  <2>12. CASE Refuse
    <3>1. ran = <<>> /\ UNCHANGED <<ran, stack>> /\ stack = <<>> /\ result'.receipts = <<>>
          /\ pc' = "done"
      BY <1>2, <2>12 DEF Refuse, RanInv, TypeInv, NestInv, ghosts, Result
    <3> QED BY <3>1 DEF Kept, Looping, Leaving, Tells, Increasing
  <2>13. CASE Return /\ Len(stack) = 1
    <3>1. /\ UNCHANGED <<ran, result>> /\ stack' = <<>> /\ pc' = "done"
          /\ Leaving /\ DOMAIN stack = {1} /\ Level(1) = result.receipts
      BY <1>2, <2>13, StackShape DEF Return, ghosts, Leaving, Level
    <3>2. /\ Increasing(result.receipts)
          /\ \A k \in DOMAIN ran : Among(ran[k], result.receipts)
          /\ AllButLastIn(result.receipts, ran)
      BY <3>1 DEF Kept
    <3>3. Tells
      BY <2>1, <3>2 DEF Tells, RanOrder, AllButLastIn
    <3>4. Tells'
      BY <2>1, <3>1, <3>3 DEF Tells, Increasing, OfAction, Among, LastOfActions
    <3> QED BY <3>1, <3>4 DEF Kept, Looping, Leaving
  <2>14. CASE Escape
    <3>1. /\ UNCHANGED <<ran, stack>> /\ Top.receipts = <<>> /\ result'.receipts = <<>>
          /\ pc = "preflight" /\ pc' = "return" /\ ~Leaving
      BY <2>14 DEF Escape, Result, Leaving
    <3> QED BY <1>2, <2>1, <3>1, StillKept DEF Leaving
  <2>15. CASE \/ Tick \/ Cancel \/ Done \/ Probe \/ FinalObserve \/ UNCHANGED vars
              \/ Preflight /\ pc' = "dispatch"
    <3>1. /\ UNCHANGED <<ran, stack>>
          /\ \/ pc' = pc
             \/ pc = "preflight" /\ pc' = "dispatch"
             \/ pc = "action" /\ pc' = "interrupted"
             \/ pc = "observe" /\ pc' = "return"
          /\ result'.receipts = result.receipts /\ result'.code = result.code
      <4>1. result \in [code : Codes, receipts : Seq(Receipts), image : BOOLEAN]
        BY <1>2 DEF TypeInv, TypeOK
      <4>2. CASE FinalObserve
        BY <4>1, <4>2 DEF FinalObserve, ghosts
      <4>3. CASE \/ Tick \/ Cancel \/ Done \/ Probe
                 \/ UNCHANGED vars \/ (Preflight /\ pc' = "dispatch")
        BY <4>3 DEF Tick, Cancel, Done, Probe, Preflight, vars, ghosts,
                    Settled, Conclude, AfterActions
      <4> QED BY <2>15, <4>2, <4>3
    <3>2. CASE pc' \in {"entry", "done"}
      BY <1>2, <2>1, <3>1, <3>2 DEF Kept, TypeInv, NestInv, Looping, Leaving, Tells, Increasing,
         OfAction, Among, LastOfActions
    <3>3. CASE pc' \notin {"entry", "done"}
      BY <1>2, <2>1, <3>1, <3>3, StillKept DEF Leaving
    <3> QED BY <3>2, <3>3
  <2> QED BY <1>2, <2>4, <2>5, <2>6, <2>7, <2>8, <2>9, <2>10, <2>11, <2>12, <2>13, <2>14, <2>15,
             WhatSettles
<1> QED BY <1>1, <1>2, TypeInvariant, RanInvariant, PTL DEF Spec

(* No receipt of an executed action is lost on any way out of a batch,     *)
(* except when an exception escapes _batch itself; and the outcome it      *)
(* gives is true.                                                          *)
THEOREM TrueAnswer == Spec => []AnswerTrue
<1>1. KeptInv => ReceiptsTell
  BY DEF KeptInv, Kept, ReceiptsTell
<1>2. ReceiptsTell /\ OutcomeTrue => AnswerTrue
  BY DEF AnswerTrue
<1> QED BY <1>1, <1>2, KeptInvariant, TrueOutcome, PTL
===============================================================================
