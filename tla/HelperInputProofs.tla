-------------------------- MODULE HelperInputProofs --------------------------
(***************************************************************************)
(* Theorems of HelperInput for every number of primitives: what a receipt  *)
(* says, and what is left when it is given, in both ports.                 *)
(***************************************************************************)
EXTENDS HelperInput, TLAPS

(* The supervisor is in its loop, or about to enter it.                    *)
Watching == spc \in {"feed", "poll", "try"}
Concluded == spc \in {"caller", "returned"}

(* The helper exists from Spawn on, and has an exit code once it is gone.  *)
HelperLives ==
  /\ spc = "entry" => hpc = "none"
  /\ hpc = "none" => spc \in {"entry", "caller", "returned"}
  /\ spc \in {"collect", "caller", "returned"} => hpc \in {"none", "gone"}
  /\ hpc = "gone" <=> code # "none"

(* What the helper has done at each of its control points.  A button is    *)
(* down only between its two events; a count is printed only when it is    *)
(* true and nothing is down; the loop is left early only by the flag.      *)
HelperFacts ==
  /\ hpc \in {"none", "starting", "trust", "slurp", "grab"} \/ code = "untrusted" =>
       posted = 0 /\ ~held
  /\ hpc = "up" => posted < total
  /\ hpc \in {"grab", "letgo"} => op = "drag"
  /\ held => hpc \in {"up", "gone"} \/ op = "drag"
  /\ hpc \in {"print", "return"} \/ code \in {"success", "stopped"} => ~held
  /\ hpc \in {"letgo", "print", "return"} \/ code = "success" =>
       posted = total \/ (stop /\ Heeds)
  /\ code = "success" => ~(stop /\ Heeds)
  /\ printed # None => printed = posted /\ hpc \in {"return", "gone"}
  /\ code \in {"success", "stopped"} => printed # None

(* At most one primitive is begun after the flag: the loop's next test     *)
(* sees it, and key, which does not look, has no second one.               *)
LateFacts ==
  /\ op = "key" => total = 1
  /\ late <= 1
  /\ late > 0 => stop
  /\ hpc = "post" /\ Heeds => late = 0
  /\ late > 0 /\ op = "key" => posted = total \/ hpc = "up" \/ hpc = "gone"

(* The receipt against what happened.                                      *)
ReceiptFacts ==
  /\ outcome # "none" <=> Concluded
  /\ released # "no" => spc = "returned"
  /\ outcome = "cancelled" /\ hpc = "gone" => reported = Completed
  /\ hpc = "none" => reported = 0
  /\ outcome = "ok" => code = "success" /\ reported = total
  /\ outcome \in {"none", "unsupported", "failure"} => reported = 0
  /\ outcome = "unsupported" => hpc = "none" \/ code = "untrusted"
  /\ outcome # "none" /\ code = "untrusted" => reported = 0
  /\ spc = "returned" /\ Releases => released = "failed" \/ ~held

IInv == TypeOK /\ HelperLives /\ HelperFacts /\ LateFacts /\ ReceiptFacts

(* TypeOK, the numbers apart from the rest.                                *)
Numbers ==
  /\ total \in 1 .. MaxTotal
  /\ reported \in Counts
  /\ posted \in Counts /\ posted <= total
  /\ printed \in Counts \cup {None}
  /\ late \in Nat
Shapes ==
  /\ port \in Ports /\ op \in Ops
  /\ large \in BOOLEAN /\ cancelled \in BOOLEAN
  /\ spc \in {"entry", "feed", "poll", "try", "collect", "caller", "returned"}
  /\ fed \in BOOLEAN /\ stopSent \in BOOLEAN
  /\ grace \in BOOLEAN /\ overdue \in BOOLEAN
  /\ outcome \in {"none", "ok", "cancelled", "unsupported", "failure"}
  /\ released \in {"no", "done", "failed"}
  /\ hpc \in {"none", "starting", "trust", "slurp", "grab", "test", "post", "up",
              "letgo", "print", "return", "gone"}
  /\ code \in {"none", "success", "stopped", "untrusted", "failed", "killed"}
  /\ stop \in BOOLEAN /\ held \in BOOLEAN
LEMMA TypeParts == TypeOK <=> Numbers /\ Shapes
  BY DEF TypeOK, Numbers, Shapes

(* Assigning a truth value keeps a variable Boolean: the provers that do   *)
(* the arithmetic do not see it.                                           *)
LEMMA BooleanSteps ==
  ASSUME Shapes
  PROVE  /\ Post \/ PostUp \/ LetGo \/ Answer => held' \in BOOLEAN
         /\ Feed => fed' \in BOOLEAN
         /\ Poll => stopSent' \in BOOLEAN /\ stop' \in BOOLEAN
<1>1. stop \in BOOLEAN /\ held \in BOOLEAN /\ fed \in BOOLEAN /\ stopSent \in BOOLEAN
  BY DEF Shapes
<1>2. Post => held' \in BOOLEAN
  BY <1>1, Zenon DEF Post
<1>3. PostUp => held' \in BOOLEAN
  BY Zenon DEF PostUp
<1>4. LetGo => held' \in BOOLEAN
  BY Zenon DEF LetGo
<1>5. Answer => held' \in BOOLEAN
  BY <1>1, Zenon DEF Answer
<1>6. Feed => fed' \in BOOLEAN
  BY <1>1, Zenon DEF Feed
<1>7. Poll => stopSent' \in BOOLEAN
  BY <1>1, Zenon DEF Poll
<1>8. Poll => stop' \in BOOLEAN
  BY <1>1, Zenon DEF Poll, Killed, Signalled, HelperExits, helper
<1> QED BY <1>2, <1>3, <1>4, <1>5, <1>6, <1>7, <1>8

(* Shapes is inductive by itself.                                          *)
LEMMA ShapesKept ==
  ASSUME Shapes, HelperNext \/ SupervisorNext
  PROVE  Shapes'
<1>b. /\ Post \/ PostUp \/ LetGo \/ Answer => held' \in BOOLEAN
      /\ Feed => fed' \in BOOLEAN
      /\ Poll => stopSent' \in BOOLEAN /\ stop' \in BOOLEAN
  BY BooleanSteps
<1> USE DEF Shapes, HelperGoes, HelperExits, HelperOnly, Conclude, Killed, Signalled,
            request, supervisor, clocks, helper
<1>1. CASE InstallHandlers
  BY <1>1 DEF InstallHandlers
<1>2. CASE CheckTrust
  BY <1>2 DEF CheckTrust
<1>3. CASE Slurp
  BY <1>3 DEF Slurp
<1>4. CASE Grab
  BY <1>4 DEF Grab
<1>5. CASE TestStop
  BY <1>5 DEF TestStop, LoopEnds
<1>6. CASE Post
  <2>1. held' \in BOOLEAN
    BY <1>6, <1>b
  <2> QED BY <1>6, <2>1 DEF Post, LoopEnds
<1>7. CASE PostUp
  <2>1. held' \in BOOLEAN
    BY <1>7, <1>b
  <2> QED BY <1>7, <2>1 DEF PostUp
<1>8. CASE LetGo
  <2>1. held' \in BOOLEAN
    BY <1>8, <1>b
  <2> QED BY <1>8, <2>1 DEF LetGo
<1>9. CASE CannotPost
  BY <1>9 DEF CannotPost
<1>10. CASE PrintCount
  BY <1>10 DEF PrintCount
<1>11. CASE Return
  BY <1>11 DEF Return
<1>12. CASE Refuse
  BY <1>12 DEF Refuse
<1>13. CASE Spawn
  BY <1>13 DEF Spawn
<1>14. CASE Feed
  <2>1. fed' \in BOOLEAN
    BY <1>14, <1>b
  <2> QED BY <1>14, <2>1 DEF Feed
<1>15. CASE CommunicateWrites
  BY <1>15 DEF CommunicateWrites
<1>16. CASE Poll
  <2>1. stop' \in BOOLEAN /\ stopSent' \in BOOLEAN
    BY <1>16, <1>b
  <2> QED BY <1>16, <2>1 DEF Poll
<1>17. CASE Try
  BY <1>17 DEF Try
<1>18. CASE TryFails
  BY <1>18 DEF TryFails
<1>19. CASE Collect
  BY <1>19 DEF Collect
<1>20. CASE Answer
  <2>1. held' \in BOOLEAN
    BY <1>20, <1>b
  <2> QED BY <1>20, <2>1 DEF Answer
<1> QED
  BY <1>1, <1>2, <1>3, <1>4, <1>5, <1>6, <1>7, <1>8, <1>9, <1>10, <1>11,
     <1>12, <1>13, <1>14, <1>15, <1>16, <1>17, <1>18, <1>19, <1>20
  DEF HelperNext, SupervisorNext

-----------------------------------------------------------------------------
(* A step of the helper happens before the supervisor concludes, so that   *)
(* the receipt is not concerned.                                           *)
LEMMA HelperKeeps ==
  ASSUME IInv, HelperNext
  PROVE  IInv'
<1>s. Shapes'
  BY ShapesKept, TypeParts DEF IInv
<1>t. Numbers' => TypeOK'
  BY <1>s DEF TypeOK, Numbers, Shapes
<1> USE HelperAssumption
    DEF IInv, TypeOK, HelperLives, HelperFacts, LateFacts, ReceiptFacts, Concluded,
        Completed, Releases, Counts, Ports, Ops, HasInput, Pairs, Heeds, None,
        HelperGoes, HelperExits, HelperOnly, request, supervisor, clocks
<1>1. CASE InstallHandlers
  BY <1>1 DEF InstallHandlers
<1>2. CASE CheckTrust
  BY <1>2 DEF CheckTrust
<1>3. CASE Slurp
  BY <1>3 DEF Slurp
<1>4. CASE Grab
  <2>1. Numbers'
    BY <1>4 DEF Grab, Numbers
  <2>2. HelperLives'
    BY <1>4 DEF Grab
  <2>3. HelperFacts'
    BY <1>4 DEF Grab
  <2>4. LateFacts'
    BY <1>4 DEF Grab
  <2>5. ReceiptFacts'
    BY <1>4 DEF Grab
  <2> QED BY <1>t, <2>1, <2>2, <2>3, <2>4, <2>5
<1>5. CASE TestStop
  BY <1>5 DEF TestStop, LoopEnds
<1>6. CASE Post
  <2>1. Numbers'
    BY <1>6 DEF Post, LoopEnds, Numbers
  <2>2. HelperLives'
    BY <1>6 DEF Post, LoopEnds
  <2>3. HelperFacts'
    BY <1>6 DEF Post, LoopEnds
  <2>4. LateFacts'
    BY <1>6 DEF Post, LoopEnds
  <2>5. ReceiptFacts'
    BY <1>6 DEF Post, LoopEnds
  <2> QED BY <1>t, <2>1, <2>2, <2>3, <2>4, <2>5
<1>7. CASE PostUp
  <2>1. Numbers'
    BY <1>7 DEF PostUp, Numbers
  <2>2. HelperLives'
    BY <1>7 DEF PostUp
  <2>3. HelperFacts'
    BY <1>7 DEF PostUp
  <2>4. LateFacts'
    BY <1>7 DEF PostUp
  <2>5. ReceiptFacts'
    BY <1>7 DEF PostUp
  <2> QED BY <1>t, <2>1, <2>2, <2>3, <2>4, <2>5
<1>8. CASE LetGo
  <2>1. Numbers'
    BY <1>8 DEF LetGo, Numbers
  <2>2. HelperLives'
    BY <1>8 DEF LetGo
  <2>3. HelperFacts'
    BY <1>8 DEF LetGo
  <2>4. LateFacts'
    BY <1>8 DEF LetGo
  <2>5. ReceiptFacts'
    BY <1>8 DEF LetGo
  <2> QED BY <1>t, <2>1, <2>2, <2>3, <2>4, <2>5
<1>9. CASE CannotPost
  BY <1>9 DEF CannotPost
<1>10. CASE PrintCount
  BY <1>10 DEF PrintCount
<1>11. CASE Return
  BY <1>11 DEF Return
<1> QED
  BY <1>1, <1>2, <1>3, <1>4, <1>5, <1>6, <1>7, <1>8, <1>9, <1>10, <1>11 DEF HelperNext

(* A step of the supervisor.                                               *)
LEMMA SupervisorKeeps ==
  ASSUME IInv, SupervisorNext
  PROVE  IInv'
<1>s. Shapes'
  BY ShapesKept, TypeParts DEF IInv
<1>t. Numbers' => TypeOK'
  BY <1>s DEF TypeOK, Numbers, Shapes
<1> USE HelperAssumption
    DEF IInv, TypeOK, HelperLives, HelperFacts, LateFacts, ReceiptFacts, Concluded,
        Completed, Releases, Counts, Ports, Ops, HasInput, Pairs, Heeds, None,
        HelperGoes, HelperExits, Conclude, Killed, Signalled, request, clocks, helper
<1>1. CASE Refuse
  BY <1>1 DEF Refuse
<1>2. CASE Spawn
  BY <1>2 DEF Spawn
<1>3. CASE Feed
  <2>1. Numbers'
    BY <1>3 DEF Feed, Writable, Numbers
  <2>2. HelperLives'
    BY <1>3 DEF Feed, Writable
  <2>3. HelperFacts'
    BY <1>3 DEF Feed, Writable
  <2>4. LateFacts'
    BY <1>3 DEF Feed, Writable
  <2>5. ReceiptFacts'
    BY <1>3 DEF Feed, Writable
  <2> QED BY <1>t, <2>1, <2>2, <2>3, <2>4, <2>5
<1>4. CASE CommunicateWrites
  BY <1>4 DEF CommunicateWrites, Writable
<1>5. CASE Poll
  <2>1. Numbers'
    BY <1>5 DEF Poll, Numbers
  <2>2. HelperLives'
    BY <1>5 DEF Poll
  <2>3. HelperFacts'
    BY <1>5 DEF Poll
  <2>4. LateFacts'
    BY <1>5 DEF Poll
  <2>5. ReceiptFacts'
    BY <1>5 DEF Poll
  <2> QED BY <1>t, <2>1, <2>2, <2>3, <2>4, <2>5
<1>6. CASE Try
  BY <1>6 DEF Try
<1>7. CASE TryFails
  BY <1>7 DEF TryFails
<1>8. CASE Collect
  BY <1>8 DEF Collect
<1>9. CASE Answer
  <2>1. Numbers'
    BY <1>9 DEF Answer, Numbers
  <2>2. HelperLives'
    BY <1>9 DEF Answer
  <2>3. HelperFacts'
    BY <1>9 DEF Answer
  <2>4. LateFacts'
    BY <1>9 DEF Answer
  <2>5. ReceiptFacts'
    BY <1>9 DEF Answer
  <2> QED BY <1>t, <2>1, <2>2, <2>3, <2>4, <2>5
<1> QED
  BY <1>1, <1>2, <1>3, <1>4, <1>5, <1>6, <1>7, <1>8, <1>9 DEF SupervisorNext

LEMMA ClockKeeps ==
  ASSUME IInv, GraceEnds \/ TimeIsUp \/ Cancel \/ Done \/ UNCHANGED vars
  PROVE  IInv'
<1> USE DEF IInv, TypeOK, HelperLives,
       HelperFacts, LateFacts, ReceiptFacts, Concluded, Completed, Releases,
       Counts, HasInput, Pairs, Heeds, None, request, supervisor, clocks, helper
<1>1. CASE GraceEnds
  BY <1>1 DEF GraceEnds
<1>2. CASE TimeIsUp
  BY <1>2 DEF TimeIsUp
<1>3. CASE Cancel
  BY <1>3 DEF Cancel
<1>4. CASE Done \/ UNCHANGED vars
  BY <1>4 DEF Done, vars
<1> QED BY <1>1, <1>2, <1>3, <1>4

LEMMA HelperInvariant == Spec => []IInv
<1>1. Init => IInv
  <2> SUFFICES ASSUME Init PROVE IInv
    OBVIOUS
  <2>1. TypeOK
    <3>1. Numbers
      BY HelperAssumption DEF Init, Numbers, Counts, None
    <3>2. Shapes
      BY DEF Init, Shapes, Ports, Ops
    <3> QED BY <3>1, <3>2, TypeParts
  <2>2. HelperLives /\ LateFacts
    BY DEF Init, HelperLives, LateFacts
  <2>3. HelperFacts
    BY DEF Init, HelperFacts
  <2>4. ReceiptFacts
    BY DEF Init, ReceiptFacts, Concluded, Completed, Releases
  <2> QED BY <2>1, <2>2, <2>3, <2>4 DEF IInv
<1>2. IInv /\ [Next]_vars => IInv'
  BY HelperKeeps, SupervisorKeeps, ClockKeeps DEF Next
<1> QED BY <1>1, <1>2, PTL DEF Spec

-----------------------------------------------------------------------------
(* In every reachable state of either port the helper has posted at most   *)
(* what it was asked for, and every count is one.                          *)
THEOREM HelperTypeCorrect == Spec => []TypeOK
<1>1. IInv => TypeOK
  BY DEF IInv
<1> QED BY <1>1, HelperInvariant, PTL

(* No receipt of either port claims a primitive that was not posted.       *)
THEOREM ReceiptsHonest == Spec => []ReceiptHonest
<1>1. IInv => ReceiptHonest
  <2> SUFFICES ASSUME IInv PROVE ReceiptHonest
    OBVIOUS
  <2> USE HelperAssumption
      DEF IInv, HelperLives, HelperFacts, ReceiptFacts, Completed, Concluded
  <2>1. reported \in Nat /\ posted \in Nat
    BY DEF TypeOK, Counts
  <2>2. reported <= posted
    <3>1. CASE outcome = "none"
      BY <2>1, <3>1 DEF TypeOK, Counts
    <3>2. CASE outcome = "cancelled"
      BY <2>1, <3>2
    <3>3. CASE outcome \in {"unsupported", "failure"}
      BY <2>1, <3>3
    <3>4. CASE outcome = "ok"
      BY <2>1, <3>4
    <3> QED BY <3>1, <3>2, <3>3, <3>4 DEF TypeOK
  <2>3. outcome = "ok" => posted = total /\ ~held
    OBVIOUS
  <2>4. outcome = "unsupported" => posted = 0 /\ ~held
    OBVIOUS
  <2> QED BY <2>2, <2>3, <2>4 DEF ReceiptHonest
<1> QED BY <1>1, HelperInvariant, PTL

(* A cancelled receipt is exact when the helper ended by itself.           *)
THEOREM PartialsExact == Spec => []PartialExact
<1>1. IInv => PartialExact
  BY DEF IInv, HelperLives, HelperFacts, ReceiptFacts, Completed, Concluded,
         PartialExact
<1> QED BY <1>1, HelperInvariant, PTL

(* A receipt tells what reached the desktop.                               *)
THEOREM ReceiptsTrue == Spec => []ReceiptTells
  BY ReceiptsHonest, PartialsExact, PTL DEF ReceiptTells

(* A helper starts at most one primitive after it was told to stop.        *)
THEOREM HelperStopsPromptly == Spec => []StopsPrompt
<1>1. IInv => StopsPrompt
  BY DEF IInv, LateFacts, StopsPrompt
<1> QED BY <1>1, HelperInvariant, PTL

(* Nothing is posted once the supervisor has a receipt.                    *)
THEOREM NothingAfterReceipt == Spec => []NoInputAfterReceipt
<1>1. IInv => NoInputAfterReceipt
  BY DEF IInv, HelperLives, NoInputAfterReceipt
<1> QED BY <1>1, HelperInvariant, PTL

(* A key or button left down has one of two known causes.                  *)
THEOREM HeldAccounted == Spec => []HeldIsAccountedFor
<1>1. IInv => HeldIsAccountedFor
  <2> SUFFICES ASSUME IInv, spc = "returned", held, released # "failed"
               PROVE  port = "rust" /\ outcome = "cancelled"
                        /\ code \in {"killed", "failed"}
    BY DEF HeldIsAccountedFor
  <2> USE DEF IInv, HelperLives, HelperFacts, ReceiptFacts, Concluded, Releases
  <2>1. outcome \in {"ok", "cancelled", "unsupported"}
    BY DEF TypeOK
  <2>2. hpc = "gone"
    OBVIOUS
  <2>3. code \in {"killed", "failed"}
    BY <2>2 DEF TypeOK
  <2>4. outcome = "cancelled"
    BY <2>1, <2>2, <2>3
  <2>5. port = "rust"
    BY <2>4 DEF TypeOK, Ports
  <2> QED BY <2>3, <2>4, <2>5
<1> QED BY <1>1, HelperInvariant, PTL

(* Nothing is left to post, and what is held has one of those causes.      *)
THEOREM LeavesNothing == Spec => []ReturnsClean
  BY NothingAfterReceipt, HeldAccounted, PTL DEF ReturnsClean
=============================================================================
