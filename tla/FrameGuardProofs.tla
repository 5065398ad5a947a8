--------------------------- MODULE FrameGuardProofs ---------------------------
(***************************************************************************)
(* Theorems of FrameGuard for every desktop, in both ports: the picture of *)
(* a frame, the inputs a frame authorizes, and the file on disk.           *)
(***************************************************************************)
EXTENDS FrameGuard, TLAPS

-----------------------------------------------------------------------------
(* Types.                                                                  *)

Observing == pc \in {"o-layout", "o-window", "o-capture", "o-again", "o-store"}

(* An observation was only begun with an id left for its frame.            *)
TypeInv == TypeOK /\ (Observing => nextId <= MaxFrames)

(* The constants of the model have their types.                            *)
LEMMA ConstantTypes ==
  ASSUME NEW l \in Layouts, NEW w \in Windows
  PROVE  /\ NoView \in Views
         /\ NothingSeen \in Readings
         /\ NoFrame \in Frames
         /\ NoInput.id \in Ids /\ NoInput \in [id : Ids, targets : SUBSET Points,
               frame : Frames, checked : Views, posted : Views]
         /\ NoCall \in [kind : {"observe", "act"}, region : SUBSET Points,
               mode : Modes, id : Ids, targets : SUBSET Points]
  <1>1. NoView \in Views
    BY FrameAssumption DEF NoView, View, Views
  <1>2. NothingSeen \in Readings
    BY <1>1, FrameAssumption DEF NothingSeen, Readings
  <1>3. NoFrame \in Frames
    BY <1>2, FrameAssumption DEF NoFrame, Frames, Ids
  <1>4. NoInput.id \in Ids /\ NoInput \in [id : Ids, targets : SUBSET Points,
          frame : Frames, checked : Views, posted : Views]
    BY <1>1, <1>3, FrameAssumption DEF NoInput, Ids
  <1>5. NoCall \in [kind : {"observe", "act"}, region : SUBSET Points,
          mode : Modes, id : Ids, targets : SUBSET Points]
    BY FrameAssumption DEF NoCall, Observe, Modes, Ids
  <1> QED BY <1>1, <1>2, <1>3, <1>4, <1>5

(* The shapes of what a call and a frame are given.                        *)
LEMMA SeenType == ASSUME TypeOK PROVE Seen \in Views
  BY DEF TypeOK, Seen, View, Views

(* What ending a call leaves.                                              *)
LEMMA IdleTypes ==
  ASSUME TypeOK, Idle
  PROVE  /\ pc' = "idle"
         /\ call' \in [kind : {"observe", "act"}, region : SUBSET Points,
                       mode : Modes, id : Ids, targets : SUBSET Points]
         /\ seen' \in Readings
  <1>1. layout \in Layouts /\ window \in Windows
    BY DEF TypeOK
  <1> QED BY <1>1, ConstantTypes DEF Idle

(* What FrameStore::clear leaves, in either port.                          *)
LEMMA ClearTypes ==
  ASSUME TypeOK, Clear
  PROVE  /\ frame' \in Frames /\ frame'.id = 0
         /\ nextId' = nextId /\ strayed' = strayed
         /\ file' \in Ids /\ lost' \in BOOLEAN
  <1>1. layout \in Layouts /\ window \in Windows
    BY DEF TypeOK
  <1>2. NoFrame \in Frames
    BY <1>1, ConstantTypes
  <1>3. NoFrame.id = 0
    BY DEF NoFrame
  <1>4. file' \in Ids
    BY FrameAssumption DEF TypeOK, Clear, Forgotten, FileDropped, Ids
  <1>5. lost' \in BOOLEAN
    <2>1. lost \in BOOLEAN
      BY DEF TypeOK
    <2>2. CASE port = "rust"
      BY <2>1, <2>2, Zenon DEF Clear, Forgotten
    <2>3. CASE port # "rust"
      BY <2>1, <2>3 DEF Clear, Forgotten
    <2> QED BY <2>2, <2>3
  <1> QED BY <1>2, <1>3, <1>4, <1>5 DEF Clear

(* What storing a new frame leaves.                                        *)
LEMMA ReplaceTypes ==
  ASSUME TypeInv, Observing, NEW path \in BOOLEAN, Replace(path)
  PROVE  /\ frame' \in Frames /\ frame'.id = nextId /\ frame'.id < nextId'
         /\ frame'.path = path
         /\ nextId' \in 1 .. MaxFrames + 1
  <1>1. nextId \in 1 .. MaxFrames /\ MaxFrames \in Nat
    BY FrameAssumption DEF TypeInv, TypeOK
  <1>2. call.region \in SUBSET Points /\ seen \in Readings
    BY DEF TypeInv, TypeOK
  <1>3. frame' = [id |-> nextId, region |-> call.region, path |-> path, view |-> seen]
    BY DEF Replace
  <1>4. frame' \in Frames
    BY <1>1, <1>2, <1>3 DEF Frames, Ids
  <1> QED BY <1>1, <1>3, <1>4 DEF Replace

(* What every variable but the desktop's own three must be.                *)
CallTypes ==
  /\ pc \in {"idle", "o-layout", "o-window", "o-capture", "o-again", "o-store",
             "a-layout", "a-window", "a-post", "exited", "aborted"}
  /\ call \in [kind : {"observe", "act"}, region : SUBSET Points, mode : Modes,
               id : Ids, targets : SUBSET Points]
  /\ seen \in Readings
StoreTypes ==
  /\ frame \in Frames
  /\ nextId \in 1 .. MaxFrames + 1
  /\ frame.id < nextId
  /\ file \in Ids /\ lost \in BOOLEAN /\ strayed \in BOOLEAN
DesktopTypes ==
  /\ port \in {"rust", "python"}
  /\ layout \in Layouts /\ window \in Windows /\ changes \in 0 .. MaxChanges
InputTypes ==
  input \in [id : Ids, targets : SUBSET Points, frame : Frames,
             checked : Views, posted : Views]

(* TypeOK and its parts, before and after a step.                          *)
LEMMA TypeParts ==
  /\ TypeOK <=> DesktopTypes /\ StoreTypes /\ CallTypes /\ InputTypes
  /\ TypeOK' <=> DesktopTypes' /\ StoreTypes' /\ CallTypes' /\ InputTypes'
  BY DEF TypeOK, DesktopTypes, StoreTypes, CallTypes, InputTypes

(* A part whose variables keep their values keeps its type.                *)
LEMMA TypesUnchanged ==
  /\ DesktopTypes /\ UNCHANGED desktop => DesktopTypes'
  /\ StoreTypes /\ UNCHANGED store => StoreTypes'
  /\ CallTypes /\ UNCHANGED <<pc, call, seen>> => CallTypes'
  /\ InputTypes /\ UNCHANGED input => InputTypes'
  BY DEF DesktopTypes, StoreTypes, CallTypes, InputTypes, desktop, store, disk

(* Clearing keeps the store's part.                                        *)
LEMMA ClearStore ==
  ASSUME TypeOK, Clear
  PROVE  StoreTypes' /\ nextId' = nextId
  BY ClearTypes DEF TypeOK, StoreTypes

(* Ending a call keeps the call's part.                                    *)
LEMMA IdleCall == ASSUME TypeOK, Idle PROVE CallTypes' /\ pc' = "idle"
  BY IdleTypes DEF CallTypes

(* The invariant of TypeCorrect is inductive.                              *)
LEMMA TypeInit == Init => TypeInv
  <1> SUFFICES ASSUME Init PROVE TypeInv
    OBVIOUS
  <1>1. layout \in Layouts /\ window \in Windows
    BY DEF Init
  <1>2. NothingSeen \in Readings /\ NoFrame \in Frames /\ InputTypes
    BY <1>1, ConstantTypes DEF Init, InputTypes
  <1>3. CallTypes
    BY <1>1, <1>2, ConstantTypes DEF Init, CallTypes
  <1>4. DesktopTypes
    BY FrameAssumption DEF Init, DesktopTypes
  <1>5. NoFrame.id = 0
    BY DEF NoFrame
  <1>6. StoreTypes
    <2>1. frame \in Frames /\ frame.id < nextId
      BY <1>2, <1>5 DEF Init
    <2>2. nextId \in 1 .. MaxFrames + 1 /\ file \in Ids
      BY FrameAssumption DEF Init, Ids
    <2>3. lost \in BOOLEAN /\ strayed \in BOOLEAN
      BY DEF Init
    <2> QED BY <2>1, <2>2, <2>3 DEF StoreTypes
  <1> QED BY <1>2, <1>3, <1>4, <1>6, TypeParts DEF Init, TypeInv, Observing

(* One case per action; each has one step per part it disturbs.            *)
LEMMA TypeStep == TypeInv /\ [Next]_vars => TypeInv'
  <1> SUFFICES ASSUME TypeInv, [Next]_vars PROVE TypeInv'
    OBVIOUS
  <1> USE DEF TypeInv
  <1>p. DesktopTypes /\ StoreTypes /\ CallTypes /\ InputTypes
    BY TypeParts
  <1>c. /\ MaxFrames \in Nat \ {0} /\ MaxChanges \in Nat /\ Seen \in Views
        /\ nextId \in Nat /\ changes \in 0 .. MaxChanges
        /\ layout \in Layouts /\ window \in Windows
    BY FrameAssumption, SeenType DEF TypeOK
  <1>1. CASE Change
    <2>1. DesktopTypes'
      BY <1>1, <1>c DEF Change, TypeOK, DesktopTypes
    <2>2. UNCHANGED store /\ UNCHANGED <<pc, call, seen>> /\ UNCHANGED input
      BY <1>1 DEF Change
    <2> QED BY <2>1, <2>2, <1>p, TypesUnchanged, TypeParts
            DEF Observing, store
  <1>2. CASE Fails
    <2>1. UNCHANGED desktop /\ UNCHANGED store /\ UNCHANGED input /\ Idle
      BY <1>2 DEF Fails
    <2> QED BY <2>1, <1>p, IdleCall, TypesUnchanged, TypeParts
            DEF Observing, store
  <1>3. CASE Start
    <2>1. UNCHANGED desktop /\ UNCHANGED store /\ seen' = seen
      BY <1>3 DEF Start
    <2>2. InputTypes'
      BY <1>3, <1>c, ConstantTypes DEF Start, InputTypes
    <2>3. CASE /\ nextId <= MaxFrames
               /\ \E region \in SUBSET Points \ {{}}, mode \in Modes :
                    call' = Observe(region, mode)
               /\ Goes("o-layout")
      <3>1. CallTypes'
        BY <2>1, <2>3, <1>c, <1>p DEF CallTypes, Observe, Goes, Ids
      <3> QED BY <2>1, <2>2, <2>3, <3>1, <1>p, TypesUnchanged, TypeParts
              DEF Observing, store
    <2>4. CASE /\ \E id \in 1 .. nextId, a, b \in Points : call' = Act(id, {a, b})
               /\ Goes("a-layout")
      <3>1. PICK id \in 1 .. nextId, a \in Points, b \in Points : call' = Act(id, {a, b})
        BY <2>4
      <3>2. id \in Ids
        BY <1>c DEF TypeOK, Ids
      <3>3. CallTypes'
        BY <2>1, <2>4, <3>1, <3>2, <1>p DEF CallTypes, Act, Goes, Modes
      <3> QED BY <2>1, <2>2, <2>4, <3>3, <1>p, TypesUnchanged, TypeParts
              DEF Observing, Goes
    <2> QED BY <1>3, <2>3, <2>4 DEF Start
  <1>4. CASE ObserveLayout
    <2>1. UNCHANGED desktop /\ UNCHANGED store /\ UNCHANGED input
      BY <1>4 DEF ObserveLayout
    <2>2. CallTypes'
      BY <1>4, <1>c, <1>p DEF ObserveLayout, CallTypes, Goes, Readings
    <2> QED BY <1>4, <2>1, <2>2, <1>p, TypesUnchanged, TypeParts
            DEF Observing, ObserveLayout, store
  <1>5. CASE ObserveWindow
    <2>1. UNCHANGED desktop /\ UNCHANGED store /\ UNCHANGED input
      BY <1>5 DEF ObserveWindow
    <2>2. View(seen.said.layout, window, changes) \in Views
      BY <1>c, <1>p DEF CallTypes, Readings, View, Views
    <2>3. CallTypes'
      BY <1>5, <2>2, <1>p DEF ObserveWindow, CallTypes, Goes, Readings
    <2> QED BY <1>5, <2>1, <2>3, <1>p, TypesUnchanged, TypeParts
            DEF Observing, ObserveWindow, store
  <1>6. CASE Capture
    <2>1. UNCHANGED desktop /\ UNCHANGED store /\ UNCHANGED input
      BY <1>6 DEF Capture
    <2>2. CallTypes'
      BY <1>6, <1>c, <1>p DEF Capture, CallTypes, Goes, Readings
    <2> QED BY <1>6, <2>1, <2>2, <1>p, TypesUnchanged, TypeParts
            DEF Observing, Capture, store
  <1>7. CASE ObserveAgain
    <2>1. UNCHANGED desktop /\ UNCHANGED input
      BY <1>7 DEF ObserveAgain
    <2>2. CASE Goes("o-store")
      <3>1. CASE UNCHANGED <<store, call>> /\ seen' = [seen EXCEPT !.until = changes]
        <4>1. CallTypes'
          BY <2>2, <3>1, <1>c, <1>p DEF CallTypes, Goes, Readings
        <4> QED BY <1>7, <2>1, <3>1, <4>1, <1>p, TypesUnchanged, TypeParts
                DEF Observing, ObserveAgain, store
      <3>2. CASE Clear /\ Idle
        BY <2>2, <3>2 DEF Goes, Idle
      <3> QED BY <1>7, <3>1, <3>2 DEF ObserveAgain
    <2>3. CASE Clear /\ Idle
      BY <2>1, <2>3, <1>p, IdleCall, ClearStore, TypesUnchanged, TypeParts DEF Observing
    <2> QED BY <1>7, <2>2, <2>3 DEF ObserveAgain
  <1>8. CASE Insert
    <2>1. UNCHANGED desktop /\ UNCHANGED input /\ Idle /\ Observing
      BY <1>8 DEF Insert, Observing
    <2>2. StoreTypes'
      <3>1. CASE Replace(FALSE) /\ file' = FileDropped
        <4>1. /\ frame' \in Frames /\ frame'.id < nextId'
              /\ nextId' \in 1 .. MaxFrames + 1
          BY <2>1, <3>1, ReplaceTypes
        <4>2. file' \in Ids
          BY <3>1, <1>c, <1>p DEF StoreTypes, FileDropped, Ids
        <4> QED BY <1>8, <4>1, <4>2, <1>p DEF Insert, StoreTypes
      <3>2. CASE UNCHANGED <<frame, nextId, file>>
        BY <1>8, <3>2, <1>p DEF Insert, StoreTypes
      <3> QED BY <1>8, <3>1, <3>2 DEF Insert
    <2> QED BY <2>1, <2>2, <1>p, IdleCall, TypesUnchanged, TypeParts DEF Observing
  <1>9. CASE InsertPath
    <2>1. UNCHANGED desktop /\ UNCHANGED input /\ Idle /\ Observing
      BY <1>9 DEF InsertPath, Observing
    <2>2. StoreTypes'
      <3>1. CASE UNCHANGED store
        BY <3>1, <1>p, TypesUnchanged
      <3>2. CASE Replace(TRUE) /\ file' = nextId /\ UNCHANGED <<lost, strayed>>
        <4>1. nextId \in Ids
          BY <1>c DEF TypeOK, Ids
        <4> QED BY <2>1, <3>2, <4>1, <1>p, ReplaceTypes DEF StoreTypes
      <3>3. CASE file' = Stray /\ strayed' = TRUE /\ UNCHANGED <<frame, nextId, lost>>
        <4>1. Stray \in Ids
          BY <1>c DEF Stray, Ids
        <4> QED BY <3>3, <4>1, <1>p DEF StoreTypes
      <3> QED BY <1>9, <3>1, <3>2, <3>3 DEF InsertPath
    <2> QED BY <2>1, <2>2, <1>p, IdleCall, TypesUnchanged, TypeParts DEF Observing
  <1>10. CASE ActLayout
    <2>1. UNCHANGED desktop /\ UNCHANGED store /\ UNCHANGED input
      BY <1>10 DEF ActLayout
    <2>2. CallTypes'
      BY <1>10, <1>c, <1>p DEF ActLayout, CallTypes, Goes, Readings
    <2> QED BY <1>10, <2>1, <2>2, <1>p, TypesUnchanged, TypeParts
            DEF Observing, ActLayout, Goes
  <1>11. CASE ActWindow
    <2>1. UNCHANGED desktop /\ UNCHANGED store /\ UNCHANGED input
      BY <1>11 DEF ActWindow
    <2>2. View(seen.said.layout, window, seen.said.changes) \in Views
      BY <1>c, <1>p DEF CallTypes, Readings, View, Views
    <2>3. CallTypes' /\ pc' \in {"a-post", "idle"}
      <3>1. CASE Idle
        BY <3>1, IdleCall
      <3>2. CASE ~Idle
        BY <1>11, <2>2, <3>2, <1>p DEF ActWindow, CallTypes, Goes, Readings
      <3> QED BY <3>1, <3>2
    <2> QED BY <2>1, <2>3, <1>p, TypesUnchanged, TypeParts DEF Observing
  <1>12. CASE Post
    <2>1. UNCHANGED desktop /\ UNCHANGED store /\ Idle
      BY <1>12 DEF Post
    <2>2. InputTypes'
      BY <1>12, <1>c, <1>p DEF Post, InputTypes, CallTypes, StoreTypes, Readings
    <2> QED BY <2>1, <2>2, <1>p, IdleCall, TypesUnchanged, TypeParts DEF Observing
  <1>13. CASE PostFails
    <2>1. UNCHANGED desktop /\ UNCHANGED store /\ UNCHANGED input /\ Idle
      BY <1>13 DEF PostFails
    <2> QED BY <2>1, <1>p, IdleCall, TypesUnchanged, TypeParts DEF Observing
  <1>14. CASE Shutdown
    <2>1. UNCHANGED desktop /\ UNCHANGED input /\ Clear
      BY <1>14 DEF Shutdown
    <2>2. CallTypes' /\ pc' = "exited"
      BY <1>14, <1>p DEF Shutdown, Goes, CallTypes
    <2> QED BY <2>1, <2>2, <1>p, ClearStore, TypesUnchanged, TypeParts DEF Observing
  <1>15. CASE Abort
    <2>1. UNCHANGED desktop /\ UNCHANGED input
      BY <1>15 DEF Abort
    <2>2. CallTypes' /\ pc' = "aborted"
      BY <1>15, <1>p DEF Abort, Goes, CallTypes
    <2>3. StoreTypes'
      BY <1>15, <1>p, ClearStore, TypesUnchanged DEF Abort
    <2> QED BY <2>1, <2>2, <2>3, <1>p, TypesUnchanged, TypeParts DEF Observing
  <1>16. CASE UNCHANGED vars
    BY <1>16, <1>p, TypesUnchanged, TypeParts DEF vars, Observing, store
  <1> QED BY <1>1, <1>2, <1>3, <1>4, <1>5, <1>6, <1>7, <1>8, <1>9, <1>10, <1>11,
             <1>12, <1>13, <1>14, <1>15, <1>16 DEF Next, Gone

(* The inductive form of TypeCorrect.                                      *)
LEMMA TypeInvariant == Spec => []TypeInv
  BY TypeInit, TypeStep, PTL DEF Spec

(* The store, the call and the input have the shape their readers expect,  *)
(* and ids never run out of order, for any desktop and any number of       *)
(* frames.                                                                 *)
THEOREM TypeCorrect == Spec => []TypeOK
  BY TypeInvariant, PTL DEF TypeInv

-----------------------------------------------------------------------------
(* The file.                                                               *)

(* Only a picture that was renamed and then refused can outlive its frame, *)
(* be forgotten with its directory, or be left at the end of the input.    *)
FileInv ==
  /\ FileIsCurrent
  /\ lost => strayed
  /\ pc = "exited" => (Leftover => strayed)

(* Clearing removes the frame's own picture and leaves a refused one.      *)
LEMMA ClearFile ==
  ASSUME FileInv, Clear
  PROVE  FileIsCurrent' /\ (lost' => strayed') /\ (Leftover' => strayed')
  <1>1. frame'.path = FALSE /\ strayed' = strayed
    BY DEF Clear, NoFrame
  <1>2. FileDropped # 0 => strayed /\ FileDropped = Stray
    BY DEF FileInv, FileIsCurrent, FileDropped
  <1>3. CASE port = "rust"
    <2>1. file' = 0 /\ lost' = (lost \/ FileDropped # 0)
      BY <1>3, Zenon DEF Clear, Forgotten
    <2>2. lost' => strayed'
      BY <1>1, <1>2, <2>1, Zenon DEF FileInv
    <2> QED BY <1>1, <2>1, <2>2 DEF FileIsCurrent, Leftover
  <1>4. CASE port # "rust"
    <2>1. file' = FileDropped /\ lost' = lost /\ (lost => strayed)
      BY <1>4 DEF Clear, Forgotten, FileInv
    <2> QED BY <1>1, <1>2, <2>1 DEF FileIsCurrent, Leftover, Stray
  <1> QED BY <1>3, <1>4

(* Only clear, insert and insert_path touch the file.                      *)
LEMMA FileStep == FileInv /\ [Next]_vars => FileInv'
  <1> SUFFICES ASSUME FileInv, [Next]_vars PROVE FileInv'
    OBVIOUS
  <1>1. CASE UNCHANGED store /\ (pc' = "exited" => pc = "exited")
    BY <1>1 DEF FileInv, FileIsCurrent, Leftover, store, disk, Stray
  <1>2. CASE Clear
    BY <1>2, ClearFile DEF FileInv
  <1>3. CASE Insert
    <2>1. pc' = "idle" /\ lost' = lost /\ strayed' = strayed
      BY <1>3 DEF Insert, Idle
    <2>2. CASE Replace(FALSE) /\ file' = FileDropped
      <3>1. frame'.path = FALSE
        BY <2>2 DEF Replace
      <3> QED BY <2>1, <2>2, <3>1 DEF FileInv, FileIsCurrent, FileDropped, Stray
    <2>3. CASE UNCHANGED <<frame, nextId, file>>
      BY <2>1, <2>3 DEF FileInv, FileIsCurrent, Stray
    <2> QED BY <1>3, <2>2, <2>3 DEF Insert
  <1>4. CASE InsertPath
    <2>1. pc' = "idle"
      BY <1>4 DEF InsertPath, Idle
    <2>2. CASE UNCHANGED store
      BY <2>1, <2>2 DEF FileInv, FileIsCurrent, store, disk, Stray
    <2>3. CASE Replace(TRUE) /\ file' = nextId /\ UNCHANGED <<lost, strayed>>
      <3>1. frame'.path = TRUE /\ frame'.id = nextId
        BY <2>3 DEF Replace
      <3> QED BY <2>1, <2>3, <3>1 DEF FileInv, FileIsCurrent
    <2>4. CASE file' = Stray /\ strayed' = TRUE /\ UNCHANGED <<frame, nextId, lost>>
      BY <2>1, <2>4 DEF FileInv, FileIsCurrent, Stray
    <2> QED BY <1>4, <2>2, <2>3, <2>4 DEF InsertPath
  <1>5. CASE Next /\ ~Clear /\ ~Insert /\ ~InsertPath
    <2> UNCHANGED store /\ (pc' = "exited" => pc = "exited")
      BY <1>5 DEF Next, Change, Fails, Start, ObserveLayout, ObserveWindow, Capture,
         ObserveAgain, ActLayout, ActWindow, Post, PostFails, Shutdown, Abort, Gone,
         vars, Goes, Idle, store
    <2> QED BY <1>1
  <1>6. CASE UNCHANGED vars
    BY <1>1, <1>6 DEF vars
  <1> QED BY <1>2, <1>3, <1>4, <1>5, <1>6

(* The inductive form of the two theorems below.                           *)
LEMMA FileInvariant == Spec => []FileInv
  <1>1. Init => FileInv
    BY DEF Init, FileInv, FileIsCurrent, Leftover, NoFrame
  <1> QED BY <1>1, FileStep, PTL DEF Spec

(* current.png is the stored frame's picture or a refused one, whatever    *)
(* observations, clearings and failures came before.                       *)
THEOREM FileBelongsToFrame == Spec => []FileIsCurrent
  BY FileInvariant, PTL DEF FileInv

(* Nothing is left on disk when the input has ended, a refused picture     *)
(* excepted.                                                               *)
THEOREM RemovedAtEndOfInput == Spec => []ShutdownRemoves
  <1>1. FileInv => ShutdownRemoves
    BY DEF FileInv, ShutdownRemoves
  <1> QED BY <1>1, FileInvariant, PTL

(* The picture on disk follows the stored frame to the end.                *)
THEOREM FileFollowsFrame == Spec => []FileTracksFrame
  BY FileBelongsToFrame, RemovedAtEndOfInput, PTL DEF FileTracksFrame

-----------------------------------------------------------------------------
(* What was seen, and when.                                                *)

(* A view that was true of the application in front when it was taken, and *)
(* is still unless something has changed since.                            *)
SinceWindow(view) ==
  view.changes <= changes /\ (view.changes = changes => view.window = window)
SinceLayout(view) ==
  view.changes <= changes /\ (view.changes = changes => view.layout = layout)

(* A picture of another application than the one it names took two changes.*)
Caught(view) ==
  view.shot.window # view.said.window => view.until >= view.said.changes + 2

PictureInv ==
  /\ Caught(frame.view)
  /\ pc = "o-capture" => SinceWindow(seen.said)
  /\ pc = "o-again" =>
       /\ SinceWindow(seen.shot)
       /\ seen.shot.window # seen.said.window =>
            seen.shot.changes > seen.said.changes
  /\ pc = "o-store" => Caught(seen)

(* An input about to be posted, and one posted, against the frame that     *)
(* authorized it.  A frame is never newer than the call that uses it.      *)
InputInv ==
  /\ seen.shot.changes <= changes
  /\ frame.view.shot.changes <= changes
  /\ pc = "a-window" =>
       SinceLayout(seen.said) /\ frame.view.shot.changes <= seen.said.changes
  /\ pc = "a-post" =>
       /\ SinceLayout(seen.said) /\ SinceWindow(seen.said)
       /\ frame.view.shot.changes <= seen.said.changes
       /\ Authorizes(call.id, seen.said, call.targets)

(* What InputInv makes of an input once it is posted.                      *)
InputsLand == UndisturbedInputLands /\ StaleOnlyByRace

(* The moments of readings and the user's clock are numbers.               *)
LEMMA Clocks ==
  ASSUME TypeOK
  PROVE  /\ changes \in Nat
         /\ seen.said.changes \in Nat /\ seen.shot.changes \in Nat
         /\ seen.until \in Nat
         /\ frame.view.said.changes \in Nat /\ frame.view.shot.changes \in Nat
         /\ frame.view.until \in Nat
  BY FrameAssumption DEF TypeOK, Readings, Views, Frames

(* A capture between two equal looks at the window.                        *)
LEMMA PictureStep == TypeOK /\ PictureInv /\ [Next]_vars => PictureInv'
  <1> SUFFICES ASSUME TypeOK, PictureInv, [Next]_vars PROVE PictureInv'
    OBVIOUS
  <1>c. /\ changes \in Nat
        /\ seen.said.changes \in Nat /\ seen.shot.changes \in Nat
        /\ seen \in Readings
    BY Clocks DEF TypeOK
  <1>0. Caught(NothingSeen) /\ Caught(NoFrame.view)
    BY DEF Caught, NothingSeen, NoFrame
  <1>1. CASE Change
    BY <1>1, <1>c DEF Change, PictureInv, Caught, SinceWindow, store
  <1>2. CASE ObserveWindow
    <2>1. seen'.said = View(seen.said.layout, window, changes)
      BY <1>2, <1>c DEF ObserveWindow, Readings
    <2>2. SinceWindow(seen.said)'
      BY <1>2, <1>c, <2>1 DEF ObserveWindow, View, SinceWindow, desktop
    <2> QED BY <1>2, <2>2 DEF ObserveWindow, PictureInv, Caught, Goes, store
  <1>3. CASE Capture
    <2>1. seen'.shot = Seen /\ seen'.said = seen.said
      BY <1>3, <1>c DEF Capture, Readings
    <2>2. SinceWindow(seen.said)
      BY <1>3 DEF Capture, PictureInv
    <2>3. pc' = "o-again" /\ UNCHANGED desktop /\ UNCHANGED frame
      BY <1>3 DEF Capture, Goes, store
    <2>4. SinceWindow(seen.shot)'
      BY <1>c, <2>1, <2>3 DEF Seen, View, SinceWindow, desktop
    <2>5. seen'.shot.window # seen'.said.window =>
            seen'.shot.changes > seen'.said.changes
      BY <1>c, <2>1, <2>2 DEF Seen, View, SinceWindow
    <2> QED BY <2>3, <2>4, <2>5 DEF PictureInv, Caught
  <1>4. CASE ObserveAgain
    <2>1. CASE Idle
      <3>1. frame' = frame \/ frame' = NoFrame
        BY <1>4, <2>1 DEF ObserveAgain, Clear, store
      <3> QED BY <2>1, <3>1, <1>0 DEF PictureInv, Idle, Caught
    <2>2. CASE ~Idle
      <3>1. /\ window = seen.said.window
            /\ seen' = [seen EXCEPT !.until = changes]
            /\ pc' = "o-store" /\ frame' = frame
        BY <1>4, <2>2 DEF ObserveAgain, Goes, store
      <3>2. seen'.until = changes /\ seen'.shot = seen.shot /\ seen'.said = seen.said
        BY <1>c, <3>1 DEF Readings
      <3>3. /\ SinceWindow(seen.shot)
            /\ seen.shot.window # seen.said.window =>
                 seen.shot.changes > seen.said.changes
        BY <1>4 DEF ObserveAgain, PictureInv
      <3>4. Caught(seen')
        BY <1>c, <3>1, <3>2, <3>3 DEF SinceWindow, Caught
      <3> QED BY <3>1, <3>4 DEF PictureInv, Caught
    <2> QED BY <2>1, <2>2
  <1>5. CASE Insert \/ InsertPath
    <2>1. pc' = "idle" /\ Caught(seen)
      BY <1>5 DEF Insert, InsertPath, Idle, PictureInv
    <2>2. frame' = frame \/ frame'.view = seen
      BY <1>5 DEF Insert, InsertPath, Replace, store
    <2> QED BY <2>1, <2>2 DEF PictureInv, Caught
  <1>6. CASE Shutdown \/ Abort
    <2>1. frame' = frame \/ frame' = NoFrame
      BY <1>6 DEF Shutdown, Abort, Clear, store
    <2> QED BY <1>6, <2>1, <1>0 DEF Shutdown, Abort, Goes, PictureInv, Caught
  <1>7. CASE Fails \/ Start \/ ObserveLayout \/ ActLayout \/ ActWindow \/ Post
               \/ PostFails
    <2>1. frame' = frame
      BY <1>7 DEF Fails, Start, ObserveLayout, ActLayout, ActWindow, Post, PostFails,
         store
    <2>2. pc' \notin {"o-capture", "o-again", "o-store"}
      BY <1>7 DEF Fails, Start, ObserveLayout, ActLayout, ActWindow, Post, PostFails,
         Idle, Goes
    <2> QED BY <2>1, <2>2 DEF PictureInv, Caught
  <1>8. CASE UNCHANGED vars
    BY <1>8 DEF vars, desktop, store, PictureInv, Caught, SinceWindow
  <1> QED BY <1>1, <1>2, <1>3, <1>4, <1>5, <1>6, <1>7, <1>8 DEF Next, Gone

(* Whatever the user does, a frame's picture shows the application it      *)
(* names unless the user left it and returned during the capture.          *)
THEOREM SecondLookCatches == Spec => []PictureShowsWindow
  <1>1. Init => PictureInv
    BY DEF Init, PictureInv, Caught, NoFrame, NothingSeen
  <1>2. PictureInv => PictureShowsWindow
    BY DEF PictureInv, Caught, PictureShowsWindow
  <1> QED BY <1>1, <1>2, PictureStep, TypeCorrect, PTL DEF Spec

(* A frame is never newer than the call that uses it.                      *)
LEMMA InputStep == TypeOK /\ InputInv /\ [Next]_vars => InputInv'
  <1> SUFFICES ASSUME TypeOK, InputInv, [Next]_vars PROVE InputInv'
    OBVIOUS
  <1>c. /\ changes \in Nat
        /\ seen.said.changes \in Nat /\ seen.shot.changes \in Nat
        /\ frame.view.shot.changes \in Nat
        /\ seen \in Readings
    BY Clocks DEF TypeOK
  <1>0. NothingSeen.shot.changes = 0 /\ NoFrame.view.shot.changes = 0
    BY DEF NothingSeen, NoFrame, NoView, View
  <1>1. CASE Change
    <2>1. changes' = changes + 1 /\ UNCHANGED <<store, pc, call, seen>>
      BY <1>1 DEF Change
    <2>2. frame' = frame
      BY <2>1 DEF store
    <2> QED BY <1>c, <2>1, <2>2
            DEF InputInv, SinceWindow, SinceLayout, Authorizes
  <1>2. CASE Capture
    <2>1. seen'.shot = Seen /\ pc' = "o-again" /\ UNCHANGED <<changes, frame>>
      BY <1>2, <1>c DEF Capture, Goes, Readings, desktop, store
    <2> QED BY <1>c, <2>1 DEF InputInv, Seen, View
  <1>3. CASE ActLayout
    <2>1. /\ seen'.said = Seen /\ seen'.shot = seen.shot
          /\ pc' = "a-window" /\ UNCHANGED <<desktop, frame>>
      BY <1>3, <1>c DEF ActLayout, Goes, Readings, store
    <2>2. SinceLayout(seen.said)'
      BY <1>c, <2>1 DEF SinceLayout, Seen, View, desktop
    <2> QED BY <1>c, <2>1, <2>2 DEF InputInv, Seen, View, desktop
  <1>4. CASE ActWindow
    <2>1. UNCHANGED <<desktop, frame>>
      BY <1>4 DEF ActWindow, store
    <2>2. CASE Idle
      BY <1>c, <1>0, <2>1, <2>2 DEF InputInv, Idle, desktop
    <2>3. CASE ~Idle
      <3> DEFINE view == View(seen.said.layout, window, seen.said.changes)
      <3>1. /\ Authorizes(call.id, view, call.targets)
            /\ seen' = [seen EXCEPT !.said = view]
            /\ pc' = "a-post" /\ call' = call
        BY <1>4, <2>3 DEF ActWindow, Goes
      <3>2. seen'.said = view /\ seen'.shot = seen.shot
        BY <1>c, <3>1 DEF Readings
      <3>3. SinceLayout(seen.said) /\ frame.view.shot.changes <= seen.said.changes
        BY <1>4 DEF ActWindow, InputInv
      <3>4. SinceLayout(seen.said)' /\ SinceWindow(seen.said)'
        BY <1>c, <2>1, <3>2, <3>3 DEF SinceLayout, SinceWindow, View, desktop
      <3>5. seen'.said.changes = seen.said.changes
        BY <3>2 DEF View
      <3>6. Authorizes(call.id, seen.said, call.targets)'
        BY <2>1, <3>1, <3>2 DEF Authorizes
      <3> QED BY <1>c, <2>1, <3>1, <3>2, <3>3, <3>4, <3>5, <3>6
              DEF InputInv, desktop
    <2> QED BY <2>2, <2>3
  <1>5. CASE Insert \/ InsertPath
    <2>1. pc' = "idle" /\ seen' = NothingSeen /\ changes' = changes
      BY <1>5 DEF Insert, InsertPath, Idle, desktop
    <2>2. frame' = frame \/ frame'.view = seen
      BY <1>5 DEF Insert, InsertPath, Replace, store
    <2> QED BY <1>c, <1>0, <2>1, <2>2 DEF InputInv
  <1>6. CASE ObserveAgain \/ Shutdown \/ Abort
    <2>1. frame' = frame \/ frame' = NoFrame
      BY <1>6 DEF ObserveAgain, Shutdown, Abort, Clear, store
    <2>2. seen'.shot.changes = seen.shot.changes \/ seen' = NothingSeen
      BY <1>6, <1>c DEF ObserveAgain, Shutdown, Abort, Idle, Readings
    <2>3. pc' \notin {"a-window", "a-post"} /\ changes' = changes
      BY <1>6 DEF ObserveAgain, Shutdown, Abort, Idle, Goes, desktop
    <2> QED BY <1>c, <1>0, <2>1, <2>2, <2>3 DEF InputInv
  <1>7. CASE Fails \/ Start \/ ObserveLayout \/ ObserveWindow \/ Post \/ PostFails
    <2>1. frame' = frame /\ changes' = changes
      BY <1>7 DEF Fails, Start, ObserveLayout, ObserveWindow, Post, PostFails,
         store, desktop
    <2>2. seen'.shot.changes = seen.shot.changes \/ seen' = NothingSeen
      BY <1>7, <1>c DEF Fails, Start, ObserveLayout, ObserveWindow, Post, PostFails,
         Idle, Readings
    <2>3. pc' \notin {"a-window", "a-post"}
      BY <1>7 DEF Fails, Start, ObserveLayout, ObserveWindow, Post, PostFails,
         Idle, Goes
    <2> QED BY <1>c, <1>0, <2>1, <2>2, <2>3 DEF InputInv
  <1>8. CASE UNCHANGED vars
    BY <1>8 DEF vars, desktop, store, InputInv, SinceWindow, SinceLayout, Authorizes
  <1> QED BY <1>1, <1>2, <1>3, <1>4, <1>5, <1>6, <1>7, <1>8 DEF Next, Gone

(* What the checks before the post make of the input.                      *)
LEMMA LandStep == TypeOK /\ InputInv /\ InputsLand /\ [Next]_vars => InputsLand'
  <1> SUFFICES ASSUME TypeOK, InputInv, InputsLand, [Next]_vars PROVE InputsLand'
    OBVIOUS
  <1>1. CASE Post
    <2>1. /\ input' = [id |-> call.id, targets |-> call.targets, frame |-> frame,
                       checked |-> seen.said, posted |-> Seen]
          /\ SinceLayout(seen.said) /\ SinceWindow(seen.said)
          /\ frame.view.shot.changes <= seen.said.changes
          /\ Authorizes(call.id, seen.said, call.targets)
      BY <1>1 DEF Post, InputInv
    <2>2. /\ input'.id = call.id /\ input'.targets = call.targets
          /\ input'.frame = frame /\ input'.checked = seen.said
          /\ input'.posted.changes = changes /\ input'.posted.layout = layout
          /\ input'.posted.window = window
      BY <2>1 DEF Seen, View
    <2>3. seen.said.changes # changes => changes > seen.said.changes
      BY <2>1, Clocks DEF SinceLayout
    <2>4. seen.said.changes = changes =>
            seen.said.layout = layout /\ seen.said.window = window
      BY <2>1 DEF SinceLayout, SinceWindow
    <2>5. changes = frame.view.shot.changes => seen.said.changes = changes
      BY <2>1, Clocks DEF SinceLayout
    <2>6. StaleOnlyByRace'
      BY <2>1, <2>2, <2>3, <2>4 DEF StaleOnlyByRace, Authorizes
    <2>7. UndisturbedInputLands'
      BY <2>1, <2>2, <2>4, <2>5 DEF UndisturbedInputLands, Authorizes
    <2> QED BY <2>6, <2>7 DEF InputsLand
  <1>2. CASE Start
    <2>1. input'.id = 0
      BY <1>2 DEF Start, NoInput
    <2> QED BY <2>1 DEF InputsLand, UndisturbedInputLands, StaleOnlyByRace
  <1>3. CASE ~Post /\ ~Start
    <2>1. input' = input
      BY <1>3 DEF Next, Change, Fails, ObserveLayout, ObserveWindow, Capture,
         ObserveAgain, Insert, InsertPath, ActLayout, ActWindow, PostFails, Shutdown,
         Abort, Gone, vars
    <2> QED BY <2>1 DEF InputsLand, UndisturbedInputLands, StaleOnlyByRace
  <1> QED BY <1>1, <1>2, <1>3

(* The inductive form of the two theorems below.                           *)
LEMMA InputInvariant == Spec => []InputsLand
  <1>1. Init => InputInv /\ InputsLand
    BY DEF Init, InputInv, InputsLand, UndisturbedInputLands, StaleOnlyByRace,
       NoInput, NoFrame, NothingSeen, NoView, View
  <1> QED BY <1>1, InputStep, LandStep, TypeCorrect, PTL DEF Spec

(* If nobody has touched the desktop since the picture was taken, input    *)
(* lands in the region of the frame the client named, on a display, in the *)
(* application the frame names.                                            *)
THEOREM InputLandsWhereSeen == Spec => []UndisturbedInputLands
  BY InputInvariant, PTL DEF InputsLand

(* Input meets another arrangement or application than was observed only   *)
(* if the user made the change during that very call.                      *)
THEOREM StaleInputIsARace == Spec => []StaleOnlyByRace
  BY InputInvariant, PTL DEF InputsLand
=============================================================================
