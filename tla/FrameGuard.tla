----------------------------- MODULE FrameGuard ------------------------------
(***************************************************************************)
(* Observations and the coordinates they authorize, in both ports: the     *)
(* store of one frame, and observing, checking and acting around it        *)
(*   rust    src/desktop/rust/src/frames.rs, and observe, frame_preflight  *)
(*           and pointer of src/desktop/rust/src/controller.rs             *)
(*   python  src/desktop/frames.py, and _observe and _validate_frame of    *)
(*           src/desktop/controller.py                                     *)
(*                                                                         *)
(* The controller reads the desktop in several steps, and the user goes on *)
(* using it between any two: a display is plugged, another application     *)
(* comes to the front.  A picture is known by what was on the desktop when *)
(* it was taken; a coordinate is one of a few points.                      *)
(***************************************************************************)
EXTENDS Naturals

CONSTANTS
  Windows,    \* applications that may be in front
  Layouts,    \* display arrangements
  Points,     \* coordinates a client may name
  Bounds,     \* the points in the bounding box of a layout
  Shown,      \* those that lie on one of its displays
  MaxFrames,  \* bound on FRAME_SEQUENCE
  MaxChanges  \* bound on what the user changes

ASSUME FrameAssumption ==
  /\ Shown \in [Layouts -> SUBSET Points]
  /\ Bounds \in [Layouts -> SUBSET Points]
  /\ \A l \in Layouts : Shown[l] \subseteq Bounds[l]
  /\ MaxFrames \in Nat \ {0}
  /\ MaxChanges \in Nat

VARIABLES
  port,           \* the controller: "rust" or "python"
  layout, window, \* the desktop: its displays, and the application in front
  changes,        \* how often the user has changed either
  frame,          \* FrameStore.frame
  nextId,         \* FRAME_SEQUENCE
  file,           \* whose picture current.png is: a frame's id, Stray, or 0
  lost,           \* a directory with a picture in it was forgotten
  strayed,        \* a picture was ever written for a frame then not stored
  pc,             \* where the controller is in the current call
  call,           \* the call: what to observe, or where to act and on which frame
  seen,           \* what the call has read of the desktop so far
  input           \* what the last call posted, forgotten when the next one starts

desktop == <<port, layout, window, changes>>
disk    == <<file, lost, strayed>>
store   == <<frame, nextId, disk>>
vars == <<desktop, store, pc, call, seen, input>>

Modes == {"metadata", "image", "path"}
Observe(region, mode) ==
  [kind |-> "observe", region |-> region, mode |-> mode, id |-> 0, targets |-> {}]
Act(id, targets) ==
  [kind |-> "act", region |-> {}, mode |-> "metadata", id |-> id, targets |-> targets]
NoCall == Observe({}, "metadata")

(* What the desktop looked like after so many of the user's changes.  A    *)
(* call keeps what it has read: what it will say the desktop was, what the *)
(* picture shows, and when it last looked.                                 *)
View(l, w, n) == [layout |-> l, window |-> w, changes |-> n]
Seen == View(layout, window, changes)

NoView == View(CHOOSE l \in Layouts : TRUE, CHOOSE w \in Windows : TRUE, 0)
NothingSeen == [said |-> NoView, shot |-> NoView, until |-> 0]
NoFrame == [id |-> 0, region |-> {}, path |-> FALSE, view |-> NothingSeen]
NoInput == [id |-> 0, targets |-> {}, frame |-> NoFrame,
            checked |-> NoView, posted |-> NoView]
Stray == MaxFrames + 1

Init ==
  /\ port \in {"rust", "python"}
  /\ layout \in Layouts
  /\ window \in Windows
  /\ changes = 0
  /\ frame = NoFrame /\ nextId = 1
  /\ file = 0 /\ lost = FALSE /\ strayed = FALSE
  /\ pc = "idle" /\ call = NoCall /\ seen = NothingSeen
  /\ input = NoInput

-----------------------------------------------------------------------------
(* The user.                                                               *)

Change ==
  /\ pc \notin {"exited", "aborted"}
  /\ changes < MaxChanges
  /\ changes' = changes + 1
  /\ \/ layout' \in Layouts \ {layout} /\ UNCHANGED window
     \/ window' \in Windows \ {window} /\ UNCHANGED layout
  /\ UNCHANGED <<port, store, pc, call, seen, input>>

-----------------------------------------------------------------------------
(* The store.                                                              *)

(* Mutant: a frame without a path leaves its predecessor's picture.        *)
FileDroppedNever == file

(* drop_path: removes the picture of a path frame.                         *)
FileDropped == IF frame.path THEN 0 ELSE file

(* What clear() does to the directory of the pictures.  The Rust port      *)
(* removes it if it is empty and forgets it in any case; in the Python     *)
(* port removing one with a picture in it raises, and it is kept.          *)
Forgotten ==
  IF port = "rust"
  THEN file' = 0 /\ lost' = (lost \/ FileDropped # 0)
  ELSE file' = FileDropped /\ UNCHANGED lost

Clear ==
  /\ frame' = NoFrame
  /\ Forgotten
  /\ UNCHANGED <<nextId, strayed>>

(* Mutant: the id is taken without moving the sequence on.                 *)
ReplaceWithoutNext(path) ==
  /\ frame' = [id |-> nextId, region |-> call.region, path |-> path,
               view |-> seen]
  /\ nextId' = nextId

(* replace_frame: a new id for a new frame.                                *)
Replace(path) ==
  /\ frame' = [id |-> nextId, region |-> call.region, path |-> path,
               view |-> seen]
  /\ nextId' = nextId + 1

(* Mutant: any id the store ever gave out will do.                         *)
AuthorizesAnyId(id, view, targets) ==
  /\ frame.id # 0
  /\ frame.view.said.layout = view.layout
  /\ frame.view.said.window = view.window
  /\ targets \subseteq frame.region \cap Shown[view.layout]

(* Mutant: the application in front is not compared.                       *)
AuthorizesAnyWindow(id, view, targets) ==
  /\ frame.id = id
  /\ frame.view.said.layout = view.layout
  /\ targets \subseteq frame.region \cap Shown[view.layout]

(* authorizes(): the id is the stored frame's, geometry and application    *)
(* are the observed ones, and every target is in the region and on a       *)
(* display.                                                                *)
Authorizes(id, view, targets) ==
  /\ frame.id = id
  /\ frame.view.said.layout = view.layout
  /\ frame.view.said.window = view.window
  /\ targets \subseteq frame.region \cap Shown[view.layout]

-----------------------------------------------------------------------------
(* The calls.                                                              *)

Goes(where) == pc' = where
Idle == pc' = "idle" /\ call' = NoCall /\ seen' = NothingSeen

(* A read of the desktop fails, its answer is no valid layout, the region  *)
(* is outside or the capture is over budget: the call ends, nothing is     *)
(* stored or posted.                                                       *)
Fails ==
  /\ pc \in {"o-layout", "o-window", "o-capture", "o-again", "a-layout", "a-window"}
  /\ Idle
  /\ UNCHANGED <<desktop, store, input>>

Start ==
  /\ pc = "idle"
  /\ \/ /\ nextId <= MaxFrames
        /\ \E region \in SUBSET Points \ {{}}, mode \in Modes :
             call' = Observe(region, mode)
        /\ Goes("o-layout")
     \/ /\ \E id \in 1 .. nextId, a, b \in Points : call' = Act(id, {a, b})
        /\ Goes("a-layout")
  /\ input' = NoInput
  /\ UNCHANGED <<desktop, store, seen>>

ObserveLayout ==
  /\ pc = "o-layout"
  /\ call.region \subseteq Bounds[layout]
  /\ seen' = [seen EXCEPT !.said = Seen]
  /\ Goes("o-window")
  /\ UNCHANGED <<desktop, store, call, input>>

ObserveWindow ==
  /\ pc = "o-window"
  /\ seen' = [seen EXCEPT !.said = View(seen.said.layout, window, changes)]
  /\ Goes("o-capture")
  /\ UNCHANGED <<desktop, store, call, input>>

Capture ==
  /\ pc = "o-capture"
  /\ seen' = [seen EXCEPT !.shot = Seen]
  /\ Goes("o-again")
  /\ UNCHANGED <<desktop, store, call, input>>

(* Mutant: there is no second look.                                        *)
ObserveAgainBlind ==
  /\ pc = "o-again"
  /\ seen' = [seen EXCEPT !.until = changes]
  /\ Goes("o-store")
  /\ UNCHANGED <<desktop, store, call, input>>

(* The second look at the application in front.  Another one clears the    *)
(* store, and so do, in the Rust port, bytes that are no PNG.              *)
ObserveAgain ==
  /\ pc = "o-again"
  /\ \/ /\ window = seen.said.window
        /\ seen' = [seen EXCEPT !.until = changes]
        /\ Goes("o-store")
        /\ UNCHANGED <<store, call>>
     \/ (port = "rust" \/ window # seen.said.window) /\ Clear /\ Idle
  /\ UNCHANGED <<desktop, input>>

(* insert: the picture stays in memory, or only its metadata does.         *)
Insert ==
  /\ pc = "o-store"
  /\ call.mode # "path"
  /\ \/ Replace(FALSE) /\ file' = FileDropped
     \/ UNCHANGED <<frame, nextId, file>>      \* too large after all
  /\ UNCHANGED <<lost, strayed>>
  /\ Idle
  /\ UNCHANGED <<desktop, input>>

(* Mutant: the file is replaced before the size is checked.                *)
InsertPathEarly ==
  /\ pc = "o-store"
  /\ call.mode = "path"
  /\ file' = nextId
  /\ \/ Replace(TRUE)
     \/ UNCHANGED <<frame, nextId>>
  /\ UNCHANGED <<lost, strayed>>
  /\ Idle
  /\ UNCHANGED <<desktop, input>>

(* insert_path: too large or not written; written, renamed and stored; or  *)
(* renamed and then found not to be an owner-private regular file.         *)
InsertPath ==
  /\ pc = "o-store"
  /\ call.mode = "path"
  /\ \/ UNCHANGED store
     \/ Replace(TRUE) /\ file' = nextId /\ UNCHANGED <<lost, strayed>>
     \/ file' = Stray /\ strayed' = TRUE /\ UNCHANGED <<frame, nextId, lost>>
  /\ Idle
  /\ UNCHANGED <<desktop, input>>

ActLayout ==
  /\ pc = "a-layout"
  /\ seen' = [seen EXCEPT !.said = Seen]
  /\ Goes("a-window")
  /\ UNCHANGED <<desktop, store, call, input>>

(* frame_preflight decides on the layout it read first and the application *)
(* it reads now.                                                           *)
ActWindow ==
  /\ pc = "a-window"
  /\ LET view == View(seen.said.layout, window, seen.said.changes) IN
     IF Authorizes(call.id, view, call.targets)
     THEN Goes("a-post") /\ seen' = [seen EXCEPT !.said = view] /\ UNCHANGED call
     ELSE Idle
  /\ UNCHANGED <<desktop, store, input>>

(* travel, then the click, drag or end of the move.  The desktop is not    *)
(* looked at again.                                                        *)
Post ==
  /\ pc = "a-post"
  /\ input' = [id |-> call.id, targets |-> call.targets, frame |-> frame,
               checked |-> seen.said, posted |-> Seen]
  /\ Idle
  /\ UNCHANGED <<desktop, store>>

(* A cancellation or a failure on the way, before anything was posted.     *)
PostFails ==
  /\ pc = "a-post"
  /\ Idle
  /\ UNCHANGED <<desktop, store, input>>

(* The input ended: the store is dropped, or closed by run().              *)
Shutdown ==
  /\ pc = "idle"
  /\ Goes("exited")
  /\ Clear
  /\ UNCHANGED <<desktop, call, seen, input>>

(* The reader of the service fails.  run_stdio returns in the middle of a  *)
(* call and the worker's store is never dropped; McpServer.run waits for   *)
(* the call and skips close(), and whether the interpreter finalizes the   *)
(* store on its way out is open.                                           *)
Abort ==
  /\ pc \notin {"exited", "aborted"}
  /\ port = "python" => pc = "idle"
  /\ Goes("aborted")
  /\ UNCHANGED store \/ (port = "python" /\ Clear)
  /\ UNCHANGED <<desktop, call, seen, input>>

Gone == pc \in {"exited", "aborted"} /\ UNCHANGED vars

Next == Change \/ Fails \/ Start \/ ObserveLayout \/ ObserveWindow \/ Capture
          \/ ObserveAgain \/ Insert \/ InsertPath \/ ActLayout \/ ActWindow \/ Post
          \/ PostFails \/ Shutdown \/ Abort \/ Gone

Spec == Init /\ [][Next]_vars

-----------------------------------------------------------------------------
(* Correctness.                                                            *)

Views == [layout : Layouts, window : Windows, changes : 0 .. MaxChanges]
Readings == [said : Views, shot : Views, until : 0 .. MaxChanges]
Ids == 0 .. MaxFrames + 1
Frames == [id : Ids, region : SUBSET Points, path : BOOLEAN, view : Readings]

(* Every variable has the shape its readers expect.                        *)
TypeOK ==
  /\ port \in {"rust", "python"}
  /\ layout \in Layouts /\ window \in Windows /\ changes \in 0 .. MaxChanges
  /\ frame \in Frames
  /\ nextId \in 1 .. MaxFrames + 1
  /\ frame.id < nextId
  /\ file \in Ids /\ lost \in BOOLEAN /\ strayed \in BOOLEAN
  /\ pc \in {"idle", "o-layout", "o-window", "o-capture", "o-again", "o-store",
             "a-layout", "a-window", "a-post", "exited", "aborted"}
  /\ call \in [kind : {"observe", "act"}, region : SUBSET Points, mode : Modes,
               id : Ids, targets : SUBSET Points]
  /\ seen \in Readings
  /\ input \in [id : Ids, targets : SUBSET Points, frame : Frames,
                checked : Views, posted : Views]

(* The application a frame names is the one its picture shows, unless the  *)
(* user left it and came back during the capture: observe's second look    *)
(* catches every single switch.                                            *)
PictureShowsWindow ==
  frame.view.shot.window # frame.view.said.window =>
    frame.view.until >= frame.view.said.changes + 2

(* If nobody touched the desktop since the picture was taken, input goes   *)
(* where the client saw it go: inside the region of the frame the client   *)
(* named, on a display, to the application the frame names (frame_preflight *)
(* and authorizes, with their two reads and the travel between).           *)
UndisturbedInputLands ==
  input.id # 0 /\ input.posted.changes = input.frame.view.shot.changes =>
    /\ input.id = input.frame.id
    /\ input.targets \subseteq input.frame.region \cap Shown[input.posted.layout]
    /\ input.posted.window = input.frame.view.said.window

(* Input reaches another application, or another arrangement of displays,  *)
(* than its frame was observed with only if the user made the change       *)
(* during that very call.                                                  *)
StaleOnlyByRace ==
  input.id # 0 =>
    \/ /\ input.posted.window = input.frame.view.said.window
       /\ input.posted.layout = input.frame.view.said.layout
    \/ input.posted.changes > input.checked.changes

(* current.png is the picture of the stored frame, or it is gone; the one  *)
(* exception is a picture that replace_path renamed into place and then    *)
(* refused.                                                                *)
FileIsCurrent ==
  file \in (IF frame.path THEN {frame.id} ELSE {0})
            \cup (IF strayed THEN {Stray} ELSE {})

(* A server whose input ends leaves no picture behind (Drop, close), with  *)
(* the same exception.                                                     *)
Leftover == lost \/ file # 0
ShutdownRemoves == pc = "exited" /\ ~strayed => ~Leftover

(* The file follows the frame for as long as the server lives, and after.  *)
FileTracksFrame == FileIsCurrent /\ ShutdownRemoves

(* README.md: "Path mode atomically replaces one owner-private temporary   *)
(* file and removes it at shutdown."                                       *)
RemovedAtShutdown == pc \in {"exited", "aborted"} => ~Leftover
=============================================================================
