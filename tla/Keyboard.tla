------------------------------- MODULE Keyboard -------------------------------
(***************************************************************************)
(* One keyboard command, from its preflight to its envelope, in both ports *)
(*   rust    keyboard_preflight and live_keyboard,                         *)
(*           src/desktop/rust/src/controller.rs                            *)
(*   python  _preflight_input_state, _keyboard_guard, _type, _click_type   *)
(*           and _keys_impl, src/desktop/controller.py                     *)
(*                                                                         *)
(* The command looks at the application in front and at the element its    *)
(* keys would go to, moves the pointer, clicks if it is click_type, looks  *)
(* again and posts its keys one by one.  The user goes on using the        *)
(* desktop, and a click may move the focus anywhere.                       *)
(***************************************************************************)
EXTENDS Naturals

CONSTANTS
  MaxKeys,    \* bound on the keys of one command
  MaxChanges  \* bound on what the user changes

ASSUME KeyboardAssumption == MaxKeys \in Nat \ {0} /\ MaxChanges \in Nat

VARIABLES
  port, op, total, \* the controller, the command and its number of keys
  front,      \* is the application the command names in front?
  focus,      \* the focused element
  under,      \* the element where click_type will click
  changes,    \* how often the user has changed any of these
  cancelled,  \* the probe: the call's token is set, or its deadline passed
  guard,      \* which of the looks at the desktop is next or under way
  pc,         \* where the command is
  checked,    \* the user's changes when the latest look began
  mismatch,   \* a look found another application in front
  clicked,    \* the desktop received the click
  landed,     \* where the keys it received went
  typed,      \* how many it received
  answer      \* the envelope

request == <<port, op, total>>
desktop == <<front, focus, under, changes>>
posted  == <<clicked, landed, typed>>
vars == <<request, desktop, cancelled, guard, pc, checked, mismatch, posted, answer>>

Ports == {"rust", "python"}
Ops == {"type", "click_type", "key"}

(* What input_state_issue tells apart in the state of an element: a flag    *)
(* (secure, payment, permission, challenge) that is set, unset or missing, *)
(* and words that are missing, harmless or one of its hints.               *)
Elements == [flag : {"set", "unset", "absent"}, words : {"none", "harmless", "hint"}]

(* Mutant: a state that says nothing is taken for a harmless one.          *)
SensitiveOnly(element) == element.flag = "set" \/ element.words = "hint"

(* input_state_issue: an element is refused if it is sensitive, and if it  *)
(* says nothing.                                                           *)
Refused(element) ==
  \/ element.flag = "set" \/ element.words = "hint"
  \/ element.flag = "absent" /\ element.words = "none"

Guards == {"preflight", "first", "last"}
Clicks == op = "click_type"

(* An envelope: its code, and what it says of the click and of the keys.   *)
(* count is the number of keys it reports, when it does.                   *)
Envelope(code, click, keys, count) ==
  [code |-> code, click |-> click, keys |-> keys, count |-> count]
NoAnswer == Envelope("none", "unsaid", "unsaid", 0)

Init ==
  /\ port \in Ports /\ op \in Ops /\ total \in 1 .. MaxKeys
  /\ op = "key" => total = 1
  /\ front \in BOOLEAN /\ focus \in Elements /\ under \in Elements /\ changes = 0
  /\ cancelled = FALSE
  /\ guard = "preflight" /\ pc = "app" /\ checked = 0 /\ mismatch = FALSE
  /\ clicked = FALSE /\ landed = {} /\ typed = 0
  /\ answer = NoAnswer

-----------------------------------------------------------------------------
(* Where the command goes, and how it ends.                                *)

Goes(where) == pc' = where /\ UNCHANGED <<guard, answer>>
Answers(code, click, keys, count) ==
  /\ pc' = "done"
  /\ answer' = Envelope(code, click, keys, count)
  /\ UNCHANGED guard

(* Mutant: after its click the Rust port types without looking again.      *)
AfterClickTypes ==
  /\ pc' = IF port = "rust" THEN "keys" ELSE "app"
  /\ guard' = "last"
  /\ UNCHANGED answer

AfterClick ==
  /\ pc' = "app"
  /\ guard' = "last"
  /\ UNCHANGED answer

(* A look that finds nothing wrong leads on: the Python port looks twice   *)
(* before it moves the pointer.                                            *)
Passes ==
  CASE guard = "last" -> Goes("keys")
    [] guard = "preflight" /\ port = "python" ->
         pc' = "app" /\ guard' = "first" /\ UNCHANGED answer
    [] OTHER -> Goes("travel")

(* What an error of the last look says of the click: a returned error is   *)
(* put into a partial envelope, an exception is not.                       *)
AtLast == guard = "last" /\ Clicks
Returned == IF AtLast THEN "done" ELSE "unsaid"
Raised   == IF AtLast /\ port = "rust" THEN "done" ELSE "unsaid"

(* The last look of _type and _keys_impl is inside their try, whose        *)
(* handler takes any exception but two for a failure of the backend.       *)
InTry == port = "python" /\ guard = "last" /\ ~Clicks

-----------------------------------------------------------------------------
(* The looks at the desktop.                                               *)

(* _dispatch and _keyboard_guard ask for an interruption first.            *)
Aborts == port = "python" /\ guard # "preflight" /\ cancelled

LookAborts ==
  /\ pc = "app"
  /\ Aborts
  /\ Answers("cancelled", Returned, "unsaid", 0)
  /\ UNCHANGED <<request, desktop, cancelled, checked, mismatch, posted>>

(* The active window is read and matched with the app that was named.      *)
LookAtApp ==
  /\ pc = "app"
  /\ ~Aborts
  /\ checked' = changes
  /\ mismatch' = ~front
  /\ CASE front /\ guard = "first" /\ Clicks -> Passes
       [] front /\ ~(guard = "first" /\ Clicks) -> Goes("element")
       [] ~front /\ InTry -> Answers("exec_failed", "unsaid", "unknown", 0)
       [] OTHER -> Answers("focus_failed", Raised, "unsaid", 0)
  /\ UNCHANGED <<request, desktop, cancelled, posted>>

(* That read fails; _preflight_input_state refuses what it cannot inspect. *)
AppUnreadable ==
  /\ pc = "app"
  /\ ~Aborts
  /\ IF guard = "preflight" /\ port = "python"
     THEN Answers("needs_attention", "unsaid", "unsaid", 0)
     ELSE \/ Answers("unsupported", Raised, "unsaid", 0)
          \/ IF InTry
             THEN Answers("exec_failed", "unsaid", "unknown", 0)
             ELSE Answers("exec_failed", Raised, "unsaid", 0)
  /\ UNCHANGED <<request, desktop, cancelled, checked, mismatch, posted>>

(* The element is read and classified; whatever cannot be read is refused. *)
LookAtElement ==
  /\ pc = "element"
  /\ LET state == IF guard = "preflight" /\ Clicks THEN under ELSE focus IN
     \/ ~Refused(state) /\ Passes
     \/ Answers("needs_attention", Returned, "unsaid", 0)
  /\ UNCHANGED <<request, desktop, cancelled, checked, mismatch, posted>>

-----------------------------------------------------------------------------
(* The inputs.  HelperInput looks inside one; here it posts some of its    *)
(* events and ends well, cancelled, unsupported (with nothing posted) or   *)
(* failed, and what a cancelled one reports is at most what it posted.     *)

Travel ==
  /\ pc = "travel"
  /\ \/ ~cancelled /\ IF Clicks THEN Goes("click")
                      ELSE pc' = "app" /\ guard' = "last" /\ UNCHANGED answer
     \/ cancelled /\ Answers("cancelled", "unsaid", "unsaid", 0)
     \/ Answers("unsupported", "unsaid", "unsaid", 0)
     \/ IF Clicks THEN Answers("exec_failed", "unknown", "unsaid", 0)
        ELSE Answers("exec_failed", "unsaid", "unknown", 0)
  /\ UNCHANGED <<request, desktop, cancelled, checked, mismatch, posted>>

(* The click is posted; where the focus is then is up to the application.  *)
Click ==
  /\ pc = "click"
  /\ clicked' = TRUE
  /\ front' \in BOOLEAN /\ focus' \in Elements
  /\ \/ AfterClick
     \/ cancelled /\ \E said \in {"done", "unknown"} :
                        Answers("cancelled", said, "unsaid", 0)
     \/ Answers("exec_failed", "unknown", "unsaid", 0)
  /\ UNCHANGED <<request, under, changes, cancelled, checked, mismatch, landed, typed>>

ClickFails ==
  /\ pc = "click"
  /\ \/ cancelled /\ Answers("cancelled", "unknown", "unsaid", 0)
     \/ Answers("unsupported", "unsaid", "unsaid", 0)
     \/ Answers("exec_failed", "unknown", "unsaid", 0)
  /\ UNCHANGED <<request, desktop, cancelled, checked, mismatch, posted>>

(* Mutant: one character past the end of the text.                         *)
MoreThanAll == typed <= total

More == typed < total

Key ==
  /\ pc = "keys"
  /\ More
  /\ typed' = typed + 1
  /\ landed' = landed \cup {[front |-> front, focus |-> focus, changes |-> changes]}
  /\ UNCHANGED <<request, desktop, cancelled, guard, pc, checked, mismatch, clicked, answer>>

ClickSaid == IF Clicks THEN "done" ELSE "unsaid"

(* Mutant: a count that is short is a success.                             *)
KeysDoneShort == Answers("ok", ClickSaid, "all", typed)

(* A typing input's count is compared with the length of the text.         *)
KeysDone ==
  IF typed = total
  THEN Answers("ok", ClickSaid, "all", typed)
  ELSE Answers("exec_failed", ClickSaid, "some", typed)

(* Mutant: a failure reports the click alone.                              *)
KeysFailedQuietly == Answers("exec_failed", ClickSaid, "unsaid", 0)

(* typing_error, input_error and the _unknown_* helpers.                   *)
KeysFailed == Answers("exec_failed", ClickSaid, "unknown", 0)

(* A cancelled input, or one the helper had no trust for, takes the way of *)
(* every command, which knows of no click.                                 *)
KeysEnd ==
  /\ pc = "keys"
  /\ \/ (op = "key" => ~More) /\ KeysDone
     \/ KeysFailed
     \/ cancelled /\ \E n \in 0 .. typed : Answers("cancelled", "unsaid", "some", n)
     \/ typed = 0 /\ Answers("unsupported", "unsaid", "unsaid", 0)
  /\ UNCHANGED <<request, desktop, cancelled, checked, mismatch, posted>>

-----------------------------------------------------------------------------
(* The user, and the client or the deadline that cancels: in the Rust port *)
(* there is no token before the preflight is over.                         *)
Change ==
  /\ pc # "done"
  /\ changes < MaxChanges
  /\ changes' = changes + 1
  /\ front' \in BOOLEAN /\ focus' \in Elements /\ under' \in Elements
  /\ UNCHANGED <<request, cancelled, guard, pc, checked, mismatch, posted, answer>>

Cancel ==
  /\ pc # "done"
  /\ guard = "preflight" /\ pc # "travel" => port = "python"
  /\ cancelled' = TRUE
  /\ UNCHANGED <<request, desktop, guard, pc, checked, mismatch, posted, answer>>

Done == pc = "done" /\ UNCHANGED vars

Next == LookAborts \/ LookAtApp \/ AppUnreadable \/ LookAtElement \/ Travel \/ Click
          \/ ClickFails \/ Key \/ KeysEnd \/ Change \/ Cancel \/ Done

Spec == Init /\ [][Next]_vars

-----------------------------------------------------------------------------
(* Correctness.                                                            *)

(* Every variable keeps its shape, and no more keys are posted than asked. *)
TypeOK ==
  /\ port \in Ports /\ op \in Ops /\ total \in 1 .. MaxKeys
  /\ front \in BOOLEAN /\ focus \in Elements /\ under \in Elements
  /\ changes \in 0 .. MaxChanges /\ cancelled \in BOOLEAN
  /\ guard \in Guards
  /\ pc \in {"app", "element", "travel", "click", "keys", "done"}
  /\ checked \in 0 .. MaxChanges /\ mismatch \in BOOLEAN
  /\ clicked \in BOOLEAN /\ typed \in 0 .. total
  /\ landed \in SUBSET [front : BOOLEAN, focus : Elements, changes : 0 .. MaxChanges]
  /\ answer \in [code : {"none", "ok", "focus_failed", "needs_attention",
                         "unsupported", "exec_failed", "cancelled"},
                 click : {"unsaid", "done", "unknown"},
                 keys : {"unsaid", "all", "some", "unknown"},
                 count : 0 .. MaxKeys]

(* Some evidence that an element is harmless, and none that it is not.     *)
Harmless ==
  {e \in Elements : (e.flag = "unset" \/ e.words = "harmless")
                      /\ e.flag # "set" /\ e.words # "hint"}

(* A key goes to the application that was named and to an element known to *)
(* be harmless, unless the user changed something after the last look      *)
(* began.  What the command's own click did to the focus is no excuse      *)
(* (live_keyboard and _click_type look again after it).                    *)
KeysLandChecked ==
  \A k \in landed : (k.front /\ k.focus \in Harmless) \/ k.changes > checked

(* An envelope claims nothing that did not happen, and a refusal means     *)
(* that no key was posted.                                                 *)
AnswerHonest ==
  pc = "done" =>
    /\ answer.click = "done" => clicked
    /\ answer.keys = "all" => typed = total
    /\ answer.count <= typed
    /\ answer.code = "ok" => answer.keys = "all" /\ (Clicks => clicked)
    /\ answer.code \in {"focus_failed", "needs_attention", "unsupported"} => typed = 0

(* An envelope mentions whatever did happen: keys always, and the click    *)
(* unless the rest was cancelled or unsupported or, in the Python port, an *)
(* exception of the last look left _click_type.                            *)
AnswerComplete ==
  pc = "done" =>
    /\ typed > 0 => answer.keys # "unsaid"
    /\ clicked => \/ answer.click # "unsaid"
                  \/ answer.code \in {"cancelled", "unsupported"}
                  \/ port = "python" /\ answer.code \in {"focus_failed", "exec_failed"}
                       /\ typed = 0

(* An envelope tells what happened: no more, and no less but for that.     *)
EnvelopeTells == AnswerHonest /\ AnswerComplete

(* skills/type.md, of type: "A focus mismatch sends zero input events and  *)
(* returns focus_failed."                                                  *)
MismatchTold ==
  pc = "done" /\ mismatch /\ op = "type" => answer.code = "focus_failed" /\ typed = 0
=============================================================================
