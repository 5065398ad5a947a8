---------------------------- MODULE KeyboardProofs ----------------------------
(***************************************************************************)
(* Theorems of Keyboard for any number of keys and any number of the       *)
(* user's changes, in both ports: where the keys land, and what the        *)
(* envelope says of them.                                                  *)
(***************************************************************************)
EXTENDS Keyboard, TLAPS

-----------------------------------------------------------------------------
(* Types.                                                                  *)

EnvelopeTypes ==
  [code : {"none", "ok", "focus_failed", "needs_attention",
           "unsupported", "exec_failed", "cancelled"},
   click : {"unsaid", "done", "unknown"},
   keys : {"unsaid", "all", "some", "unknown"},
   count : 0 .. MaxKeys]

(* Every way of ending that the actions use has a well-formed envelope.    *)
LEMMA AnswerTypes ==
  ASSUME NEW code \in {"ok", "focus_failed", "needs_attention", "unsupported",
                       "exec_failed", "cancelled"},
         NEW click \in {"unsaid", "done", "unknown"},
         NEW keys \in {"unsaid", "all", "some", "unknown"},
         NEW count \in 0 .. MaxKeys,
         TypeOK, Answers(code, click, keys, count)
  PROVE  answer' \in EnvelopeTypes /\ guard' \in Guards /\ pc' = "done"
  BY DEF Answers, Envelope, EnvelopeTypes, TypeOK

(* What a look or a click says of the click is one of the three words.     *)
LEMMA Said ==
  /\ Returned \in {"unsaid", "done", "unknown"}
  /\ Raised \in {"unsaid", "done", "unknown"}
  /\ ClickSaid \in {"unsaid", "done", "unknown"}
  BY DEF Returned, Raised, ClickSaid

(* The control part of TypeOK: every action keeps it.                      *)
ControlTypes ==
  /\ guard \in Guards
  /\ pc \in {"app", "element", "travel", "click", "keys", "done"}
  /\ answer \in EnvelopeTypes

(* The part of TypeOK about the request, the desktop and what was posted.  *)
RequestTypes ==
  /\ port \in Ports /\ op \in Ops /\ total \in 1 .. MaxKeys
  /\ cancelled \in BOOLEAN
WorldTypes ==
  /\ front \in BOOLEAN /\ focus \in Elements /\ under \in Elements
  /\ changes \in 0 .. MaxChanges
LookTypes == checked \in 0 .. MaxChanges /\ mismatch \in BOOLEAN
PostedTypes ==
  /\ clicked \in BOOLEAN /\ typed \in 0 .. total
  /\ landed \in SUBSET [front : BOOLEAN, focus : Elements, changes : 0 .. MaxChanges]

(* TypeOK and its parts, before and after a step.                          *)
LEMMA TypeParts ==
  /\ TypeOK <=> /\ ControlTypes /\ RequestTypes /\ WorldTypes
                /\ LookTypes /\ PostedTypes
  /\ TypeOK' <=> /\ ControlTypes' /\ RequestTypes' /\ WorldTypes'
                 /\ LookTypes' /\ PostedTypes'
  BY DEF TypeOK, ControlTypes, RequestTypes, WorldTypes, LookTypes, PostedTypes,
     EnvelopeTypes

(* A part whose variables keep their values keeps its type.                *)
LEMMA TypesUnchanged ==
  /\ ControlTypes /\ UNCHANGED <<guard, pc, answer>> => ControlTypes'
  /\ RequestTypes /\ UNCHANGED <<request, cancelled>> => RequestTypes'
  /\ WorldTypes /\ UNCHANGED desktop => WorldTypes'
  /\ LookTypes /\ UNCHANGED <<checked, mismatch>> => LookTypes'
  /\ PostedTypes /\ UNCHANGED <<request, posted>> => PostedTypes'
  BY DEF ControlTypes, RequestTypes, WorldTypes, LookTypes, PostedTypes,
     request, desktop, posted

(* A look that passes leads to a place there is.                           *)
LEMMA PassesTypes == ASSUME ControlTypes, Passes PROVE ControlTypes'
  BY DEF Passes, Goes, ControlTypes, Guards

(* The looks keep the control part of TypeOK.                              *)
LEMMA LooksControlled ==
  ASSUME TypeOK, LookAborts \/ LookAtApp \/ AppUnreadable \/ LookAtElement
  PROVE  ControlTypes'
  <1>1. MaxKeys \in Nat /\ ControlTypes
    BY TypeParts, KeyboardAssumption
  <1>2. CASE \E code \in {"focus_failed", "needs_attention", "unsupported",
                          "exec_failed", "cancelled"},
                click \in {"unsaid", "done", "unknown"},
                keys \in {"unsaid", "unknown"} : Answers(code, click, keys, 0)
    BY <1>1, <1>2, AnswerTypes DEF ControlTypes
  <1>3. CASE Goes("element")
    BY <1>1, <1>3 DEF Goes, ControlTypes
  <1>4. CASE Passes
    BY <1>1, <1>4, PassesTypes
  <1>5. CASE LookAborts
    BY <1>2, <1>5, Said DEF LookAborts
  <1>6. CASE LookAtApp
    <2>1. Passes \/ Goes("element") \/ Answers("exec_failed", "unsaid", "unknown", 0)
            \/ Answers("focus_failed", Raised, "unsaid", 0)
      BY <1>1, <1>6 DEF LookAtApp, TypeOK
    <2> QED BY <1>2, <1>3, <1>4, <2>1, Said
  <1>7. CASE AppUnreadable
    BY <1>2, <1>7, Said DEF AppUnreadable
  <1>8. CASE LookAtElement
    BY <1>2, <1>4, <1>8, Said DEF LookAtElement
  <1> QED BY <1>5, <1>6, <1>7, <1>8

(* The inputs keep the control part of TypeOK.                             *)
LEMMA InputsControlled ==
  ASSUME TypeOK, Travel \/ Click \/ ClickFails \/ KeysEnd
  PROVE  ControlTypes'
  <1>1. MaxKeys \in Nat /\ ControlTypes /\ typed \in 0 .. MaxKeys
    BY TypeParts, KeyboardAssumption DEF TypeOK
  <1>2. CASE \E code \in {"ok", "unsupported", "exec_failed", "cancelled"},
                click \in {"unsaid", "done", "unknown"},
                keys \in {"unsaid", "all", "some", "unknown"},
                n \in 0 .. typed : Answers(code, click, keys, n)
    <2>1. PICK code \in {"ok", "unsupported", "exec_failed", "cancelled"},
               click \in {"unsaid", "done", "unknown"},
               keys \in {"unsaid", "all", "some", "unknown"},
               n \in 0 .. typed : Answers(code, click, keys, n)
      BY <1>2
    <2>2. n \in 0 .. MaxKeys
      BY <1>1
    <2> QED BY <1>1, <2>1, <2>2, AnswerTypes DEF ControlTypes
  <1>3. CASE Travel
    <2>1. CASE Goes("click") \/ (pc' = "app" /\ guard' = "last" /\ UNCHANGED answer)
      BY <1>1, <2>1 DEF Goes, ControlTypes, Guards
    <2>2. 0 \in 0 .. typed
      BY <1>1
    <2> QED BY <1>2, <1>3, <2>1, <2>2 DEF Travel
  <1>4. CASE Click
    <2>1. CASE AfterClick
      BY <1>1, <2>1 DEF AfterClick, ControlTypes, Guards
    <2>2. 0 \in 0 .. typed
      BY <1>1
    <2> QED BY <1>2, <1>4, <2>1, <2>2 DEF Click
  <1>5. CASE ClickFails
    <2>1. 0 \in 0 .. typed
      BY <1>1
    <2> QED BY <1>2, <1>5, <2>1 DEF ClickFails
  <1>6. CASE KeysEnd
    <2>1. 0 \in 0 .. typed /\ typed \in 0 .. typed
      BY <1>1
    <2> QED BY <1>2, <1>6, <2>1, Said DEF KeysEnd, KeysDone, KeysFailed
  <1> QED BY <1>3, <1>4, <1>5, <1>6

(* One case per group of actions that leave the same parts alone.          *)
LEMMA TypeStep == TypeOK /\ [Next]_vars => TypeOK'
  <1> SUFFICES ASSUME TypeOK, [Next]_vars PROVE TypeOK'
    OBVIOUS
  <1>1. ControlTypes /\ RequestTypes /\ WorldTypes /\ LookTypes /\ PostedTypes
    BY TypeParts
  <1>2. CASE LookAborts \/ AppUnreadable \/ LookAtElement \/ Travel
             \/ ClickFails \/ KeysEnd
    <2>1. UNCHANGED <<request, desktop, cancelled, checked, mismatch, posted>>
      BY <1>2 DEF LookAborts, AppUnreadable, LookAtElement, Travel, ClickFails, KeysEnd
    <2> QED BY <1>1, <1>2, <2>1, LooksControlled, InputsControlled, TypeParts,
               TypesUnchanged
  <1>3. CASE LookAtApp
    <2>1. LookTypes'
      BY <1>1, <1>3 DEF LookAtApp, LookTypes, WorldTypes
    <2>2. UNCHANGED <<request, desktop, cancelled, posted>>
      BY <1>3 DEF LookAtApp
    <2> QED BY <1>1, <1>3, <2>1, <2>2, LooksControlled, TypeParts, TypesUnchanged
  <1>4. CASE Click
    <2>1. WorldTypes'
      BY <1>1, <1>4 DEF Click, WorldTypes
    <2>2. UNCHANGED <<request, cancelled, checked, mismatch, landed, typed>>
          /\ clicked' = TRUE
      BY <1>4 DEF Click
    <2>3. PostedTypes'
      BY <1>1, <2>2 DEF PostedTypes, request
    <2> QED BY <1>1, <1>4, <2>1, <2>2, <2>3, InputsControlled, TypeParts, TypesUnchanged
  <1>5. CASE Key
    <2>1. UNCHANGED <<request, desktop, cancelled, guard, pc, checked, mismatch, answer>>
      BY <1>5 DEF Key
    <2>2. PostedTypes'
      <3>1. typed' \in 0 .. total'
        BY <1>1, <1>5 DEF Key, More, PostedTypes, RequestTypes, request
      <3>2. landed' \in SUBSET [front : BOOLEAN, focus : Elements,
                                changes : 0 .. MaxChanges]
        BY <1>1, <1>5 DEF Key, PostedTypes, WorldTypes
      <3> QED BY <1>1, <1>5, <3>1, <3>2 DEF Key, PostedTypes
    <2> QED BY <1>1, <2>1, <2>2, TypeParts, TypesUnchanged
  <1>6. CASE Change
    <2>1. WorldTypes'
      BY <1>1, <1>6, KeyboardAssumption DEF Change, WorldTypes
    <2> QED BY <1>1, <1>6, <2>1, TypeParts, TypesUnchanged DEF Change
  <1>7. CASE Cancel
    <2>1. RequestTypes'
      BY <1>1, <1>7 DEF Cancel, RequestTypes, request
    <2> QED BY <1>1, <1>7, <2>1, TypeParts, TypesUnchanged DEF Cancel
  <1>8. CASE UNCHANGED vars
    BY <1>1, <1>8, TypeParts, TypesUnchanged DEF vars
  <1> QED BY <1>2, <1>3, <1>4, <1>5, <1>6, <1>7, <1>8 DEF Next, Done

(* The command, the desktop and the envelope have the shape their readers  *)
(* expect, and no more keys are posted than were asked for.                *)
THEOREM TypeCorrect == Spec => []TypeOK
  <1>1. Init => TypeOK
    <2> SUFFICES ASSUME Init PROVE TypeOK
      OBVIOUS
    <2>1. ControlTypes
      BY KeyboardAssumption DEF Init, ControlTypes, EnvelopeTypes, Guards, NoAnswer,
         Envelope
    <2>2. clicked \in BOOLEAN /\ cancelled \in BOOLEAN /\ mismatch \in BOOLEAN
      BY Zenon DEF Init
    <2>3. changes = 0 /\ checked = 0 /\ typed = 0 /\ total \in 1 .. MaxKeys
      BY Zenon DEF Init
    <2>4. 0 \in 0 .. MaxChanges /\ 0 \in 0 .. total
      BY <2>3, KeyboardAssumption
    <2>5. RequestTypes /\ WorldTypes /\ LookTypes
      BY <2>2, <2>3, <2>4, Zenon DEF Init, RequestTypes, WorldTypes, LookTypes
    <2>6. PostedTypes
      <3>1. landed = {}
        BY Zenon DEF Init
      <3> QED BY <2>2, <2>3, <2>4, <3>1, Zenon DEF PostedTypes
    <2> QED BY <2>1, <2>5, <2>6, TypeParts
  <1> QED BY <1>1, TypeStep, PTL DEF Spec

-----------------------------------------------------------------------------
(* The click.                                                              *)

(* When the desktop has had the click: never before the travel is over,    *)
(* and always at the look after it.                                        *)
ClickInv ==
  /\ clicked => Clicks
  /\ pc # "done" =>
       /\ guard # "last" => ~clicked
       /\ guard = "last" /\ Clicks => clicked
  /\ pc \in {"travel", "click"} => guard # "last"
  /\ pc = "click" => Clicks
  /\ pc = "keys" => guard = "last"

(* Only the click makes clicked true, and the look after it is the last.   *)
LEMMA ClickStep == TypeOK /\ ClickInv /\ [Next]_vars => ClickInv'
  <1> SUFFICES ASSUME TypeOK, ClickInv, [Next]_vars PROVE ClickInv'
    OBVIOUS
  <1>1. CASE UNCHANGED <<request, clicked>> /\ pc' = "done"
    BY <1>1 DEF ClickInv, Clicks, request
  <1>2. CASE UNCHANGED <<request, clicked, guard, pc>>
    BY <1>2 DEF ClickInv, Clicks, request
  <1>3. CASE UNCHANGED <<request, clicked>> /\ pc = "app" /\ Goes("element")
    BY <1>3 DEF ClickInv, Clicks, request, Goes
  <1>4. CASE UNCHANGED <<request, clicked>> /\ pc \in {"app", "element"} /\ Passes
    BY <1>4 DEF ClickInv, Clicks, request, Passes, Goes, TypeOK, Guards
  <1>5. CASE LookAborts \/ LookAtApp \/ AppUnreadable \/ LookAtElement
    <2>1. UNCHANGED <<request, clicked>> /\ pc \in {"app", "element"}
      BY <1>5 DEF LookAborts, LookAtApp, AppUnreadable, LookAtElement, posted
    <2>2. pc' = "done" \/ Passes \/ (pc = "app" /\ Goes("element"))
      BY <1>5 DEF LookAborts, LookAtApp, AppUnreadable, LookAtElement, Answers, TypeOK
    <2> QED BY <1>1, <1>3, <1>4, <2>1, <2>2
  <1>6. CASE Travel
    <2>1. UNCHANGED <<request, clicked>> /\ pc = "travel"
      BY <1>6 DEF Travel, posted
    <2>2. \/ pc' = "done" \/ (Clicks /\ Goes("click"))
          \/ (~Clicks /\ pc' = "app" /\ guard' = "last")
      BY <1>6 DEF Travel, Answers
    <2> QED BY <1>1, <2>1, <2>2 DEF ClickInv, Clicks, request, Goes
  <1>7. CASE Click
    <2>1. UNCHANGED request /\ clicked' = TRUE /\ pc = "click"
      BY <1>7 DEF Click
    <2>2. pc' = "done" \/ (pc' = "app" /\ guard' = "last")
      BY <1>7 DEF Click, AfterClick, Answers
    <2> QED BY <2>1, <2>2 DEF ClickInv, Clicks, request
  <1>8. CASE ClickFails \/ KeysEnd
    BY <1>1, <1>8 DEF ClickFails, KeysEnd, KeysDone, KeysFailed, Answers, posted
  <1>9. CASE Key \/ Change \/ Cancel \/ UNCHANGED vars
    BY <1>2, <1>9 DEF Key, Change, Cancel, vars, posted
  <1> QED BY <1>5, <1>6, <1>7, <1>8, <1>9 DEF Next, Done

(* ClickInv holds throughout.                                              *)
LEMMA ClickInvariant == Spec => []ClickInv
  <1>1. Init => ClickInv
    BY DEF Init, ClickInv
  <1> QED BY <1>1, TypeCorrect, ClickStep, PTL DEF Spec

-----------------------------------------------------------------------------
(* The keys.                                                               *)

(* Until the user changes something, what the latest look saw still holds: *)
(* first the application, then the element too.                            *)
LookInv ==
  /\ checked <= changes
  /\ pc = "element" => front \/ changes > checked
  /\ pc = "keys" => (front /\ focus \in Harmless) \/ changes > checked
  /\ pc \notin {"keys", "done"} => landed = {} /\ typed = 0
  /\ KeysLandChecked

(* input_state_issue lets through the elements known to be harmless.       *)
LEMMA AllowedIsHarmless ==
  ASSUME NEW e \in Elements, ~Refused(e) PROVE e \in Harmless
  BY DEF Refused, Harmless, Elements

(* Only the user's changes come between a look and the keys.               *)
LEMMA LookStep == TypeOK /\ ClickInv /\ LookInv /\ [Next]_vars => LookInv'
  <1> SUFFICES ASSUME TypeOK, ClickInv, LookInv, [Next]_vars PROVE LookInv'
    OBVIOUS
  <1>1. changes \in Nat /\ checked \in Nat /\ changes' \in Nat
    BY TypeStep, KeyboardAssumption DEF TypeOK
  <1>2. CASE UNCHANGED <<desktop, checked, posted>> /\ pc' = "done"
    BY <1>2 DEF LookInv, KeysLandChecked, desktop, posted
  <1>3. CASE LookAborts \/ AppUnreadable \/ ClickFails \/ KeysEnd
    BY <1>2, <1>3 DEF LookAborts, AppUnreadable, ClickFails, KeysEnd, KeysDone,
       KeysFailed, Answers
  <1>4. CASE LookAtApp
    <2>1. /\ checked' = changes /\ UNCHANGED <<desktop, posted>>
          /\ landed = {} /\ typed = 0
      BY <1>4 DEF LookAtApp, LookInv
    <2>2. pc' \notin {"element", "keys"} \/ (front /\ pc' = "element")
      BY <1>4 DEF LookAtApp, Passes, Goes, Answers, TypeOK
    <2> QED BY <1>1, <2>1, <2>2 DEF LookInv, KeysLandChecked, desktop, posted
  <1>5. CASE LookAtElement
    <2>1. /\ UNCHANGED <<desktop, checked, posted>>
          /\ landed = {} /\ typed = 0 /\ pc = "element"
      BY <1>5 DEF LookAtElement, LookInv
    <2>2. /\ pc' # "element"
          /\ pc' = "keys" => guard = "last" /\ ~Refused(focus)
      BY <1>5 DEF LookAtElement, Passes, Goes, Answers, TypeOK, Guards
    <2>3. pc' = "keys" => focus \in Harmless
      BY <2>2, AllowedIsHarmless DEF TypeOK
    <2> QED BY <1>1, <2>1, <2>2, <2>3 DEF LookInv, KeysLandChecked, desktop, posted
  <1>6. CASE Travel
    <2>1. UNCHANGED <<desktop, checked, posted>> /\ pc = "travel"
      BY <1>6 DEF Travel
    <2>2. pc' \in {"done", "click", "app"}
      BY <1>6 DEF Travel, Goes, Answers
    <2> QED BY <2>1, <2>2 DEF LookInv, KeysLandChecked, desktop, posted
  <1>7. CASE Click
    <2>1. UNCHANGED <<changes, checked, landed, typed>> /\ pc = "click"
      BY <1>7 DEF Click
    <2>2. pc' \in {"done", "app"}
      BY <1>7 DEF Click, AfterClick, Answers
    <2> QED BY <2>1, <2>2 DEF LookInv, KeysLandChecked
  <1>8. CASE Key
    <2>1. /\ UNCHANGED <<desktop, checked, pc>> /\ pc = "keys"
          /\ landed' = landed \cup {[front |-> front, focus |-> focus,
                                     changes |-> changes]}
      BY <1>8 DEF Key
    <2>2. KeysLandChecked'
      BY <2>1 DEF LookInv, KeysLandChecked
    <2> QED BY <2>1, <2>2 DEF LookInv, desktop
  <1>9. CASE Change
    BY <1>1, <1>9 DEF Change, LookInv, KeysLandChecked, posted
  <1>10. CASE Cancel \/ UNCHANGED vars
    BY <1>10 DEF Cancel, vars, LookInv, KeysLandChecked, posted, desktop
  <1> QED BY <1>3, <1>4, <1>5, <1>6, <1>7, <1>8, <1>9, <1>10 DEF Next, Done

(* LookInv holds throughout.                                               *)
LEMMA LookInvariant == Spec => []LookInv
  <1>1. Init => LookInv
    BY DEF Init, LookInv, KeysLandChecked
  <1> QED BY <1>1, TypeCorrect, ClickInvariant, LookStep, PTL DEF Spec

(* A key goes to the application the client named and to an element known  *)
(* to be harmless unless the user changed something after the last look    *)
(* began, however long the text and wherever a click moved the focus.      *)
THEOREM KeysGoWhereChecked == Spec => []KeysLandChecked
  <1>1. LookInv => KeysLandChecked
    BY DEF LookInv
  <1> QED BY <1>1, LookInvariant, PTL

-----------------------------------------------------------------------------
(* The envelope.                                                           *)

AnswerInv == AnswerHonest /\ AnswerComplete

(* What an ending's envelope must be for both to hold.                     *)
LEMMA Ending ==
  ASSUME TypeOK, ClickInv, NEW code, NEW click, NEW keys, NEW count,
         Answers(code, click, keys, count),
         UNCHANGED <<request, posted>>,
         click = "done" => clicked,
         keys = "all" => typed = total,
         count <= typed,
         code = "ok" => keys = "all" /\ (Clicks => clicked),
         code \in {"focus_failed", "needs_attention", "unsupported"} => typed = 0,
         typed > 0 => keys # "unsaid",
         clicked => \/ click # "unsaid"
                    \/ code \in {"cancelled", "unsupported"}
                    \/ port = "python" /\ code \in {"focus_failed", "exec_failed"}
                         /\ typed = 0
  PROVE  AnswerInv'
  BY DEF Answers, Envelope, AnswerInv, AnswerHonest, AnswerComplete, Clicks,
     request, posted

(* What the looks say of the click is true, and only an exception of the   *)
(* Python port's last look is silent about it.                             *)
LEMMA LooksTell ==
  ASSUME ClickInv, pc # "done"
  PROVE  /\ Returned = "done" => clicked
         /\ Raised = "done" => clicked
         /\ clicked => Returned = "done"
         /\ clicked /\ port = "rust" => Raised = "done"
         /\ InTry => ~clicked
  BY DEF ClickInv, Returned, Raised, AtLast, InTry

(* Each way of ending, by what was posted before it.                       *)
LEMMA AnswerStep ==
  TypeOK /\ ClickInv /\ LookInv /\ AnswerInv /\ [Next]_vars => AnswerInv'
  <1> SUFFICES ASSUME TypeOK, ClickInv, LookInv, AnswerInv, [Next]_vars
               PROVE  AnswerInv'
    OBVIOUS
  <1>1. CASE pc' # "done"
    BY <1>1 DEF AnswerInv, AnswerHonest, AnswerComplete
  <1>2. CASE UNCHANGED vars
    BY <1>2 DEF vars, AnswerInv, AnswerHonest, AnswerComplete, Clicks, request, posted
  <1>3. typed \in Nat /\ total \in Nat /\ port \in {"rust", "python"}
    BY KeyboardAssumption DEF TypeOK, Ports
  <1>4. CASE LookAborts
    <2>1. /\ pc = "app" /\ typed = 0 /\ UNCHANGED <<request, posted>>
          /\ Answers("cancelled", Returned, "unsaid", 0)
      BY <1>4 DEF LookAborts, LookInv
    <2> QED BY <2>1, LooksTell, Ending
  <1>5. CASE LookAtApp /\ pc' = "done"
    <2>1. pc = "app" /\ typed = 0 /\ UNCHANGED <<request, posted>>
      BY <1>5 DEF LookAtApp, LookInv
    <2>2. \/ InTry /\ Answers("exec_failed", "unsaid", "unknown", 0)
          \/ Answers("focus_failed", Raised, "unsaid", 0)
      BY <1>5 DEF LookAtApp, Passes, Goes, TypeOK
    <2>3. CASE InTry /\ Answers("exec_failed", "unsaid", "unknown", 0)
      BY <2>1, <2>3, LooksTell, Ending
    <2>4. CASE Answers("focus_failed", Raised, "unsaid", 0)
      BY <1>3, <2>1, <2>4, LooksTell, Ending
    <2> QED BY <2>2, <2>3, <2>4
  <1>6. CASE AppUnreadable
    <2>1. pc = "app" /\ typed = 0 /\ UNCHANGED <<request, posted>>
      BY <1>6 DEF AppUnreadable, LookInv
    <2>2. CASE guard = "preflight" /\ Answers("needs_attention", "unsaid", "unsaid", 0)
      <3>1. ~clicked
        BY <2>1, <2>2 DEF ClickInv
      <3> QED BY <2>1, <2>2, <3>1, Ending
    <2>3. CASE Answers("unsupported", Raised, "unsaid", 0)
      BY <2>1, <2>3, LooksTell, Ending
    <2>4. CASE InTry /\ Answers("exec_failed", "unsaid", "unknown", 0)
      BY <2>1, <2>4, LooksTell, Ending
    <2>5. CASE Answers("exec_failed", Raised, "unsaid", 0)
      BY <1>3, <2>1, <2>5, LooksTell, Ending
    <2> QED BY <1>6, <2>2, <2>3, <2>4, <2>5 DEF AppUnreadable
  <1>7. CASE LookAtElement /\ pc' = "done"
    <2>1. /\ pc = "element" /\ typed = 0 /\ UNCHANGED <<request, posted>>
          /\ Answers("needs_attention", Returned, "unsaid", 0)
      BY <1>7 DEF LookAtElement, LookInv, Passes, Goes
    <2> QED BY <2>1, LooksTell, Ending
  <1>8. CASE Travel /\ pc' = "done"
    <2>1. /\ pc = "travel" /\ typed = 0 /\ ~clicked /\ UNCHANGED <<request, posted>>
      BY <1>8 DEF Travel, LookInv, ClickInv
    <2>2. \E code \in {"cancelled", "unsupported", "exec_failed"},
             click \in {"unsaid", "unknown"}, keys \in {"unsaid", "unknown"} :
             Answers(code, click, keys, 0)
      BY <1>8 DEF Travel, Goes
    <2> QED BY <2>1, <2>2, Ending
  <1>9. CASE Click /\ pc' = "done"
    <2>1. /\ pc = "click" /\ typed = 0 /\ clicked' = TRUE
          /\ UNCHANGED <<request, landed, typed>>
      BY <1>9 DEF Click, LookInv
    <2>2. \E code \in {"cancelled", "exec_failed"}, click \in {"done", "unknown"} :
             Answers(code, click, "unsaid", 0)
      BY <1>9 DEF Click, AfterClick
    <2> QED BY <2>1, <2>2 DEF Answers, Envelope, AnswerInv, AnswerHonest,
               AnswerComplete
  <1>10. CASE ClickFails
    <2>1. /\ pc = "click" /\ typed = 0 /\ ~clicked /\ UNCHANGED <<request, posted>>
      BY <1>10 DEF ClickFails, LookInv, ClickInv
    <2>2. \E code \in {"cancelled", "unsupported", "exec_failed"},
             click \in {"unsaid", "unknown"} : Answers(code, click, "unsaid", 0)
      BY <1>10 DEF ClickFails
    <2> QED BY <2>1, <2>2, Ending
  <1>11. CASE KeysEnd
    <2>1. pc = "keys" /\ UNCHANGED <<request, posted>>
      BY <1>11 DEF KeysEnd
    <2>2. /\ Clicks <=> clicked
          /\ clicked => ClickSaid = "done"
          /\ ClickSaid = "done" => clicked
      BY <2>1 DEF ClickInv, ClickSaid
    <2>3. CASE KeysDone
      BY <1>3, <2>1, <2>2, <2>3, Ending DEF KeysDone
    <2>4. CASE KeysFailed
      BY <1>3, <2>1, <2>2, <2>4, Ending DEF KeysFailed
    <2>5. CASE \E n \in 0 .. typed : Answers("cancelled", "unsaid", "some", n)
      BY <1>3, <2>1, <2>5, Ending
    <2>6. CASE typed = 0 /\ Answers("unsupported", "unsaid", "unsaid", 0)
      BY <1>3, <2>1, <2>6, Ending
    <2> QED BY <1>11, <2>3, <2>4, <2>5, <2>6 DEF KeysEnd
  <1>12. CASE Key \/ Change \/ Cancel
    BY <1>1, <1>12 DEF Key, Change, Cancel
  <1> QED BY <1>1, <1>2, <1>4, <1>5, <1>6, <1>7, <1>8, <1>9, <1>10, <1>11, <1>12
          DEF Next, Done

(* The inductive form of the two theorems below.                           *)
LEMMA AnswerInvariant == Spec => []AnswerInv
  <1>1. Init => AnswerInv
    BY DEF Init, AnswerInv, AnswerHonest, AnswerComplete
  <1> QED BY <1>1, TypeCorrect, ClickInvariant, LookInvariant, AnswerStep, PTL DEF Spec

(* An envelope claims no click and no key that did not happen, and a       *)
(* refusal means that no key was posted.                                   *)
THEOREM EnvelopeHonest == Spec => []AnswerHonest
  BY AnswerInvariant, PTL DEF AnswerInv

(* An envelope mentions the keys that were posted, and the click but for   *)
(* the endings the property names.                                         *)
THEOREM EnvelopeComplete == Spec => []AnswerComplete
  BY AnswerInvariant, PTL DEF AnswerInv

(* An envelope tells what happened, no more and no less.                   *)
THEOREM EnvelopeTrue == Spec => []EnvelopeTells
  BY EnvelopeHonest, EnvelopeComplete, PTL DEF EnvelopeTells
=============================================================================
