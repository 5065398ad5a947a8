------------------------------- MODULE Policy --------------------------------
(***************************************************************************)
(* The validation and confirmation policy: what is checked of a request    *)
(* before any of it runs, and what each of its actions then runs with.     *)
(*   rust    src/desktop/rust/src/validation.rs (preflight,                *)
(*           preflight_batch, confirmation, validate_key_command,          *)
(*           key_parts), and the inheritance in dynamic_preflight and      *)
(*           batch of controller.rs                                        *)
(*   python  src/desktop/safety.py, _preflight_input_state and _batch of   *)
(*           src/desktop/controller.py                                     *)
(* A plan is the tree of a request in document order: node 1 is the        *)
(* command, and a node's `up' is the batch it is an action of.  A field    *)
(* says what the policy asks of the value: "absent", "null", "odd" (of     *)
(* another type, or not one of the allowed values), or what it is.         *)
(***************************************************************************)
EXTENDS Naturals, FiniteSets, Sequences, SequencesExt, FiniteSetsExt

CONSTANT MaxActions   \* actions of a batch, nested ones included (500)
ASSUME PolicyAssumption == MaxActions \in Nat \ {0}

Pointer == {"move", "click", "double-click", "right_click", "drag", "click_type"}
Typing  == {"type", "click_type"}
Chords  == {"press", "hotkey"}
KeyOps  == Typing \cup Chords
Inputs  == Pointer \cup KeyOps \cup {"scroll"}
FocusOps == {"focus_app", "launch"}
Reads   == {"list_apps", "list_windows", "active-window", "doctor"}
Commands == Inputs \cup FocusOps \cup Reads \cup {"observe", "wait", "batch", "stop"}

Classes == {"none", "deletion", "purchase", "message", "publishing",
            "permission", "account_security"}
Codes == {"bad_arg", "needs_attention", "blocked", "focus_required"}
Named(app) == app \notin {"absent", "blank"}   \* another type is a bad argument

(* The least a node says; `args' stands for every argument that concerns   *)
(* only the command itself: its names, its types and its ranges.           *)
Leaf(op) ==
  [op |-> op, up |-> 0, args |-> "good", app |-> "absent", risk |-> "absent",
   confirm |-> "absent", text |-> "plain", keys |-> <<>>, meta |-> FALSE,
   path |-> FALSE, timing |-> "good", deadline |-> "absent"]

Kids(plan, n) == {k \in DOMAIN plan : plan[k].up = n}

IsSequence(s) == Len(s) \in Nat /\ DOMAIN s = 1 .. Len(s)

(* Document order: only a batch has actions, and what is inside a node     *)
(* stands between it and the next that is not.                             *)
IsTree(plan) ==
  /\ IsSequence(plan)
  /\ \A n \in DOMAIN plan :
       LET up == plan[n].up IN
       /\ DOMAIN plan[n] = DOMAIN Leaf(plan[n].op) /\ IsSequence(plan[n].keys)
       /\ IF n = 1 THEN up = 0
          ELSE up \in 1 .. n - 1 /\ plan[up].op = "batch" /\ plan[up].app # "null"
       /\ \A k \in up + 1 .. n - 1 : plan[k].up >= up

-----------------------------------------------------------------------------
(* Chords.  A chord is the sequence of its words.                          *)

Modifiers == <<"cmd", "ctrl", "alt", "shift", "win">>
KeyNames  == {"q", "l", "a", "f4", "delete"}   \* of the sixty the code knows
BlockedChords == {<<"cmd", "shift", "q">>, <<"win", "l">>,
                  <<"ctrl", "alt", "delete">>, <<"alt", "f4">>}

Alias(word) == CASE word = "command" -> "cmd"
                 [] word = "control" -> "ctrl"
                 [] word = "option"  -> "alt"
                 [] OTHER -> word

IsModifier(word) == word \in Range(Modifiers)

(* The words at some places, in their order.                               *)
Subsequence(words, places) ==
  LET at(k) == CHOOSE i \in places : Cardinality({j \in places : j <= i}) = k
  IN  [k \in 1 .. Cardinality(places) |-> words[at(k)]]

Regular(parts) == Subsequence(parts, {i \in DOMAIN parts : ~IsModifier(parts[i])})

(* Mutant: the modifiers stay where the caller wrote them.                 *)
KeyPartsAsWritten(words) == [i \in DOMAIN words |-> Alias(words[i])]

(* key_parts: the modifiers once each and in a fixed order, then the rest. *)
KeyParts(words) ==
  LET parts == [i \in DOMAIN words |-> Alias(words[i])]
      held == {i \in DOMAIN Modifiers : Modifiers[i] \in Range(parts)}
  IN  Subsequence(Modifiers, held) \o Regular(parts)

(* Refusals in the order they are tested: the first one counts.            *)
FirstIssue(checks) ==
  LET hits == {i \in DOMAIN checks : checks[i][1]}
  IN  IF hits = {} THEN "ok" ELSE checks[Min(hits)][2]

(* validate_key_command.                                                   *)
KeyIssue(op, words) ==
  LET parts == KeyParts(words)
      regular == Regular(parts)
  IN  FirstIssue(<<
        <<parts = <<>>,                                          "bad_arg">>,
        <<\E p \in Range(regular) : p \notin KeyNames,           "bad_arg">>,
        <<parts \in BlockedChords,                               "blocked">>,
        <<Len(regular) # 1,                                      "bad_arg">>,
        <<op = "press" /\ Len(parts) # 1,                        "bad_arg">> >>)

(* macos_key: the flags and the key code the helper is given.              *)
PostedChord(words) ==
  LET parts == KeyParts(words)
      regular == Regular(parts)
  IN  IF "win" \in Range(parts) THEN [flags |-> {}, key |-> "unsupported"]
      ELSE [flags |-> Range(parts) \ Range(regular), key |-> Last(regular)]

-----------------------------------------------------------------------------
(* Inheritance: what an action says itself, or what its batch passes on.   *)

Passed(port, v) == IF port = "python" /\ v = "null" THEN "absent" ELSE v

(* Mutant: the batch's word stands in for the action's own.                *)
InheritedOver(port, own, above) ==
  IF Passed(port, above) # "absent" THEN Passed(port, above) ELSE own

Inherited(port, own, above) == IF own = "absent" THEN Passed(port, above) ELSE own

Takes(field) == IF field = "app" THEN KeyOps \cup {"batch"} ELSE Inputs \cup {"batch"}

(* What a node is validated with.                                          *)
Effective(port, plan, field) ==
  LET value[n \in DOMAIN plan] ==
        LET own == plan[n]
        IN  IF own.up = 0 \/ own.op \notin Takes(field) THEN own[field]
            ELSE Inherited(port, own[field], value[own.up])
  IN  value

(* action_count: each action, and what is inside it.                       *)
Counted(plan, count, n) ==
  LET sum[k \in n .. Len(plan)] ==
        IF k = n THEN 0 ELSE sum[k - 1] + (IF plan[k].up = n THEN 1 + count[k] ELSE 0)
  IN  sum[Len(plan)]

ActionCount(plan) ==
  LET count[n \in DOMAIN plan] == Counted(plan, count, n) IN count

-----------------------------------------------------------------------------
(* confirmation; Python looks at the type of confirm last.                 *)

Consequential(e) == e.risk # "none" \/ (e.op \in Typing /\ e.text = "risky")

(* Mutant: the text alone decides.                                         *)
ConfirmationByText(port, e) ==
  FirstIssue(<<
    <<e.risk \notin Classes,                                     "bad_arg">>,
    <<e.confirm \in {"odd", "null"},                             "bad_arg">>,
    <<e.text = "risky" /\ e.confirm # "true",                    "needs_attention">> >>)

Confirmation(port, e) ==
  LET unclassified == <<e.risk \notin Classes, "bad_arg">>
      mistyped     == <<e.confirm \in {"odd", "null"}, "bad_arg">>
      unconfirmed  == <<Consequential(e) /\ e.confirm # "true", "needs_attention">>
  IN  FirstIssue(IF port = "rust" THEN <<unclassified, mistyped, unconfirmed>>
                 ELSE <<unclassified, unconfirmed, mistyped>>)

(* What is wrong with node n itself, its batch's tests of it first.        *)
OwnIssue(port, plan, n) ==
  LET e == [plan[n] EXCEPT !.risk    = Effective(port, plan, "risk")[n],
                           !.confirm = Effective(port, plan, "confirm")[n],
                           !.app     = Effective(port, plan, "app")[n]]
      badDeadline == e.deadline = "odd" \/ (e.deadline = "null" /\ port = "rust")
  IN  FirstIssue(<<
        <<e.op \notin Commands,                                  "bad_arg">>,
        <<n > 1 /\ e.op = "stop",                                "bad_arg">>,
        <<n > 1 /\ e.op = "observe" /\ ~e.meta,                  "bad_arg">>,
        <<e.args = "bad",                                        "bad_arg">>,
        <<e.op = "observe" /\ e.meta /\ e.path,                  "bad_arg">>,
        <<e.op \in FocusOps /\ ~Named(e.app),                   "bad_arg">>,
        <<e.op \in Typing /\ e.text = "challenge",               "needs_attention">>,
        <<e.op \in Chords /\ KeyIssue(e.op, e.keys) # "ok",      KeyIssue(e.op, e.keys)>>,
        <<e.op = "batch" /\ badDeadline,                         "bad_arg">>,
        <<e.op = "batch" /\ e.app = "blank",                     "bad_arg">>,
        <<e.op = "batch" /\ Kids(plan, n) = {},                  "bad_arg">>,
        <<ActionCount(plan)[n] > MaxActions,                     "bad_arg">>,
        <<e.op \in KeyOps /\ ~Named(e.app),                     "focus_required">>,
        <<e.op \in Typing \cup {"move"} /\ e.timing = "odd",     "bad_arg">>,
        <<e.op \in Inputs /\ Confirmation(port, e) # "ok",       Confirmation(port, e)>> >>)

(* preflight and preflight_batch: a node, and then its actions in order.   *)
Preflight(port, plan) ==
  LET issue == [n \in DOMAIN plan |-> OwnIssue(port, plan, n)]
      faulty == {n \in DOMAIN plan : issue[n] # "ok"}
  IN  IF faulty = {} THEN "ok" ELSE issue[Min(faulty)]

-----------------------------------------------------------------------------
(* What the actions of an admitted plan are checked and run with.          *)

(* Mutant: a nested batch does not hand its own batch's app on.            *)
CheckedAppShallow(port, plan) ==
  [n \in DOMAIN plan |->
     LET own == plan[n] IN
     IF own.app # "absent" \/ own.up = 0 THEN own.app ELSE plan[own.up].app]

(* dynamic_preflight: the app whose focus is looked at before action 0.    *)
CheckedApp(port, plan) ==
  LET app[n \in DOMAIN plan] ==
        LET own == plan[n]
            takes == port = "python" \/ own.op \in KeyOps \cup {"batch"}
        IN  IF own.app = "absent" /\ own.up # 0 /\ takes THEN app[own.up] ELSE own.app
  IN  app

(* batch: the app the action is dispatched with.  Python passes it beside  *)
(* the action's own parameters, as _batch_app.                             *)
DispatchedApp(port, plan) ==
  LET app[n \in DOMAIN plan] ==
        LET own == plan[n]
            takes == port = "python" \/ own.op \in KeyOps \cup {"batch"}
        IN  IF own.app = "absent" /\ own.up # 0 /\ takes THEN app[own.up] ELSE own.app
  IN  app

-----------------------------------------------------------------------------
(* What a request has to be, read off the tree and not off the recursion.  *)

(* The node and the batches around it, and the actions inside it.          *)
Around(plan, n) == {m \in 1 .. n : \A k \in m + 1 .. n : plan[k].up >= m}
Within(plan, n) == {m \in DOMAIN plan : m # n /\ n \in Around(plan, m)}

(* The nearest word on a field.  Python does not hear a batch's null.      *)
Nearest(port, plan, n, field) ==
  LET says == {m \in Around(plan, n) : plan[m][field] # "absent"}
  IN  IF says = {} THEN "absent"
      ELSE IF Max(says) = n THEN plan[n][field]
      ELSE Passed(port, plan[Max(says)][field])

(* Exactly one key that is not a modifier, and for press nothing else.     *)
Regulars(words) == {i \in DOMAIN words : ~IsModifier(Alias(words[i]))}
Held(words) == {Alias(words[i]) : i \in DOMAIN words \ Regulars(words)}
Chord(words) == [flags |-> Held(words), key |-> words[Min(Regulars(words))]]

ChordKnown(words) == \A i \in Regulars(words) : words[i] \in KeyNames
ChordComplete(op, words) ==
  Cardinality(Regulars(words)) = 1 /\ (op = "press" => Held(words) = {})
ChordBlocked(words) ==
  /\ Cardinality(Regulars(words)) = 1
  /\ Chord(words) \in {[flags |-> {"cmd", "shift"}, key |-> "q"], [flags |-> {"win"}, key |-> "l"],
                       [flags |-> {"ctrl", "alt"}, key |-> "delete"],
                       [flags |-> {"alt"}, key |-> "f4"]}

(* The reasons there are to refuse a node.                                 *)
Malformed(port, plan, n) ==
  LET node == plan[n] IN
  \/ node.op \notin Commands \/ node.args = "bad"
  \/ node.op = "stop" /\ n > 1
  \/ node.op = "observe" /\ IF n > 1 /\ ~node.meta THEN TRUE ELSE node.meta /\ node.path
  \/ node.op \in FocusOps /\ ~Named(node.app)
  \/ node.op \in Chords /\ ~(ChordKnown(node.keys) /\ ChordComplete(node.op, node.keys))
  \/ node.op \in Typing \cup {"move"} /\ node.timing = "odd"
  \/ /\ node.op = "batch"
     /\ \/ node.deadline = "odd" \/ (node.deadline = "null" /\ port = "rust")
        \/ node.app = "blank"
        \/ Cardinality(Within(plan, n)) \notin 1 .. MaxActions
  \/ /\ node.op \in Inputs
     /\ \/ Nearest(port, plan, n, "risk") \notin Classes
        \/ Nearest(port, plan, n, "confirm") \in {"odd", "null"}

Unsafe(port, plan, n) ==
  \/ plan[n].op \in Typing /\ plan[n].text = "challenge"
  \/ /\ plan[n].op \in Inputs
     /\ \/ Nearest(port, plan, n, "risk") # "none"
        \/ plan[n].op \in Typing /\ plan[n].text = "risky"
     /\ Nearest(port, plan, n, "confirm") # "true"

Faults(port, plan, n) ==
  (IF Malformed(port, plan, n) THEN {"bad_arg"} ELSE {})
  \cup (IF Unsafe(port, plan, n) THEN {"needs_attention"} ELSE {})
  \cup (IF plan[n].op \in Chords /\ ChordBlocked(plan[n].keys) THEN {"blocked"} ELSE {})
  \cup (IF plan[n].op \in KeyOps /\ ~Named(Nearest(port, plan, n, "app"))
         THEN {"focus_required"} ELSE {})

(* A request is admitted when no action of it has a fault, however deep it *)
(* is nested and wherever it takes its risk, confirmation and app from;    *)
(* otherwise the code answered is a fault of the first faulty action       *)
(* (validation.rs:524 validates a batch whole, before the first action).   *)
VerdictRight(port, plan, verdict) ==
  LET faulty == {n \in DOMAIN plan : Faults(port, plan, n) # {}}
  IN  IF faulty = {} THEN verdict = "ok" ELSE verdict \in Faults(port, plan, Min(faulty))

(* The app that was looked at is the app the keys are sent to, and the one *)
(* the request names nearest to the action: four pieces of code pass it    *)
(* down the batches, each in its own way.                                  *)
OneTarget(port, plan) ==
  \A n \in DOMAIN plan : plan[n].op \in KeyOps =>
    /\ CheckedApp(port, plan)[n] = Nearest(port, plan, n, "app")
    /\ DispatchedApp(port, plan)[n] = Nearest(port, plan, n, "app")

(* The chord that is posted is the chord that was asked for.               *)
OneChord(plan) ==
  \A n \in DOMAIN plan : plan[n].op \in Chords =>
    \/ PostedChord(plan[n].keys) = Chord(plan[n].keys)
    \/ "win" \in Held(plan[n].keys) /\ PostedChord(plan[n].keys).key = "unsupported"
=============================================================================
