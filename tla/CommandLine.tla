----------------------------- MODULE CommandLine -----------------------------
(***************************************************************************)
(* One run of the Rust command line, from its words to the request it      *)
(* makes of a controller of its own, or the answer it gives by itself:     *)
(* src/desktop/rust/src/cli.rs and src/desktop/rust/src/bin/desktop.rs.    *)
(* A word is a member of a small set; what the code makes of its           *)
(* characters (an option or not, an integer, a pair, a chord) is a table.  *)
(***************************************************************************)
EXTENDS Policy

CONSTANT BatchSpec   \* the plan that the JSON word "spec" holds
ASSUME BatchSpecAssumption ==
  IsTree(BatchSpec) /\ BatchSpec # <<>> /\ BatchSpec[1].op = "batch"

Separator == "--"

(* The options' parameters: those that stand alone, and those that take    *)
(* the next word.  An inline value of one that stands alone is ignored.    *)
Switches == [w \in {"--confirm", "--confirm=false", "--to-file", "--metadata-only"} |->
               CASE w = "--to-file" -> "path_mode"
                 [] w = "--metadata-only" -> "metadata_only"
                 [] OTHER -> "confirm"]
Options == [w \in {"--x", "--y", "--app", "--risk", "--from", "--json", "--to", "--bogus"} |->
              CASE w = "--x" -> "x" [] w = "--y" -> "y" [] w = "--app" -> "app"
                [] w = "--risk" -> "risk" [] w = "--json" -> "json"
                [] w = "--from" -> "from" [] w = "--to" -> "to" [] OTHER -> "bogus"]

(* A flag kept behind the separator is an option like any other.           *)
OptionKey(w) == IF w \in DOMAIN Options THEN Options[w] ELSE w
IsOption(w) ==
  w \in DOMAIN Options \cup {"--execute", "--dry-run", "--help", "--version"}

Integers64 == {"7"}
Pairs      == {"1,2"}
Risky      == {"buy"}
Challenges == {"password"}
ChordOf(w) == IF w = "cmd+shift+q" THEN <<"cmd", "shift", "q">> ELSE <<w>>

-----------------------------------------------------------------------------
(* normalize_flags: the two global flags count wherever they stand before  *)
(* the separator, and are taken out there.                                 *)

Before(args) == IF Separator \in Range(args)
                THEN SubSeq(args, 1, SelectInSeq(args, LAMBDA w : w = Separator) - 1)
                ELSE args
Behind(args) == SubSeq(args, Len(Before(args)) + 1, Len(args))

(* Mutant: behind the separator as well.                                   *)
FlagsAnywhere(args) == Range(args) \cap {"--execute", "--dry-run"}

Flags(args) == Range(Before(args)) \cap {"--execute", "--dry-run"}

(* The other words, in their order.                                        *)
Unflagged(words) ==
  Subsequence(words, {i \in DOMAIN words : words[i] \notin {"--execute", "--dry-run"}})

Normalized(args) == Unflagged(Before(args)) \o Behind(args)

-----------------------------------------------------------------------------
(* parse's loop over the words behind the command.  An option takes the    *)
(* next word whatever that is: of a row of options every other one is a    *)
(* value.                                                                  *)
Row(words, i) == Max({n \in 0 .. i - 1 : \A k \in i - n .. i - 1 : IsOption(words[k])})
IsValue(words, i) == Row(words, i) % 2 = 1

(* The first separator that is no option's value ends the options.         *)
Cut(words) ==
  Min({i \in DOMAIN words : words[i] = Separator /\ ~IsValue(words, i)} \cup {Len(words) + 1})

(* Mutant: the words behind the separator are options still.               *)
LiteralNever(words, i) == i = Cut(words)

Literal(words, i) == i >= Cut(words)

IsSwitchAt(words, i) == ~Literal(words, i) /\ ~IsValue(words, i) /\ words[i] \in DOMAIN Switches
IsOptionAt(words, i) == ~Literal(words, i) /\ ~IsValue(words, i) /\ IsOption(words[i])
IsPositional(words, i) ==
  /\ i # Cut(words)
  /\ Literal(words, i) \/ ~IsValue(words, i)
  /\ ~IsSwitchAt(words, i) /\ ~IsOptionAt(words, i)

(* The option's value, the later one if it is given twice; a last option   *)
(* without a value is an error.                                            *)
Scan(words) ==
  LET options == {i \in DOMAIN words : IsOptionAt(words, i)}
      switches == {i \in DOMAIN words : IsSwitchAt(words, i)}
      positionals == {i \in DOMAIN words : IsPositional(words, i)}
      keys == {OptionKey(words[i]) : i \in options}
      flags == {Switches[words[i]] : i \in switches}
      last(k) == Max({i \in options : OptionKey(words[i]) = k})
  IN  [complete |-> words = <<>> \/ ~IsOptionAt(words, Len(words)),
       params |-> [k \in keys \cup flags |->
                     IF k \in flags THEN "true"
                     ELSE IF last(k) < Len(words) THEN words[last(k) + 1] ELSE ""],
       positionals |-> {words[i] : i \in positionals},
       count |-> Cardinality(positionals)]

(* apply_defaults_and_positionals.  The default app comes before the       *)
(* required parameters are looked for, so click_type never misses it.      *)
Positional(op) == IF op \in Typing THEN "text" ELSE IF op \in Chords THEN "keys" ELSE "none"

Required(op) ==
  CASE op \in FocusOps -> {"app"}
    [] op \in Pointer \ {"drag"} -> {"x", "y"}
    [] op = "drag" -> {"from", "to"}
    [] op = "batch" -> {"json"}
    [] OTHER -> {}

Completed(op, scan) ==
  LET positional == IF Positional(op) = "none" THEN {} ELSE {Positional(op)}
      default == IF op \in KeyOps THEN {"app"} ELSE {}
  IN  [k \in DOMAIN scan.params \cup positional \cup default |->
         IF k \in positional THEN CHOOSE w \in scan.positionals : TRUE
         ELSE IF k \in DOMAIN scan.params THEN scan.params[k]
         ELSE ""]

(* The parameters each command knows, in the spelling of this module.      *)
Allowed(op) ==
  (IF op \in Inputs THEN {"risk", "confirm"} ELSE {})
  \cup (IF op \in KeyOps \cup FocusOps \cup {"list_windows"} THEN {"app"} ELSE {})
  \cup (IF op \in Pointer \ {"drag"} THEN {"x", "y"} ELSE {})
  \cup (IF op = "drag" THEN {"from", "to"} ELSE {})
  \cup (IF op = "observe" THEN {"metadata_only", "path_mode"} ELSE {})
  \cup {Positional(op)}

Convertible(params) ==
  /\ \A k \in DOMAIN params \cap {"x", "y"} : params[k] \in Integers64
  /\ \A k \in DOMAIN params \cap {"from", "to"} : params[k] \in Pairs

(* The request, as the policy sees it.                                     *)
NodeOf(op, params) ==
  LET has(k) == k \in DOMAIN params IN
  [Leaf(op) EXCEPT
     !.args = IF DOMAIN params \subseteq Allowed(op) THEN "good" ELSE "bad",
     !.app  = IF ~has("app") THEN "absent" ELSE IF params.app = "" THEN "blank" ELSE params.app,
     !.risk = IF op \notin Inputs THEN "absent" ELSE IF ~has("risk") THEN "null"
              ELSE IF params.risk \in Classes THEN params.risk ELSE "odd",
     !.confirm = IF op \notin Inputs THEN "absent" ELSE IF has("confirm") THEN "true" ELSE "false",
     !.text = IF ~has("text") THEN "plain" ELSE IF params.text \in Challenges THEN "challenge"
              ELSE IF params.text \in Risky THEN "risky" ELSE "plain",
     !.keys = IF has("keys") THEN ChordOf(params.keys) ELSE <<>>,
     !.meta = has("metadata_only"),
     !.path = has("path_mode")]

-----------------------------------------------------------------------------
(* parse: what the words ask for.                                          *)

Said(kind)      == [kind |-> kind, execute |-> FALSE, plan |-> <<>>]
Asked(exec, plan) == [kind |-> "command", execute |-> exec, plan |-> plan]

ParseCommand(exec, words) ==
  LET op == Head(words)
      scan == Scan(Tail(words))
      params == Completed(op, scan)
  IN  IF ~scan.complete \/ scan.count # (IF Positional(op) = "none" THEN 0 ELSE 1)
        THEN Said("error")
      ELSE IF ~(Required(op) \subseteq DOMAIN params) THEN Said("error")
      ELSE IF op = "batch"
        THEN IF params.json = "spec" THEN Asked(exec, BatchSpec) ELSE Said("error")
      ELSE IF ~Convertible(params) THEN Said("error")
      ELSE Asked(exec, <<NodeOf(op, params)>>)

Parse(args) ==
  LET words == Normalized(args)
      command == Range(Before(words))
  IN  IF Cardinality(Flags(args)) = 2 THEN Said("error")
      ELSE IF command \cap {"--help", "--version"} # {} THEN Said("help")
      ELSE IF words = <<>> \/ Head(words) \notin Commands THEN Said("error")
      ELSE ParseCommand(Flags(args) = {"--execute"}, words)

-----------------------------------------------------------------------------
(* main: what a process that runs once cannot do, and what it returns.     *)

(* Mutant: the coordinate commands are let through.                        *)
OneShotPathsOnly(asked) ==
  CASE asked.kind = "help" -> "ok"
    [] asked.kind = "error" -> "bad_arg"
    [] asked.plan[1].op = "stop" -> "ok"
    [] asked.execute /\ asked.plan[1].op = "observe" /\ asked.plan[1].path -> "unsupported"
    [] OTHER -> "run"

OneShot(asked) ==
  LET op == asked.plan[1].op IN
  CASE asked.kind = "help" -> "ok"
    [] asked.kind = "error" -> "bad_arg"
    [] asked.kind = "command" /\ op = "stop" -> "ok"
    [] asked.kind = "command" /\ asked.execute /\ op \in Pointer -> "unsupported"
    [] asked.kind = "command" /\ asked.execute /\ op = "observe" /\ asked.plan[1].path
         -> "unsupported"
    [] OTHER -> "run"
=============================================================================
