--------------------------- MODULE MCDesktopCommand ---------------------------
(* The requests to check: trees of actions, chords, observations on screens *)
(* near the ends of the integers, command lines, and the commands that run  *)
(* children.                                                                *)
EXTENDS DesktopCommand

Screen(d, displays) == [bounds |-> d, displays |-> displays]
Rect(x, y, w, h) == [x |-> x, y |-> y, w |-> w, h |-> h]
Plain == Screen(Rect(0, 0, 2, 2), {Rect(0, 0, 2, 2)})

Request(side, tree, d) ==
  [port |-> side, args |-> <<>>, plan |-> tree, dry |-> d, layout |-> Plain,
   region |-> Rect(0, 0, 1, 1)]

(* One action, with what it says of risk, confirmation, text and app.       *)
Risks    == {"absent", "none", "purchase", "null", "odd"}
Confirms == {"absent", "true", "false", "null", "odd"}
Apps     == {"absent", "blank", "Mail", "Notes"}

Flat ==
  {<<[Leaf(o) EXCEPT !.risk = r, !.confirm = c]>>
     : o \in {"click", "scroll"}, r \in Risks, c \in Confirms}
  \cup {<<[Leaf("type") EXCEPT !.risk = r, !.confirm = c, !.text = t, !.app = a]>>
     : r \in Risks, c \in Confirms, t \in {"plain", "risky", "challenge"}, a \in Apps}
  \cup {<<[Leaf(o) EXCEPT !.args = g, !.app = a, !.meta = m, !.path = p, !.timing = t]>>
     : o \in Commands \cup {"unknown"}, g \in {"good", "bad"}, a \in {"absent", "Mail"},
       m \in BOOLEAN, p \in BOOLEAN, t \in {"good", "odd"}}

(* Chords of up to two words, and some of three.                            *)
ChordWords == {"cmd", "command", "option", "shift", "alt", "win", "q", "l", "f4", "nokey"}
Orders(a, b, c) == {<<a, b, c>>, <<a, c, b>>, <<b, a, c>>, <<b, c, a>>, <<c, a, b>>, <<c, b, a>>}
KeyLists ==
  UNION {[1 .. k -> ChordWords] : k \in 0 .. 2}
  \cup Orders("command", "shift", "q") \cup Orders("ctrl", "alt", "delete")
  \cup Orders("shift", "shift", "q") \cup Orders("option", "alt", "f4")
Pressed ==
  {<<[Leaf(o) EXCEPT !.app = "Mail", !.risk = "none", !.keys = k]>>
     : o \in Chords, k \in KeyLists}

(* Batches: what passes down three levels; two actions one after another;   *)
(* and more actions than there may be.                                      *)
BatchOf(up, r, c, a) ==
  [Leaf("batch") EXCEPT !.up = up, !.risk = r, !.confirm = c, !.app = a]

Deep ==
  {<<BatchOf(0, r1, c1, "absent"), BatchOf(1, r2, c2, "absent"),
     [Leaf("click") EXCEPT !.up = 2, !.risk = r3, !.confirm = c3]>>
     : r1 \in {"absent", "none", "purchase", "null"}, c1 \in {"absent", "true", "null"},
       r2 \in {"absent", "none", "null"}, c2 \in {"absent", "true", "false"},
       r3 \in {"absent", "none"}, c3 \in {"absent", "true", "null"}}
  \cup {<<BatchOf(0, "none", "absent", a1), BatchOf(1, "absent", "absent", a2),
     [Leaf("press") EXCEPT !.up = 2, !.app = a3, !.keys = <<"q">>],
     [Leaf("type") EXCEPT !.up = u, !.app = a4]>>
     : a1 \in Apps, a2 \in Apps, a3 \in Apps, a4 \in {"absent", "Notes"}, u \in {1, 2}}

Actions ==
  {[Leaf("click") EXCEPT !.risk = "none"], [Leaf("click") EXCEPT !.risk = "odd"],
   [Leaf("click") EXCEPT !.risk = "deletion"], Leaf("stop"), Leaf("observe"),
   [Leaf("observe") EXCEPT !.meta = TRUE], [Leaf("wait") EXCEPT !.args = "bad"],
   [Leaf("type") EXCEPT !.risk = "none"], [Leaf("type") EXCEPT !.text = "challenge"],
   [Leaf("hotkey") EXCEPT !.risk = "none", !.app = "Mail", !.keys = <<"alt", "f4">>],
   Leaf("batch"), [Leaf("batch") EXCEPT !.deadline = "null"]}
In(n, action) == [action EXCEPT !.up = n]

Wide ==
  {<<Leaf("batch"), In(1, a), In(u, b)>> : a \in Actions, b \in Actions, u \in {1, 2}}
  \cup {<<[Leaf("batch") EXCEPT !.deadline = d, !.app = a]>> \o [i \in 1 .. n |-> In(1, Leaf("wait"))]
          : d \in {"absent", "null", "odd", "good"}, a \in {"absent", "blank"}, n \in 0 .. 4}
  \cup {<<Leaf("batch"), In(1, Leaf("wait")), In(1, Leaf("batch")),
          In(3, Leaf("wait"))>> \o [i \in 1 .. n |-> In(u, Leaf("wait"))] : n \in 0 .. 1, u \in {1, 3}}

(* In a node's batches, a node of another kind than a batch has no actions. *)
Trees == {p \in Flat \cup Pressed \cup Deep \cup Wide :
            \A n \in 2 .. Len(p) : p[p[n].up].op = "batch"}

(* Observations, on a machine whose integers end at 15 and whose sizes end  *)
(* at 63.                                                                   *)
Screens ==
  {Plain, Screen(Rect(0, 0, 13, 5), {Rect(0, 0, 13, 5)}),
   Screen(Rect(0, 0, 3, 2), {Rect(0, 0, 2, 2), Rect(2, 0, 1, 1)}),
   Screen(Rect(-2, -1, 4, 3), {Rect(-2, -1, 1, 1), Rect(0, 0, 2, 2)}),
   Screen(Rect(0, 0, 3, 2), {Rect(0, 0, 2, 2)}),
   Screen(Rect(13, 13, 2, 2), {Rect(13, 13, 2, 2)}),
   Screen(Rect(13, 13, 3, 3), {Rect(13, 13, 3, 3)}),
   Screen(Rect(13, 13, 2, 2), {Rect(13, 13, 3, 3)}),
   Screen(Rect(13, 0, 15, 1), {Rect(13, 0, 2, 1)}),
   Screen(Rect(-16, 0, 15, 1), {Rect(-16, 0, 1, 1), Rect(14, 0, 1, 1)}),
   Screen(Rect(-16, 0, 31, 1), {Rect(-16, 0, 1, 1), Rect(14, 0, 1, 1)}),
   Screen(Rect(0, 0, 2, 2), {}), Screen(Rect(0, 0, 0, 2), {Rect(0, 0, 2, 2)}),
   Screen(Rect(0, 0, 2, 2), {Rect(0, 0, 2, 2), Rect(1, 1, 0, 1)})}
Regions ==
  {Rect(x, y, w, h) : x \in {-16, -2, 0, 13}, y \in {-1, 0, 13}, w \in {1, 2, 15}, h \in {1, 2}}
  \cup {Rect(0, 0, 13, 5), Rect(0, 0, 11, 3), Rect(13, 13, 3, 3), Rect(0, 0, 15, 15)}

Shot(meta, path) == <<[Leaf("observe") EXCEPT !.meta = meta, !.path = path]>>
Shots == {Shot(m, p) : m \in BOOLEAN, p \in BOOLEAN}
Looked(shots, d) ==
  {q \in {[Request(side, shot, d) EXCEPT !.layout = l, !.region = r]
             : side \in {"rust", "python"}, shot \in shots, l \in Screens, r \in Regions} :
     LayoutTyped(q.port, q.layout)}
Observations == Looked(Shots, FALSE)
Drills == Looked({Shot(FALSE, FALSE)}, TRUE)

(* Command lines: each line, and each with one or two more words in it.     *)
Spec1 == <<Leaf("batch"), [Leaf("click") EXCEPT !.up = 1, !.risk = "purchase", !.confirm = "true"]>>
Lines ==
  {<<"click", "--x", "7", "--y", "7", "--risk", "none">>,
   <<"drag", "--from", "1,2", "--to", "1,2", "--risk", "none">>,
   <<"type", "--app", "Mail", "--risk", "purchase", "hello">>,
   <<"type", "--risk", "purchase", "hello">>, <<"type", "buy">>, <<"type", "--app", "Mail", "password">>,
   <<"click_type", "--x", "7", "--y", "7", "hello">>,
   <<"press", "--app", "Mail", "--risk", "none", "q">>,
   <<"hotkey", "--app", "Mail", "--risk", "none", "cmd+shift+q">>,
   <<"observe">>, <<"observe", "--to-file">>, <<"observe", "--metadata-only">>,
   <<"batch", "--json", "spec">>, <<"batch", "--json", "7">>, <<"stop">>, <<>>}
Added == {"--execute", "--dry-run", "--", "--confirm", "--confirm=false", "--app", "--risk",
          "--bogus", "--help", "7", "hello"}
Inserted(lines) ==
  UNION {{InsertAt(line, i, w) : i \in 1 .. Len(line) + 1, w \in Added} : line \in lines}
Argv ==
  Lines \cup Inserted(Lines)
  \cup Inserted(Inserted({<<"type", "--risk", "purchase", "hello">>, <<"observe", "--to-file">>,
                          <<"click", "--x", "7", "--y", "7">>}))

(* The requests that run children.                                          *)
Run(side, o) == Request(side, <<[Leaf(o) EXCEPT !.app = IF o \in FocusOps THEN "Mail" ELSE "absent"]>>, FALSE)

MCRequests == <<
  {Request(side, p, TRUE) : side \in {"rust", "python"}, p \in Trees},
  Observations, Drills,
  {[Request("rust", <<>>, TRUE) EXCEPT !.args = a] : a \in Argv \ {<<>>}},
  {[Request("rust", <<>>, TRUE) EXCEPT !.args = <<"active-window", "--execute">>]},
  {Run(side, o) : side \in {"rust", "python"},
                  o \in {"focus_app", "active-window", "list_apps", "list_windows", "stop"}} >>
=============================================================================
