------------------------- MODULE DesktopCommandProofs -------------------------
(***************************************************************************)
(* Theorems of DesktopCommand, for all requests: the reads a command makes *)
(* are true, one after another, and so is what focus_app answers; the      *)
(* capture budget, one run of the command line, and the policy's verdict   *)
(* on a tree of any size.                                                  *)
(***************************************************************************)
EXTENDS DesktopCommand, NativeReadProofs, FiniteSetTheorems, SequenceTheorems

USE DEF Runners, Pipes, AtAll

(* How a step of the command touches the read.                             *)
LEMMA StepReads ==
  ASSUME [Next]_vars
  PROVE  \/ UNCHANGED read
         \/ \E r \in Runners : StartRead(r)
         \/ \E words \in SUBSET Words : ReadStep(words)
<1>0. {"wanted", "other", "empty", "list"} \subseteq Words
  BY CommandAssumption
<1>1. ASSUME Prepare PROVE UNCHANGED read \/ \E r \in Runners : StartRead(r)
  BY <1>1 DEF Prepare, ParseWords, ApplyPolicy, AnswerAtOnce, Observe, Dispatch, Starts
<1>2. ASSUME GoOn PROVE UNCHANGED read \/ \E r \in Runners : StartRead(r)
  BY <1>2 DEF GoOn, ListEnds, ScriptSaysNothing, ActiveWindow, FocusShown, Activate,
     ActivationEnds, LookAgain, NotYet, GiveUp, Starts
<1>3. ASSUME ChildGoesOn PROVE \E words \in SUBSET Words : ReadStep(words)
  <2>1. ASSUME See PROVE \E w \in Words : Produce(w)
    BY <1>0, <2>1 DEF See
  <2>2. ASSUME Work PROVE \E w \in Words : Produce(w)
    BY <1>0, <2>2 DEF Work
  <2>3. ASSUME Child({}) PROVE ReadStep({})
    BY <2>3 DEF ReadStep
  <2>4. (\E w \in Words : Produce(w)) => ReadStep(Words)
    BY DEF ReadStep, Child
  <2> QED BY <1>3, <2>1, <2>2, <2>3, <2>4 DEF ChildGoesOn
<1>4. ASSUME Hang \/ RunnerGoesOn \/ TimeIsUp PROVE ReadStep({})
  BY <1>4 DEF RunnerGoesOn, ReadStep
<1>5. CASE UNCHANGED vars
  BY <1>5 DEF vars, read
<1>6. CASE FiveSeconds
  BY <1>6 DEF FiveSeconds
<1> QED BY <1>1, <1>2, <1>3, <1>4, <1>5, <1>6 DEF Next

LEMMA NextKeepsReadInv == ReadInv /\ [Next]_vars => ReadInv'
<1>1. ASSUME NEW r \in Runners, StartRead(r) PROVE ReadInv'
  BY <1>1, FreshKeepsInv DEF StartRead, FreshNext, Fresh
<1> QED BY <1>1, StepReads, StepKeepsInv, UnchangedKeepsInv

LEMMA InitReadInv == Init => ReadInv
<1> SUFFICES ASSUME Init PROVE ReadInv
  OBVIOUS
<1>1. left \in [Pipes -> 0 .. MaxOut] /\ pipe \in [Pipes -> 0 .. PipeSize]
  BY ReadAssumption DEF Init, IdleRead, Fresh
<1>2. reader \in [Pipes -> {"off", "reading", "eof", "failed", "closed"}]
  BY DEF Init, IdleRead, Fresh
<1> QED BY <1>1, <1>2 DEF Init, IdleRead, Fresh, ReadInv, ReadTypeOK, RunnerWhere, ResultWhere,
     ChildWhere, ReaderWhere, Accepted

(* Every child of every command: see ReadIsTrue.  The reads of one command *)
(* follow each other, each on pipes of its own (provider.rs:866).          *)
THEOREM ReadsOfCommandsTrue == Spec => []ReadTells
<1>1. ReadInv => ReadTells
  BY ReadInvTells
<1> QED BY <1>1, InitReadInv, NextKeepsReadInv, PTL DEF Spec

-----------------------------------------------------------------------------
(* focus_app.                                                              *)

(* While the command is at a look, what the child has to say is what the   *)
(* look saw, and every look after the activation was taken after it.       *)
FocusInv ==
  /\ mpc = "words" => plan = <<>>
  /\ mpc \in Preparing => ~activated
  /\ mpc \in {"activate", "open", "again", "waiting"} => activated
  /\ activated => first \in {"other", "empty", "failed"}
  /\ mpc = "list" => op = "list_apps"
  /\ mpc # "answered" => answer = "none"
  /\ mpc \in Looks /\ word = "wanted" => sample = [app |-> "wanted", after |-> activated]
  /\ mpc \in Looks /\ spc = "done" /\ result = "ok" => word \in {"wanted", "other", "empty"}
  /\ mpc \in Looks => word \in {"none", "wanted", "other", "empty"}

FocusAll == ReadInv /\ FocusInv /\ FocusSeen

USE DEF FocusOps, Looks, Preparing

LEMMA InitFocus == Init => FocusInv /\ FocusSeen
BY CommandAssumption DEF Init, IdleRead, Fresh, FocusInv, FocusSeen

LEMMA PrepareFocus == FocusAll /\ Prepare => FocusInv' /\ FocusSeen'
<1> SUFFICES ASSUME FocusAll, Prepare PROVE FocusInv' /\ FocusSeen'
  OBVIOUS
<1> USE DEF FocusAll, FocusInv, FocusSeen, Goes, Answers, Starts, StartRead, FreshNext
<1>1. CASE ParseWords
  BY <1>1 DEF ParseWords, call, focus, op
<1>2. CASE ApplyPolicy
  BY <1>2 DEF ApplyPolicy, Judge, call, focus, op
<1>3. CASE AnswerAtOnce
  BY <1>3 DEF AnswerAtOnce, call, focus, op, Inputs, Pointer, KeyOps, Typing, Chords
<1>4. CASE Observe
  BY <1>4 DEF Observe, call, focus, op
<1>5. CASE Dispatch
  BY <1>5 DEF Dispatch, call, focus, op
<1> QED BY <1>1, <1>2, <1>3, <1>4, <1>5 DEF Prepare

LEMMA GoOnFocus == FocusAll /\ GoOn => FocusInv' /\ FocusSeen'
<1> SUFFICES ASSUME FocusAll, GoOn PROVE FocusInv' /\ FocusSeen'
  OBVIOUS
<1> USE DEF FocusAll, FocusInv, FocusSeen, Goes, Answers, Starts, StartRead, FreshNext
<1>1. CASE ListEnds
  BY <1>1 DEF ListEnds, Read, call, focus, op
<1>2. CASE ScriptSaysNothing
  BY <1>2 DEF ScriptSaysNothing, Read, call, focus, op
<1>3. CASE ActiveWindow
  BY <1>3 DEF ActiveWindow, call, focus, op, LookedAt, LookFailed, Read
<1>4. CASE FocusShown
  BY <1>4 DEF FocusShown, call, focus, op, LookedAt, Read
<1>5. CASE Activate
  BY <1>5 DEF Activate, call, op, LookedAt, LookFailed, Read
<1>6. CASE ActivationEnds
  BY <1>6 DEF ActivationEnds, call, focus, op
<1>7. CASE LookAgain
  BY <1>7 DEF LookAgain, call, focus, op
<1>8. CASE NotYet
  BY <1>8 DEF NotYet, LookedAt, LookFailed, Read, call, focus, op
<1>9. CASE GiveUp
  BY <1>9 DEF GiveUp, call, focus, op
<1> QED BY <1>1, <1>2, <1>3, <1>4, <1>5, <1>6, <1>7, <1>8, <1>9 DEF GoOn

(* The child changes what it says only once, and then it has looked.       *)
LEMMA ChildFocus == FocusAll /\ ChildGoesOn => FocusInv' /\ FocusSeen'
<1> SUFFICES ASSUME FocusAll, ChildGoesOn PROVE FocusInv' /\ FocusSeen'
  OBVIOUS
<1> USE DEF FocusAll, FocusInv, FocusSeen
<1>1. CASE See
  <2>1. PICK app \in {"wanted", "other"} :
          /\ word' \in {app, "empty"} /\ sample' = [app |-> app, after |-> activated]
          /\ UNCHANGED <<spc, result>>
    BY <1>1 DEF See, Produce, ChildOnly
  <2>2. mpc \in Looks /\ UNCHANGED <<request, plan, dry, mpc, first, activated, over, answer>>
    BY <1>1 DEF See, call, focus
  <2> QED BY <2>1, <2>2 DEF op
<1>2. CASE Work
  BY <1>2 DEF Work, Produce, ChildOnly, call, focus, op
<1>3. CASE Child({}) /\ Others
  <2>1. UNCHANGED <<word, spc, result>>
    BY <1>3 DEF Child, Write, Succeed, Fail, ChildEnds, ChildOnly
  <2> QED BY <1>3, <2>1 DEF Others, call, focus, op
<1> QED BY <1>1, <1>2, <1>3 DEF ChildGoesOn

LEMMA RunnerFocus ==
  FocusAll /\ (RunnerGoesOn \/ (Hang /\ Others) \/ (TimeIsUp /\ Others))
    => FocusInv' /\ FocusSeen'
<1> SUFFICES ASSUME FocusAll, RunnerGoesOn \/ (Hang /\ Others) \/ (TimeIsUp /\ Others)
             PROVE  FocusInv' /\ FocusSeen'
  OBVIOUS
<1> USE DEF FocusAll, FocusInv, FocusSeen
<1>1. word' = word /\ Others
  BY DEF RunnerGoesOn, Runner, Readers, Hang, TimeIsUp, ChildOnly, Kept, SpawnFails, Spawn, Reap,
     Communicated, Overdue, PollFails, Kill, Wait, Join, Drain, SeeEof, ReaderFails, ReaderOnly
<1>2. ReadInv'
  BY NextKeepsReadInv DEF Next
<1>3. spc' = "done" /\ result' = "ok" => word # "none"
  BY <1>1, <1>2 DEF ReadInv, Accepted
<1> QED BY <1>1, <1>3 DEF Others, call, focus, op

LEMMA NextKeepsFocus == FocusAll /\ [Next]_vars => FocusAll'
<1> SUFFICES ASSUME FocusAll, [Next]_vars PROVE FocusInv' /\ FocusSeen'
  BY NextKeepsReadInv DEF FocusAll
<1>1. CASE FiveSeconds
  BY <1>1 DEF FiveSeconds, FocusAll, FocusInv, FocusSeen, call, op, read
<1>2. CASE UNCHANGED vars
  BY <1>2 DEF vars, FocusAll, FocusInv, FocusSeen, call, focus, op, read
<1> QED BY <1>1, <1>2, PrepareFocus, GoOnFocus, ChildFocus, RunnerFocus DEF Next

(* focus_app and launch claim success only for a look of their own, one    *)
(* taken after the activation if there was any; they activate only when    *)
(* the first look did not show the application; and having activated they  *)
(* give up only when the time is over (provider.rs:589, macos.py focus_app).*)
THEOREM FocusIsSeen == Spec => []FocusSeen
<1>1. Init => FocusAll
  BY InitReadInv, InitFocus DEF FocusAll
<1> QED BY <1>1, NextKeepsFocus, PTL DEF Spec, FocusAll

-----------------------------------------------------------------------------
(* The capture budget, for machine words and limits of every size.         *)

(* Checked sums and products: the exact number, unless it does not fit.    *)
LEMMA AddExact ==
  ASSUME NEW n \in Nat, NEW m \in Nat
  PROVE  Add(n, m) = IF n + m <= MaxSize THEN n + m ELSE Overflow
BY DEF Add, Size, Overflow

LEMMA AddOverflow == ASSUME NEW m PROVE Add(Overflow, m) = Overflow
BY DEF Add

LEMMA TimesExact ==
  ASSUME NEW n \in Nat, NEW k \in Nat
  PROVE  Times(n, k) = IF n * k <= MaxSize THEN n * k ELSE Overflow
<1>1. n * k \in Nat /\ n # Overflow
  BY DEF Overflow
<1> QED BY <1>1 DEF Times, Size

LEMMA OverExact ==
  ASSUME NEW n \in Nat, NEW k \in Nat \ {0}
  PROVE  Over(n, k) = n \div k /\ n \div k \in Nat /\ n \div k <= n
<1>1. n # Overflow
  BY DEF Overflow
<1>2. n \div k \in Nat
  OBVIOUS
<1>3. n \div k <= n
  OBVIOUS
<1> QED BY <1>1, <1>2, <1>3 DEF Over

(* A checked number is its exact value as long as that is a size.          *)
Checked(n) == IF n <= MaxSize THEN n ELSE Overflow

LEMMA RawExact ==
  ASSUME NEW a \in Nat
  PROVE  Times(Size(a), 4) = Checked(a * 4)
<1>1. CASE a <= MaxSize
  BY <1>1, TimesExact DEF Size, Checked
<1>2. CASE ~(a <= MaxSize)
  <2>1. Size(a) = Overflow
    BY <1>2, CaptureAssumption DEF Size
  <2> QED BY <1>2, <2>1, CaptureAssumption DEF Times, Checked
<1> QED BY <1>1, <1>2

LEMMA PngExact ==
  ASSUME NEW raw \in Nat
  PROVE  /\ PngBound(Checked(raw)) = Checked(raw + raw \div HeadDiv + HeadBytes)
         /\ raw \div HeadDiv \in Nat
<1>1. HeadDiv \in Nat \ {0} /\ HeadBytes \in Nat /\ MaxSize \in Nat
  BY CaptureAssumption
<1>2. Over(raw, HeadDiv) = raw \div HeadDiv /\ raw \div HeadDiv \in Nat
  BY <1>1, OverExact
<1>3. CASE raw <= MaxSize
  <2>1. PngBound(Checked(raw)) = Add(Add(raw, raw \div HeadDiv), HeadBytes)
    BY <1>2, <1>3 DEF PngBound, Checked
  <2>2. CASE raw + raw \div HeadDiv <= MaxSize
    <3>1. Add(raw, raw \div HeadDiv) = raw + raw \div HeadDiv
      BY <1>2, <2>2, AddExact
    <3> DEFINE sum == raw + raw \div HeadDiv
    <3>2. sum \in Nat
      BY <1>2
    <3>3. Add(sum, HeadBytes) = Checked(sum + HeadBytes)
      BY <1>1, <3>2, AddExact DEF Checked
    <3> QED BY <1>2, <2>1, <3>1, <3>3
  <2>3. CASE ~(raw + raw \div HeadDiv <= MaxSize)
    <3>1. Add(raw, raw \div HeadDiv) = Overflow
      BY <1>2, <2>3, AddExact
    <3>2. ~(raw + raw \div HeadDiv + HeadBytes <= MaxSize)
      BY <1>1, <1>2, <2>3
    <3> QED BY <1>2, <2>1, <3>1, <3>2, AddOverflow DEF Checked
  <2> QED BY <2>2, <2>3
<1>4. CASE ~(raw <= MaxSize)
  <2>1. PngBound(Checked(raw)) = Overflow
    BY <1>4, AddOverflow DEF PngBound, Checked
  <2> QED BY <1>1, <1>2, <1>4, <2>1 DEF Checked
<1> QED BY <1>2, <1>3, <1>4

(* From four bytes on the encoding is longer than its padded input: the    *)
(* sum that pads it never overflows alone.                                 *)
LEMMA Base64Exact ==
  ASSUME NEW png \in Nat, png >= 4
  PROVE  Base64(Checked(png)) = Checked(((png + 2) \div 3) * 4)
<1> DEFINE long == ((png + 2) \div 3) * 4
<1>1. (png + 2) \div 3 \in Nat /\ long \in Nat /\ png + 2 <= long
  OBVIOUS
<1>2. MaxSize \in Nat
  BY CaptureAssumption
<1>3. CASE png + 2 <= MaxSize
  <2>1. Add(Checked(png), 2) = png + 2
    BY <1>2, <1>3, AddExact DEF Checked
  <2>2. Over(png + 2, 3) = (png + 2) \div 3
    BY OverExact
  <2>3. Base64(Checked(png)) = Times((png + 2) \div 3, 4)
    BY <2>1, <2>2 DEF Base64
  <2>4. Times((png + 2) \div 3, 4) = Checked(((png + 2) \div 3) * 4)
    BY <1>1, TimesExact DEF Checked
  <2> QED BY <2>3, <2>4
<1>4. CASE ~(png + 2 <= MaxSize)
  <2>1. Add(Checked(png), 2) = Overflow
    BY <1>2, <1>4, AddExact, AddOverflow DEF Checked
  <2> QED BY <1>1, <1>2, <1>4, <2>1 DEF Base64, Checked, Over, Times
<1> QED BY <1>3, <1>4

LEMMA SumExact ==
  ASSUME NEW n \in Nat, NEW m \in Nat
  PROVE  Add(Checked(n), Checked(m)) = Checked(n + m)
<1>1. MaxSize \in Nat
  BY CaptureAssumption
<1>2. CASE n <= MaxSize /\ m <= MaxSize
  BY <1>2, AddExact DEF Checked
<1>3. CASE ~(n <= MaxSize /\ m <= MaxSize)
  <2>1. Add(Checked(n), Checked(m)) = Overflow
    BY <1>3 DEF Add, Checked
  <2> QED BY <1>1, <1>3, <2>1 DEF Checked
<1> QED BY <1>2, <1>3

(* preflight_capture admits a capture when, and only when, its exact worst *)
(* case is within the limit: no width, height or limit and no size of the  *)
(* machine's word makes the chain of checked operations admit or refuse    *)
(* anything else (frames.rs:268).                                          *)
THEOREM BudgetExact ==
  ASSUME NEW w \in Nat \ {0}, NEW h \in Nat \ {0}, NEW delivery \in Deliveries
  PROVE  Fits("rust", w, h, delivery) <=> ExactRust(w, h, delivery) <= Limit
<1> DEFINE a == w * h
           raw == a * 4
           png == raw + raw \div HeadDiv + HeadBytes
           base64 == IF delivery = "base64" THEN ((png + 2) \div 3) * 4 ELSE 0
<1>0. Limit \in 1 .. MaxSize /\ MaxSize \in Nat /\ Metadata \in Nat /\ HeadBytes \in Nat
  BY CaptureAssumption
<1>1. a \in Nat /\ a >= 1
  OBVIOUS
<1> HIDE DEF a
<1>2. Times(Pixels(w, h), 4) = Checked(raw) /\ raw \in Nat /\ raw >= 4
  BY <1>1, RawExact DEF Pixels, a
<1> HIDE DEF raw
<1>3. PngBound(Checked(raw)) = Checked(png) /\ png \in Nat /\ png >= 4
  BY <1>0, <1>2, PngExact
<1>4. (IF delivery = "base64" THEN Base64(Checked(png)) ELSE 0) = Checked(base64) /\ base64 \in Nat
  <2>1. ((png + 2) \div 3) * 4 \in Nat
    BY <1>3
  <2> QED BY <1>0, <1>3, <2>1, Base64Exact DEF Checked
<1>5. RustTotal(w, h, delivery)
        = Add(Add(Add(Checked(raw), Checked(png)), Checked(base64)), Metadata)
  BY <1>2, <1>3, <1>4 DEF RustTotal
<1>6. ExactRust(w, h, delivery) = raw + png + base64 + Metadata
  BY DEF ExactRust, raw, a
<1> HIDE DEF png, base64
<1>7. Add(Add(Checked(raw), Checked(png)), Checked(base64)) = Checked(raw + png + base64)
  <2>1. Add(Checked(raw), Checked(png)) = Checked(raw + png) /\ raw + png \in Nat
    BY <1>2, <1>3, SumExact
  <2>2. Add(Checked(raw + png), Checked(base64)) = Checked((raw + png) + base64)
    BY <1>4, <2>1, SumExact
  <2> QED BY <2>1, <2>2
<1>8. RustTotal(w, h, delivery) = Checked(raw + png + base64 + Metadata)
  <2> DEFINE sum == raw + png + base64
  <2>1. sum \in Nat /\ RustTotal(w, h, delivery) = Add(Checked(sum), Metadata)
    BY <1>2, <1>3, <1>4, <1>5, <1>7
  <2> HIDE DEF sum
  <2>2. Add(Checked(sum), Metadata) = Checked(sum + Metadata)
    <3>1. CASE sum <= MaxSize
      BY <1>0, <2>1, <3>1, AddExact DEF Checked
    <3>2. CASE ~(sum <= MaxSize)
      BY <1>0, <2>1, <3>2, AddOverflow DEF Checked
    <3> QED BY <3>1, <3>2
  <2> QED BY <2>1, <2>2 DEF sum
<1> QED BY <1>0, <1>2, <1>3, <1>4, <1>6, <1>8 DEF Fits, Checked, Overflow


-----------------------------------------------------------------------------
(* The least and the greatest element of a finite set of integers.         *)

LEMMA LeastOf ==
  ASSUME NEW S \in SUBSET Int, IsFiniteSet(S), S # {}
  PROVE  \E x \in S : \A y \in S : x <= y
<1> DEFINE below(x) == {y \in S : y < x}
           T == {below(x) : x \in S}
<1>1. T \subseteq FiniteSubsetsOf(S) /\ T # {}
  <2>1. \A x \in S : below(x) \in SUBSET S /\ IsFiniteSet(below(x))
    BY FS_Subset
  <2> QED BY <2>1 DEF FiniteSubsetsOf
<1>2. PICK s \in T : \A t \in T : <<t, s>> \notin StrictSubsetOrdering(S)
  BY <1>1, FS_StrictSubsetOrderingWellFounded, WFMin
<1>3. PICK x \in S : s = below(x)
  OBVIOUS
<1>4. ASSUME NEW y \in S, y < x PROVE FALSE
  <2>1. \A z \in S : z < y => z < x
    BY <1>4
  <2>2. below(y) \subseteq below(x)
    BY <2>1
  <2>3. y \in below(x) /\ y \notin below(y)
    BY <1>4
  <2>4. <<below(y), below(x)>> \in StrictSubsetOrdering(S)
    BY <2>2, <2>3 DEF StrictSubsetOrdering
  <2> QED BY <1>2, <1>3, <2>4
<1> QED BY <1>4

LEMMA MinIsLeast ==
  ASSUME NEW S \in SUBSET Int, IsFiniteSet(S), S # {}
  PROVE  Min(S) \in S /\ \A y \in S : Min(S) <= y
BY LeastOf DEF Min

LEMMA MaxIsGreatest ==
  ASSUME NEW S \in SUBSET Int, IsFiniteSet(S), S # {}
  PROVE  Max(S) \in S /\ \A y \in S : y <= Max(S)
<1> DEFINE T == {-x : x \in S}
<1>1. IsFiniteSet(T)
  <2> DEFINE f == [x \in S |-> -x]
  <2>1. f \in Surjection(S, T)
    BY DEF Surjection
  <2> QED BY <2>1, FS_Surjection
<1>2. PICK t \in T : \A u \in T : t <= u
  BY <1>1, LeastOf
<1>3. -t \in S /\ \A y \in S : y <= -t
  BY <1>2
<1> QED BY <1>3 DEF Max

-----------------------------------------------------------------------------
(* What observe answers.                                                   *)

(* The edges of the displays, for an edge that is a coordinate of each.    *)
LEMMA EdgesFinite ==
  ASSUME NEW layout, IsFiniteSet(layout.displays), layout.displays # {},
         \A d \in layout.displays : d.x \in Int /\ d.y \in Int /\ d.w \in Int /\ d.h \in Int
  PROVE  /\ \E d \in layout.displays : d.x = Min(Lefts(layout))
         /\ \E d \in layout.displays : d.y = Min(Tops(layout))
         /\ \E d \in layout.displays : Right(d) = Max(Rights(layout))
         /\ \E d \in layout.displays : Bottom(d) = Max(Bottoms(layout))
         /\ \A d \in layout.displays :
              /\ Min(Lefts(layout)) <= d.x /\ Min(Tops(layout)) <= d.y
              /\ Right(d) <= Max(Rights(layout)) /\ Bottom(d) <= Max(Bottoms(layout))
<1> DEFINE D == layout.displays
<1>1. \A f \in [D -> Int] : /\ {f[d] : d \in D} \in SUBSET Int
                            /\ IsFiniteSet({f[d] : d \in D}) /\ {f[d] : d \in D} # {}
  <2> SUFFICES ASSUME NEW f \in [D -> Int] PROVE IsFiniteSet({f[d] : d \in D})
    OBVIOUS
  <2>1. f \in Surjection(D, {f[d] : d \in D})
    BY DEF Surjection
  <2> QED BY <2>1, FS_Surjection
<1>2. /\ [d \in D |-> d.x] \in [D -> Int] /\ [d \in D |-> d.y] \in [D -> Int]
      /\ [d \in D |-> d.x + d.w] \in [D -> Int] /\ [d \in D |-> d.y + d.h] \in [D -> Int]
  OBVIOUS
<1>3. Lefts(layout) \in SUBSET Int /\ IsFiniteSet(Lefts(layout)) /\ Lefts(layout) # {}
  <2>1. Lefts(layout) = {[d \in D |-> d.x][e] : e \in D}
    BY DEF Lefts
  <2> QED BY <1>1, <1>2, <2>1
<1>4. Tops(layout) \in SUBSET Int /\ IsFiniteSet(Tops(layout)) /\ Tops(layout) # {}
  <2>1. Tops(layout) = {[d \in D |-> d.y][e] : e \in D}
    BY DEF Tops
  <2> QED BY <1>1, <1>2, <2>1
<1>5. Rights(layout) \in SUBSET Int /\ IsFiniteSet(Rights(layout)) /\ Rights(layout) # {}
  <2>1. Rights(layout) = {[d \in D |-> d.x + d.w][e] : e \in D}
    BY DEF Rights, Right
  <2> QED BY <1>1, <1>2, <2>1
<1>6. Bottoms(layout) \in SUBSET Int /\ IsFiniteSet(Bottoms(layout)) /\ Bottoms(layout) # {}
  <2>1. Bottoms(layout) = {[d \in D |-> d.y + d.h][e] : e \in D}
    BY DEF Bottoms, Bottom
  <2> QED BY <1>1, <1>2, <2>1
<1>7. /\ Min(Lefts(layout)) \in Lefts(layout)
      /\ \A y \in Lefts(layout) : Min(Lefts(layout)) <= y
  BY <1>3, MinIsLeast
<1>8. Min(Tops(layout)) \in Tops(layout) /\ \A y \in Tops(layout) : Min(Tops(layout)) <= y
  BY <1>4, MinIsLeast
<1>9. /\ Max(Rights(layout)) \in Rights(layout)
      /\ \A y \in Rights(layout) : y <= Max(Rights(layout))
  BY <1>5, MaxIsGreatest
<1>10. /\ Max(Bottoms(layout)) \in Bottoms(layout)
       /\ \A y \in Bottoms(layout) : y <= Max(Bottoms(layout))
  BY <1>6, MaxIsGreatest
<1> QED BY <1>7, <1>8, <1>9, <1>10 DEF Lefts, Tops, Rights, Bottoms


LEMMA CoordinatesAreIntegers ==
  ASSUME NEW p
  PROVE  \A v \in Coordinates(p) : v \in Int
<1>1. \A v \in Int64 : v \in Int
  BY CaptureAssumption DEF Int64
<1> QED BY <1>1 DEF Coordinates

(* A region of the screen, its pixels, and its bounds.                     *)
LEMMA OnScreenIsInside ==
  ASSUME NEW p \in {"rust", "python"}, NEW layout, LayoutTyped(p, layout),
         PositiveBounds(layout), layout.bounds = Hull(layout),
         NEW r, RectTyped(p, r), r.w > 0, r.h > 0
  PROVE  OnScreen(layout, r) <=> Inside(r, layout.bounds)
<1> DEFINE D == layout.displays
           minX == Min(Lefts(layout))
           minY == Min(Tops(layout))
           maxX == Max(Rights(layout))
           maxY == Max(Bottoms(layout))
<1>1. \A d \in D : d.x \in Int /\ d.y \in Int /\ d.w \in Int /\ d.h \in Int
  BY CoordinatesAreIntegers DEF LayoutTyped, RectTyped
<1>2. r.x \in Int /\ r.y \in Int /\ r.w \in Int /\ r.h \in Int
  BY CoordinatesAreIntegers DEF RectTyped
<1>3. IsFiniteSet(D) /\ D # {}
  BY DEF LayoutTyped, PositiveBounds
<1>4. /\ \E d \in D : d.x = minX
      /\ \E d \in D : d.y = minY
      /\ \E d \in D : Right(d) = maxX
      /\ \E d \in D : Bottom(d) = maxY
      /\ \A d \in D : minX <= d.x /\ minY <= d.y /\ Right(d) <= maxX /\ Bottom(d) <= maxY
  BY <1>1, <1>3, EdgesFinite
<1> HIDE DEF minX, minY, maxX, maxY, D
<1>5. minX \in Int /\ minY \in Int /\ maxX \in Int /\ maxY \in Int
  BY <1>1, <1>4 DEF Right, Bottom
<1>6. Inside(r, layout.bounds)
        <=> minX <= r.x /\ minY <= r.y /\ Right(r) <= maxX /\ Bottom(r) <= maxY
  <2>1. /\ layout.bounds.x = minX /\ layout.bounds.y = minY
        /\ layout.bounds.w = maxX - minX /\ layout.bounds.h = maxY - minY
    BY DEF Hull, minX, minY, maxX, maxY
  <2> QED BY <1>2, <1>5, <2>1 DEF Inside, Right, Bottom
<1>7. ASSUME Inside(r, layout.bounds), NEW x \in r.x .. Right(r) - 1, NEW y \in r.y .. Bottom(r) - 1
      PROVE  /\ \E d \in D : d.x <= x
             /\ \E d \in D : x < Right(d)
             /\ \E d \in D : d.y <= y
             /\ \E d \in D : y < Bottom(d)
  <2>1. minX <= x /\ minY <= y /\ x < maxX /\ y < maxY
    BY <1>2, <1>5, <1>6, <1>7 DEF Right, Bottom
  <2> QED BY <1>4, <2>1
<1>8. ASSUME OnScreen(layout, r) PROVE Inside(r, layout.bounds)
  <2>1. /\ r.x \in r.x .. Right(r) - 1 /\ r.y \in r.y .. Bottom(r) - 1
        /\ Right(r) - 1 \in r.x .. Right(r) - 1 /\ Bottom(r) - 1 \in r.y .. Bottom(r) - 1
    BY <1>2 DEF Right, Bottom
  <2>2. PICK d \in D : d.x <= r.x
    BY <1>8, <2>1 DEF OnScreen, D
  <2>3. PICK e \in D : e.y <= r.y
    BY <1>8, <2>1 DEF OnScreen, D
  <2>4. PICK f \in D : Right(r) - 1 < Right(f)
    BY <1>8, <2>1 DEF OnScreen, D
  <2>5. PICK g \in D : Bottom(r) - 1 < Bottom(g)
    BY <1>8, <2>1 DEF OnScreen, D
  <2>6. minX <= r.x /\ minY <= r.y
    BY <1>1, <1>2, <1>4, <1>5, <2>2, <2>3
  <2>7. Right(r) <= Right(f) /\ Bottom(r) <= Bottom(g)
    BY <1>1, <1>2, <2>4, <2>5 DEF Right, Bottom
  <2>8. Right(r) <= maxX /\ Bottom(r) <= maxY
    BY <1>1, <1>2, <1>4, <1>5, <2>7 DEF Right, Bottom
  <2> QED BY <1>6, <2>6, <2>8
<1> QED BY <1>7, <1>8 DEF OnScreen, D

(* The sums that saturate or do not fit refuse nothing that lies on a      *)
(* screen whose own edges fit.                                             *)
LEMMA RustRegionExact ==
  ASSUME NEW layout, LayoutTyped("rust", layout), PositiveBounds(layout),
         layout.bounds = Hull(layout), LayoutFits(layout),
         NEW r, RectTyped("rust", r), r.w > 0, r.h > 0
  PROVE  /\ ContainsRegion(layout, r) <=> Inside(r, layout.bounds)
         /\ Inside(r, layout.bounds) => RoughlyInside("rust", r, layout.bounds)
<1> DEFINE b == layout.bounds
           high == MaxInt
           low == -MaxInt - 1
<1>1. MaxInt \in Nat
  BY CaptureAssumption
<1>2. /\ r.x \in low .. high /\ r.y \in low .. high /\ r.w \in low .. high /\ r.h \in low .. high
      /\ b.x \in low .. high /\ b.y \in low .. high /\ b.w \in low .. high /\ b.h \in low .. high
  BY DEF RectTyped, LayoutTyped, Coordinates, Int64
<1>3. \A d \in layout.displays : d.x \in Int /\ d.y \in Int /\ d.w \in Int /\ d.h \in Int
  BY <1>1 DEF LayoutTyped, RectTyped, Coordinates, Int64
<1>4. /\ \E d \in layout.displays : Right(d) = Max(Rights(layout))
      /\ \E d \in layout.displays : Bottom(d) = Max(Bottoms(layout))
  BY <1>3, EdgesFinite DEF LayoutTyped, PositiveBounds
<1>5. Max(Rights(layout)) \in low .. high /\ Max(Bottoms(layout)) \in low .. high
  BY <1>4 DEF LayoutFits, FitsInt, Int64
<1>6. b.w = Max(Rights(layout)) - b.x /\ b.h = Max(Bottoms(layout)) - b.y
  BY DEF Hull
<1>7. Right(b) \in low .. high /\ Bottom(b) \in low .. high
  BY <1>1, <1>2, <1>5, <1>6 DEF Right, Bottom
<1>8. ASSUME Inside(r, b)
      PROVE  Right(r) \in low .. high /\ Bottom(r) \in low .. high
  BY <1>1, <1>2, <1>7, <1>8 DEF Inside, Right, Bottom
<1>9. \A n \in low .. high : Saturating(n) = n
  BY <1>1 DEF Saturating
<1> QED BY <1>7, <1>8, <1>9 DEF ContainsRegion, FitsInt, Int64, RoughlyInside, Inside


(* What CaptureExact asks of an answer.                                    *)
Total(p, r, delivery) ==
  IF p = "rust" THEN ExactRust(r.w, r.h, delivery) ELSE PythonTotal(r.w, r.h, delivery)
Capturable(p, layout, r, delivery) ==
  /\ PositiveBounds(layout) /\ layout.bounds = Hull(layout)
  /\ OnScreen(layout, r)
  /\ Total(p, r, delivery) <= Limit

LEMMA PythonTotalTyped ==
  ASSUME NEW w \in Nat, NEW h \in Nat, NEW delivery \in Deliveries
  PROVE  PythonTotal(w, h, delivery) \in Nat
<1>0. Metadata \in Nat /\ PathBytes \in Nat /\ HeadBytes \in Nat /\ HeadDiv \in Nat \ {0}
  BY CaptureAssumption
<1> DEFINE lines == h * (1 + w * 3)
           png == IF delivery = "metadata" THEN 0 ELSE lines + lines \div HeadDiv + HeadBytes
           base64 == IF delivery = "base64" THEN ((png + 2) \div 3) * 4 ELSE 0
           path == IF delivery = "path" THEN PathBytes ELSE 0
<1>1. lines \in Nat
  OBVIOUS
<1> HIDE DEF lines
<1>2. lines \div HeadDiv \in Nat
  BY <1>0, <1>1
<1>3. png \in Nat
  BY <1>0, <1>1, <1>2
<1> HIDE DEF png
<1>4. base64 \in Nat
  BY <1>3
<1>5. path \in Nat
  BY <1>0
<1> HIDE DEF base64, path
<1>6. w * h * 4 \in Nat /\ w * h * 3 \in Nat
  OBVIOUS
<1>7. PythonTotal(w, h, delivery)
        = w * h * 4 + w * h * 3 + png + png * 2 + base64 + Metadata + base64 + path
  BY DEF PythonTotal, PythonPng, lines, png, base64, path
<1> QED BY <1>0, <1>3, <1>4, <1>5, <1>6, <1>7

LEMMA FitsExact ==
  ASSUME NEW p \in {"rust", "python"}, NEW r, r.w \in Nat \ {0}, r.h \in Nat \ {0},
         NEW delivery \in Deliveries
  PROVE  Fits(p, r.w, r.h, delivery) <=> Total(p, r, delivery) <= Limit
<1>1. CASE p = "rust"
  <2>1. Fits("rust", r.w, r.h, delivery) <=> ExactRust(r.w, r.h, delivery) <= Limit
    BY BudgetExact
  <2> QED BY <1>1, <2>1 DEF Total
<1>2. CASE p = "python"
  <2>1. PythonTotal(r.w, r.h, delivery) \in Nat
    BY PythonTotalTyped
  <2>2. PythonTotal(r.w, r.h, delivery) # Overflow
    BY <2>1 DEF Overflow
  <2> QED BY <1>2, <2>2 DEF Fits, Total
<1> QED BY <1>1, <1>2

LEMMA ObservationExact ==
  ASSUME NEW p \in {"rust", "python"}, NEW layout, LayoutTyped(p, layout),
         NEW r, RegionTyped(p, r) \/ r = layout.bounds, NEW delivery \in Deliveries
  PROVE  /\ Observation(p, layout, r, delivery) = "ok" => Capturable(p, layout, r, delivery)
         /\ Capturable(p, layout, r, delivery) /\ (p = "rust" => LayoutFits(layout))
              => Observation(p, layout, r, delivery) = "ok"
<1>1. RectTyped(p, r)
  BY DEF RegionTyped, LayoutTyped
<1>2. r.w \in Int /\ r.h \in Int
  BY <1>1, CoordinatesAreIntegers DEF RectTyped
<1>3. CASE ~(PositiveBounds(layout) /\ layout.bounds = Hull(layout))
  BY <1>3 DEF Capturable, Observation, RustObservation, PythonObservation, ValidLayout
<1>4. CASE PositiveBounds(layout) /\ layout.bounds = Hull(layout)
  <2>1. r.w > 0 /\ r.h > 0
    BY <1>4 DEF RegionTyped, PositiveBounds
  <2>2. Fits(p, r.w, r.h, delivery) <=> Total(p, r, delivery) <= Limit
    BY <1>2, <2>1, FitsExact
  <2>3. OnScreen(layout, r) <=> Inside(r, layout.bounds)
    BY <1>1, <1>4, <2>1, OnScreenIsInside
  <2>4. CASE p = "rust"
    <3>1. CASE LayoutFits(layout)
      <4>1. /\ ContainsRegion(layout, r) <=> Inside(r, layout.bounds)
            /\ Inside(r, layout.bounds) => RoughlyInside("rust", r, layout.bounds)
        BY <1>1, <1>4, <2>1, <2>4, <3>1, RustRegionExact
      <4>2. layout.bounds.w \in Int /\ layout.bounds.h \in Int
        BY CoordinatesAreIntegers DEF LayoutTyped, RectTyped
      <4>3. ~(layout.bounds.w <= 0) /\ ~(layout.bounds.h <= 0)
        BY <1>4, <4>2 DEF PositiveBounds
      <4> QED BY <1>4, <2>2, <2>3, <2>4, <3>1, <4>1, <4>3
           DEF Capturable, Observation, RustObservation, ValidLayout
    <3>2. CASE ~LayoutFits(layout)
      BY <2>4, <3>2 DEF Observation, RustObservation, ValidLayout
    <3> QED BY <3>1, <3>2
  <2>5. CASE p = "python"
    BY <1>4, <2>2, <2>3, <2>5
       DEF Capturable, Observation, PythonObservation, ValidLayout, RoughlyInside
  <2> QED BY <2>4, <2>5
<1> QED BY <1>3, <1>4


(* The request stays what it was, an observation runs no child of the      *)
(* command's own, and one that was admitted is answered as observe says.   *)
ObserveInv ==
  /\ \E kind \in DOMAIN Requests : request \in Requests[kind]
  /\ mpc \in Looks \cup {"list", "activate", "open", "again", "waiting"} => op # "observe"
  /\ mpc = "answered" /\ plan # <<>> /\ op = "observe" /\ ~dry /\ Preflight(port, plan) = "ok"
       => answer = Observation(port, request.layout, Region, Delivery)

LEMMA KeepsObserve ==
  ASSUME ObserveInv, UNCHANGED <<request, plan, dry, mpc, answer>>
  PROVE  ObserveInv'
BY DEF ObserveInv, op, port, Region, Delivery

LEMMA NextKeepsObserve == FocusInv /\ ObserveInv /\ [Next]_vars => ObserveInv'
<1> SUFFICES ASSUME FocusInv, ObserveInv, [Next]_vars PROVE ObserveInv'
  OBVIOUS
<1>1. ASSUME Prepare PROVE ObserveInv'
  <2>1. CASE ParseWords
    BY <2>1 DEF ParseWords, ObserveInv, FocusInv, Goes, Answers, op
  <2>2. CASE ApplyPolicy
    <3>1. UNCHANGED call
      BY <2>2 DEF ApplyPolicy
    <3>2. CASE Preflight(port, plan) = "ok"
      BY <2>2, <3>1, <3>2 DEF ApplyPolicy, Judge, Goes, ObserveInv, call
    <3>3. CASE Preflight(port, plan) # "ok"
      BY <2>2, <3>1, <3>3 DEF ApplyPolicy, Judge, Answers, ObserveInv, call, port, op
    <3> QED BY <3>2, <3>3
  <2>3. CASE AnswerAtOnce
    <3>1. op # "observe" /\ UNCHANGED call /\ mpc' = "answered"
      BY <2>3 DEF AnswerAtOnce, Answers, Inputs, Pointer, KeyOps, Typing, Chords
    <3> QED BY <3>1 DEF ObserveInv, call, op
  <2>4. CASE Observe
    <3>1. UNCHANGED call /\ mpc' = "answered"
      BY <2>4 DEF Observe, Answers
    <3>2. ~dry => answer' = Observation(port, request.layout, Region, Delivery)
      BY <2>4 DEF Observe, Answers
    <3> QED BY <3>1, <3>2 DEF ObserveInv, call, port, op, Region, Delivery
  <2>5. CASE Dispatch
    <3>1. op # "observe" /\ UNCHANGED call /\ mpc' # "answered"
      BY <2>5 DEF Dispatch, Starts, Goes
    <3> QED BY <3>1 DEF ObserveInv, call, op
  <2> QED BY <1>1, <2>1, <2>2, <2>3, <2>4, <2>5 DEF Prepare
<1>2. ASSUME GoOn PROVE ObserveInv'
  <2>1. /\ mpc \in Looks \cup {"list", "activate", "open", "again", "waiting"}
        /\ UNCHANGED call
    BY <1>2 DEF GoOn, ListEnds, ScriptSaysNothing, ActiveWindow, FocusShown, Activate,
       ActivationEnds, LookAgain, NotYet, GiveUp, LookedAt, LookFailed, Read
  <2> QED BY <2>1 DEF ObserveInv, call, op
<1>3. ASSUME ChildGoesOn \/ (Hang /\ Others) \/ RunnerGoesOn \/ (TimeIsUp /\ Others)
             \/ FiveSeconds \/ UNCHANGED vars
      PROVE  ObserveInv'
  <2>1. UNCHANGED <<request, plan, dry, mpc, answer>>
    BY <1>3 DEF ChildGoesOn, See, Work, RunnerGoesOn, Others, FiveSeconds, vars, call
  <2> QED BY <2>1, KeepsObserve
<1> QED BY <1>1, <1>2, <1>3 DEF Next

(* An observation is stored when, and only when, its region lies on the    *)
(* screen that the displays make up and its worst case, computed without   *)
(* overflow, is within the limit: for displays, regions, limits and        *)
(* machine words of every size (frames.rs:268, controller.rs observe).     *)
THEOREM CaptureIsExact == Spec => []CaptureExact
<1>1. Init => FocusAll /\ ObserveInv
  BY InitReadInv, InitFocus DEF FocusAll, Init, ObserveInv
<1>2. FocusAll /\ ObserveInv /\ [Next]_vars => FocusAll' /\ ObserveInv'
  BY NextKeepsFocus, NextKeepsObserve DEF FocusAll
<1>3. FocusAll /\ ObserveInv => CaptureExact
  <2> SUFFICES ASSUME ObserveInv, mpc = "answered", plan # <<>>, op = "observe", ~dry,
                      Preflight(port, plan) = "ok"
               PROVE  LET right == Capturable(port, request.layout, Region, Delivery)
                      IN  /\ answer = "ok" => right
                          /\ right /\ (port = "rust" => LayoutFits(request.layout))
                               => answer \in {"ok", "unsupported"}
    BY DEF CaptureExact, Capturable, Total
  <2>1. /\ port \in {"rust", "python"} /\ LayoutTyped(port, request.layout)
        /\ RegionTyped(port, Region) \/ Region = request.layout.bounds
    BY CommandAssumption DEF ObserveInv, port, Region
  <2>2. Delivery \in Deliveries
    BY DEF Delivery, Deliveries
  <2>3. answer = Observation(port, request.layout, Region, Delivery)
    BY DEF ObserveInv
  <2> QED BY <2>1, <2>2, <2>3, ObservationExact
<1> QED BY <1>1, <1>2, <1>3, PTL DEF Spec


-----------------------------------------------------------------------------
(* The types of a command's state: what the policy and the command line    *)
(* may answer.                                                             *)

(* The first refusal there is, or "ok".                                    *)
LEMMA FirstIssueAmong ==
  ASSUME NEW n \in Nat, NEW checks, DOMAIN checks = 1 .. n, NEW C,
         \A i \in 1 .. n : checks[i][2] \in C
  PROVE  FirstIssue(checks) \in C \cup {"ok"}
<1> DEFINE hits == {i \in DOMAIN checks : checks[i][1]}
<1>1. CASE hits = {}
  BY <1>1 DEF FirstIssue
<1>2. CASE hits # {}
  <2>1. hits \in SUBSET (1 .. n) /\ IsFiniteSet(1 .. n) /\ hits \in SUBSET Int
    BY FS_Interval
  <2>2. Min(hits) \in hits
    BY <1>2, <2>1, FS_Subset, MinIsLeast
  <2>3. Min(hits) \in 1 .. n
    BY <2>1, <2>2
  <2> QED BY <1>2, <2>3 DEF FirstIssue
<1> QED BY <1>1, <1>2

LEMMA KeyIssueAmong == \A o, words : KeyIssue(o, words) \in Codes \cup {"ok"}
<1> TAKE o, words
<1> DEFINE parts == KeyParts(words)
           regular == Regular(parts)
           checks == <<
        <<parts = <<>>,                                          "bad_arg">>,
        <<\E p \in Range(regular) : p \notin KeyNames,           "bad_arg">>,
        <<parts \in BlockedChords,                               "blocked">>,
        <<Len(regular) # 1,                                      "bad_arg">>,
        <<o = "press" /\ Len(parts) # 1,                         "bad_arg">> >>
<1>1. KeyIssue(o, words) = FirstIssue(checks)
  BY DEF KeyIssue
<1>2. \A a, b, c, d, e : \A i \in 1 .. 5 :
        <<<<a, "bad_arg">>, <<b, "bad_arg">>, <<c, "blocked">>, <<d, "bad_arg">>,
          <<e, "bad_arg">>>>[i][2] \in Codes
  BY DEF Codes
<1>3. DOMAIN checks = 1 .. 5 /\ \A i \in 1 .. 5 : checks[i][2] \in Codes
  BY <1>2
<1> HIDE DEF checks
<1> QED BY <1>1, <1>3, FirstIssueAmong

LEMMA ConfirmationAmong == \A p, e : Confirmation(p, e) \in Codes \cup {"ok"}
<1> TAKE p, e
<1> DEFINE unclassified == <<e.risk \notin Classes, "bad_arg">>
           mistyped     == <<e.confirm \in {"odd", "null"}, "bad_arg">>
           unconfirmed  == <<Consequential(e) /\ e.confirm # "true", "needs_attention">>
           checks == IF p = "rust" THEN <<unclassified, mistyped, unconfirmed>>
                     ELSE <<unclassified, unconfirmed, mistyped>>
<1>1. Confirmation(p, e) = FirstIssue(checks)
  BY DEF Confirmation
<1>2. unclassified[2] \in Codes /\ mistyped[2] \in Codes /\ unconfirmed[2] \in Codes
  BY DEF Codes
<1> HIDE DEF unclassified, mistyped, unconfirmed
<1>3. DOMAIN checks = 1 .. 3 /\ \A i \in 1 .. 3 : checks[i][2] \in Codes
  BY <1>2
<1> HIDE DEF checks
<1> QED BY <1>1, <1>3, FirstIssueAmong

LEMMA OwnIssueAmong == \A p, tree, n : OwnIssue(p, tree, n) \in Codes \cup {"ok"}
<1> TAKE p, tree, n
<1> DEFINE e == [tree[n] EXCEPT !.risk    = Effective(p, tree, "risk")[n],
                                !.confirm = Effective(p, tree, "confirm")[n],
                                !.app     = Effective(p, tree, "app")[n]]
           badDeadline == e.deadline = "odd" \/ (e.deadline = "null" /\ p = "rust")
           key == KeyIssue(e.op, e.keys)
           unconfirmed == Confirmation(p, e)
           checks == <<
        <<e.op \notin Commands,                                  "bad_arg">>,
        <<n > 1 /\ e.op = "stop",                                "bad_arg">>,
        <<n > 1 /\ e.op = "observe" /\ ~e.meta,                  "bad_arg">>,
        <<e.args = "bad",                                        "bad_arg">>,
        <<e.op = "observe" /\ e.meta /\ e.path,                  "bad_arg">>,
        <<e.op \in FocusOps /\ ~Named(e.app),                   "bad_arg">>,
        <<e.op \in Typing /\ e.text = "challenge",               "needs_attention">>,
        <<e.op \in Chords /\ key # "ok",                         key>>,
        <<e.op = "batch" /\ badDeadline,                         "bad_arg">>,
        <<e.op = "batch" /\ e.app = "blank",                     "bad_arg">>,
        <<e.op = "batch" /\ Kids(tree, n) = {},                  "bad_arg">>,
        <<ActionCount(tree)[n] > MaxActions,                     "bad_arg">>,
        <<e.op \in KeyOps /\ ~Named(e.app),                     "focus_required">>,
        <<e.op \in Typing \cup {"move"} /\ e.timing = "odd",     "bad_arg">>,
        <<e.op \in Inputs /\ unconfirmed # "ok",                 unconfirmed>> >>
<1>1. OwnIssue(p, tree, n) = FirstIssue(checks)
  BY DEF OwnIssue
<1>2. key \in Codes \cup {"ok"} /\ unconfirmed \in Codes \cup {"ok"}
  BY KeyIssueAmong, ConfirmationAmong
<1>3. {"bad_arg", "needs_attention", "focus_required"} \subseteq Codes
  BY DEF Codes
<1> HIDE DEF key, unconfirmed
<1>4. \A c1, c2, c3, c4, c5, c6, c7, c8, c9, c10, c11, c12, c13, c14, c15 : \A i \in 1 .. 15 :
        << <<c1, "bad_arg">>, <<c2, "bad_arg">>, <<c3, "bad_arg">>, <<c4, "bad_arg">>,
           <<c5, "bad_arg">>, <<c6, "bad_arg">>, <<c7, "needs_attention">>, <<c8, key>>,
           <<c9, "bad_arg">>, <<c10, "bad_arg">>, <<c11, "bad_arg">>, <<c12, "bad_arg">>,
           <<c13, "focus_required">>, <<c14, "bad_arg">>,
           <<c15, unconfirmed>> >>[i][2] \in Codes \cup {"ok"}
  BY <1>2, <1>3
<1>5. DOMAIN checks = 1 .. 15 /\ \A i \in 1 .. 15 : checks[i][2] \in Codes \cup {"ok"}
  BY <1>4
<1> HIDE DEF checks
<1>6. FirstIssue(checks) \in (Codes \cup {"ok"}) \cup {"ok"}
  BY <1>5, FirstIssueAmong
<1> QED BY <1>1, <1>6


LEMMA PreflightAmong ==
  ASSUME NEW p, NEW tree, IsTree(tree)
  PROVE  Preflight(p, tree) \in Codes \cup {"ok"}
<1> DEFINE faulty == {n \in DOMAIN tree : OwnIssue(p, tree, n) # "ok"}
<1>1. CASE faulty = {}
  BY <1>1 DEF Preflight
<1>2. CASE faulty # {}
  <2>1. /\ DOMAIN tree = 1 .. Len(tree) /\ IsFiniteSet(1 .. Len(tree))
        /\ faulty \in SUBSET (1 .. Len(tree)) /\ faulty \in SUBSET Int
    BY FS_Interval DEF IsTree, IsSequence
  <2>2. Min(faulty) \in faulty
    BY <1>2, <2>1, FS_Subset, MinIsLeast
  <2>3. Preflight(p, tree) = OwnIssue(p, tree, Min(faulty))
    BY <1>2, <2>2 DEF Preflight
  <2> QED BY <2>3, OwnIssueAmong
<1> QED BY <1>1, <1>2

(* What the words make of themselves: a request, or nothing to run.        *)
LEMMA ParseMakes ==
  ASSUME NEW args
  PROVE  \E asked : /\ asked = Parse(args)
                    /\ asked.execute \in BOOLEAN
                    /\ OneShot(asked) \in {"ok", "bad_arg", "unsupported", "run"}
                    /\ OneShot(asked) = "run" => IsTree(asked.plan)
<1> DEFINE asked == Parse(args)
           exec == Flags(args) = {"--execute"}
           words == Normalized(args)
<1>1. \/ asked = Said("error") \/ asked = Said("help")
      \/ asked = Asked(exec, BatchSpec)
      \/ \E node : /\ asked = Asked(exec, <<node>>) /\ node.up = 0
                   /\ DOMAIN node = DOMAIN Leaf(node.op) /\ IsSequence(node.keys)
  <2>1. \A o, params : /\ NodeOf(o, params).up = 0
                       /\ DOMAIN NodeOf(o, params) = DOMAIN Leaf(NodeOf(o, params).op)
                       /\ IsSequence(NodeOf(o, params).keys)
    <3> TAKE o, params
    <3>1. Leaf(o).up = 0 /\ \A q : DOMAIN Leaf(o) = DOMAIN Leaf(q) /\ "keys" \in DOMAIN Leaf(q)
      BY DEF Leaf
    <3>2. IsSequence(<<>>) /\ \A w : IsSequence(ChordOf(w))
      <4>1. /\ IsSequence(<<>>) /\ IsSequence(<<"cmd", "shift", "q">>)
            /\ \A w : IsSequence(<<w>>)
        BY DEF IsSequence
      <4> QED BY <4>1 DEF ChordOf
    <3> QED BY <3>1, <3>2 DEF NodeOf
  <2>2. \/ asked = Said("error") \/ asked = Said("help")
        \/ asked = ParseCommand(exec, words)
    BY DEF Parse
  <2>3. \/ ParseCommand(exec, words) = Said("error")
        \/ ParseCommand(exec, words) = Asked(exec, BatchSpec)
        \/ \E o, params : ParseCommand(exec, words) = Asked(exec, <<NodeOf(o, params)>>)
    BY DEF ParseCommand
  <2> QED BY <2>1, <2>2, <2>3
<1>2. \A node : node.up = 0 /\ DOMAIN node = DOMAIN Leaf(node.op) /\ IsSequence(node.keys)
                  => IsTree(<<node>>)
  <2> TAKE node
  <2>1. IsSequence(<<node>>)
    BY DEF IsSequence
  <2> QED BY <2>1 DEF IsTree
<1>3. asked.execute \in BOOLEAN
  <2>1. exec \in BOOLEAN /\ FALSE \in BOOLEAN
    OBVIOUS
  <2> HIDE DEF exec
  <2>2. \A tree : Asked(exec, tree).execute = exec
    BY DEF Asked
  <2>3. \A kind : Said(kind).execute = FALSE
    BY DEF Said
  <2> HIDE DEF asked
  <2> QED BY <1>1, <2>1, <2>2, <2>3
<1>4. OneShot(asked) \in {"ok", "bad_arg", "unsupported", "run"}
  BY <1>1 DEF OneShot, Said, Asked, Pointer
<1>5. OneShot(asked) = "run" => IsTree(asked.plan)
  BY <1>1, <1>2, BatchSpecAssumption DEF OneShot, Said, Asked, Pointer
<1> QED BY <1>3, <1>4, <1>5

LEMMA ObservationAmong ==
  \A p, layout, r, delivery :
    Observation(p, layout, r, delivery) \in {"ok", "bad_arg", "exec_failed"}
BY DEF Observation, RustObservation, PythonObservation


(* The request is one there is, and its plan is a tree.                    *)
RequestInv ==
  /\ \E kind \in DOMAIN Requests : request \in Requests[kind]
  /\ IsTree(plan)

LEMMA TypeInit == Init => TypeOK /\ RequestInv
<1> SUFFICES ASSUME Init PROVE TypeOK /\ RequestInv
  OBVIOUS
<1>1. ReadTypeOK
  BY InitReadInv DEF ReadInv
<1>2. RequestInv /\ dry \in BOOLEAN
  BY CommandAssumption DEF Init, RequestInv
<1> QED BY <1>1, <1>2 DEF Init, TypeOK, Unseen, Points

LEMMA TypeNext == FocusAll /\ TypeOK /\ RequestInv /\ [Next]_vars => TypeOK' /\ RequestInv'
<1> SUFFICES ASSUME FocusAll, TypeOK, RequestInv, [Next]_vars PROVE TypeOK' /\ RequestInv'
  OBVIOUS
<1> DEFINE Answered == Codes \cup {"none", "ok", "handed", "unsupported", "exec_failed",
                                   "focus_failed"}
<1>0. ReadTypeOK' /\ FocusInv'
  BY NextKeepsReadInv, NextKeepsFocus DEF FocusAll, ReadInv
<1>1. /\ mpc \in Points /\ answer \in Answered /\ dry \in BOOLEAN
      /\ first \in {"none", "other", "empty", "failed"}
      /\ activated \in BOOLEAN /\ over \in BOOLEAN
      /\ sample.app \in {"none", "wanted", "other"} /\ sample.after \in BOOLEAN
  BY DEF TypeOK
<1>2. ASSUME Prepare
      PROVE  /\ mpc' \in Points /\ answer' \in Answered
             /\ dry' \in BOOLEAN /\ RequestInv' /\ UNCHANGED <<focus, sample>>
  <2>1. CASE ParseWords
    <3>1. PICK asked : /\ asked.execute \in BOOLEAN
                       /\ OneShot(asked) \in {"ok", "bad_arg", "unsupported", "run"}
                       /\ OneShot(asked) = "run" => IsTree(asked.plan)
                       /\ IF OneShot(asked) = "run"
                          THEN plan' = asked.plan /\ dry' = ~asked.execute /\ Goes("policy")
                          ELSE Answers(OneShot(asked)) /\ UNCHANGED <<plan, dry>>
      BY <2>1, ParseMakes DEF ParseWords
    <3>2. UNCHANGED <<request, focus, sample>>
      BY <2>1 DEF ParseWords
    <3> QED BY <1>1, <3>1, <3>2 DEF RequestInv, Goes, Answers, Points, Codes
  <2>2. CASE ApplyPolicy
    <3>1. Preflight(port, plan) \in Codes \cup {"ok"}
      BY PreflightAmong DEF RequestInv
    <3> QED BY <1>1, <2>2, <3>1 DEF ApplyPolicy, Judge, Goes, Answers, RequestInv, call, Points
  <2>3. CASE AnswerAtOnce
    BY <1>1, <2>3 DEF AnswerAtOnce, Answers, RequestInv, call, Points
  <2>4. CASE Observe
    <3>1. answer' \in {"ok", "bad_arg", "exec_failed"} /\ mpc' = "answered"
      BY <2>4, ObservationAmong DEF Observe, Answers
    <3>2. UNCHANGED <<call, focus, sample>>
      BY <2>4 DEF Observe
    <3> QED BY <1>1, <3>1, <3>2 DEF RequestInv, call, Points, Codes
  <2>5. CASE Dispatch
    BY <1>1, <2>5 DEF Dispatch, Starts, Goes, RequestInv, call, Points
  <2> QED BY <1>2, <2>1, <2>2, <2>3, <2>4, <2>5 DEF Prepare
<1>3. ASSUME GoOn
      PROVE  /\ mpc' \in Points /\ answer' \in Answered /\ UNCHANGED call
             /\ first' \in {"none", "other", "empty", "failed"}
             /\ activated' \in BOOLEAN /\ UNCHANGED <<over, sample>>
  <2>1. UNCHANGED call /\ UNCHANGED <<over, sample>>
    BY <1>3 DEF GoOn, ListEnds, ScriptSaysNothing, ActiveWindow, FocusShown, Activate,
       ActivationEnds, LookAgain, NotYet, GiveUp, focus
  <2>2. CASE Activate
    <3>1. mpc' = "activate" /\ UNCHANGED answer /\ activated' = TRUE
      BY <2>2 DEF Activate, Starts, Goes
    <3>2. first' \in {"none", "other", "empty", "failed"}
      BY <2>2 DEF Activate, LookedAt, LookFailed, Read, FocusAll, FocusInv, ReadInv, Looks
    <3> QED BY <1>1, <2>1, <3>1, <3>2 DEF Points
  <2>3. CASE ~Activate
    <3>1. UNCHANGED <<first, activated>>
      BY <1>3, <2>3 DEF GoOn, ListEnds, ScriptSaysNothing, ActiveWindow, FocusShown,
         ActivationEnds, LookAgain, NotYet, GiveUp, focus
    <3>2. mpc' \in Points /\ answer' \in Answered
      BY <1>1, <1>3, <2>3 DEF GoOn, ListEnds, ScriptSaysNothing, ActiveWindow, FocusShown,
         ActivationEnds, LookAgain, NotYet, GiveUp, Goes, Answers, Starts, LookCodes, Points, Codes
    <3> QED BY <1>1, <2>1, <3>1, <3>2
  <2> QED BY <2>2, <2>3
<1>4. ASSUME ChildGoesOn \/ (Hang /\ Others) \/ RunnerGoesOn \/ (TimeIsUp /\ Others)
      PROVE  /\ UNCHANGED <<call, mpc, focus, answer>>
             /\ sample'.app \in {"none", "wanted", "other"} /\ sample'.after \in BOOLEAN
  BY <1>1, <1>4 DEF ChildGoesOn, See, Work, RunnerGoesOn, Others
<1>5. ASSUME FiveSeconds PROVE UNCHANGED <<call, mpc, first, activated, sample, answer>> /\ over'
  BY <1>5 DEF FiveSeconds
<1>6. ASSUME UNCHANGED vars PROVE UNCHANGED <<call, mpc, focus, sample, answer>>
  BY <1>6 DEF vars
<1> QED BY <1>0, <1>1, <1>2, <1>3, <1>4, <1>5, <1>6 DEF Next, TypeOK, RequestInv, call, focus

(* Every command is answered with one of the codes the two ports have, and *)
(* every verdict of the policy is one.                                     *)
THEOREM TypeCorrect == Spec => []TypeOK
<1>1. Init => FocusAll /\ TypeOK /\ RequestInv
  BY InitReadInv, InitFocus, TypeInit DEF FocusAll
<1>2. FocusAll /\ TypeOK /\ RequestInv /\ [Next]_vars => FocusAll' /\ TypeOK' /\ RequestInv'
  BY NextKeepsFocus, TypeNext
<1> QED BY <1>1, <1>2, PTL DEF Spec


-----------------------------------------------------------------------------
(* One run of the command line.                                            *)

(* The words before the separator, and the separator first of the rest.    *)
LEMMA BeforeAndBehind ==
  ASSUME NEW args \in Seq(STRING)
  PROVE  /\ Before(args) \in Seq(STRING) /\ Behind(args) \in Seq(STRING)
         /\ Behind(args) # <<>> => Behind(args)[1] = Separator
<1> DEFINE at == {i \in 1 .. Len(args) : args[i] = Separator}
<1>0. Len(args) \in Nat /\ DOMAIN args = 1 .. Len(args)
  OBVIOUS
<1>1. CASE Separator \in Range(args)
  <2>1. at # {} /\ at \in SUBSET (1 .. Len(args)) /\ at \in SUBSET Int
    BY <1>0, <1>1 DEF Range
  <2>2. Min(at) \in at
    <3>1. IsFiniteSet(1 .. Len(args))
      BY <1>0, FS_Interval
    <3>2. IsFiniteSet(at)
      BY <2>1, <3>1, FS_Subset
    <3> QED BY <2>1, <3>2, MinIsLeast
  <2>3. SelectInSeq(args, LAMBDA w : w = Separator) = Min(at)
    BY <2>1 DEF SelectInSeq
  <2>4. PICK k \in 1 .. Len(args) : args[k] = Separator /\ Before(args) = SubSeq(args, 1, k - 1)
    BY <1>1, <2>2, <2>3 DEF Before
  <2>5. /\ SubSeq(args, 1, k - 1) \in Seq(STRING) /\ Len(SubSeq(args, 1, k - 1)) = k - 1
    BY <1>0, SubSeqProperties
  <2>6. Behind(args) = SubSeq(args, k, Len(args))
    BY <2>4, <2>5 DEF Behind
  <2>7. SubSeq(args, k, Len(args)) \in Seq(STRING) /\ SubSeq(args, k, Len(args))[1] = args[k]
    BY <1>0, SubSeqProperties
  <2> QED BY <2>4, <2>5, <2>6, <2>7
<1>2. CASE Separator \notin Range(args)
  <2>1. Before(args) = args
    BY <1>2 DEF Before
  <2>2. Behind(args) = <<>>
    BY <1>0, <2>1, SubSeqEmpty DEF Behind
  <2> QED BY <2>1, <2>2
<1> QED BY <1>1, <1>2

(* The words of a command line, behind its command.                        *)
LEMMA NormalizedIs ==
  ASSUME NEW args \in Seq(STRING)
  PROVE  LET words == Unflagged(Before(args))
             behind == Behind(args)
         IN  /\ Len(words) \in Nat /\ DOMAIN words = 1 .. Len(words)
             /\ Normalized(args) # <<>> =>
                  LET tail == Tail(Normalized(args)) IN
                  /\ Len(tail) \in Nat /\ DOMAIN tail = 1 .. Len(tail)
                  /\ words # <<>> =>
                       /\ \A i \in 1 .. Len(tail) : i + 1 <= Len(words) => tail[i] = words[i + 1]
                       /\ Len(tail) >= Len(words) => tail[Len(words)] = Separator
                  /\ words = <<>> => Head(Normalized(args)) = Separator
<1> DEFINE before == Before(args)
           words == Unflagged(before)
           behind == Behind(args)
           kept == {i \in DOMAIN before : before[i] \notin {"--execute", "--dry-run"}}
           S == STRING \cup Range(words)
<1>1. /\ before \in Seq(STRING) /\ behind \in Seq(STRING)
      /\ behind # <<>> => behind[1] = Separator
  BY BeforeAndBehind
<1>2. IsFiniteSet(kept) /\ Cardinality(kept) \in Nat
  <2>1. kept \in SUBSET (1 .. Len(before)) /\ Len(before) \in Nat
    BY <1>1
  <2>2. IsFiniteSet(1 .. Len(before))
    BY <2>1, FS_Interval
  <2>3. IsFiniteSet(kept)
    BY <2>1, <2>2, FS_Subset
  <2> QED BY <2>3, FS_CardinalityType
<1>3. PICK n \in Nat : words \in [1 .. n -> Range(words)]
  <2>1. words = [k \in 1 .. Cardinality(kept) |-> words[k]]
    BY DEF Unflagged, Subsequence
  <2> HIDE DEF words, kept
  <2>2. words \in [1 .. Cardinality(kept) -> Range(words)]
    BY <2>1 DEF Range
  <2> QED BY <1>2, <2>2
<1>4. words \in Seq(S) /\ behind \in Seq(S)
  BY <1>1, <1>3, SeqDef
<1> HIDE DEF words, behind, S
<1>5. /\ Normalized(args) = words \o behind
      /\ Normalized(args) \in Seq(S)
      /\ Len(Normalized(args)) = Len(words) + Len(behind)
      /\ \A i \in 1 .. Len(words) + Len(behind) :
           Normalized(args)[i] = IF i <= Len(words) THEN words[i] ELSE behind[i - Len(words)]
  <2>1. Normalized(args) = words \o behind
    BY DEF Normalized, words, behind
  <2> QED BY <1>4, <2>1, ConcatProperties
<1>6. Len(words) \in Nat /\ DOMAIN words = 1 .. Len(words) /\ Len(behind) \in Nat
  BY <1>4
<1>7. ASSUME Normalized(args) # <<>>
      PROVE  LET tail == Tail(Normalized(args)) IN
             /\ Len(tail) \in Nat /\ DOMAIN tail = 1 .. Len(tail)
             /\ words # <<>> =>
                  /\ \A i \in 1 .. Len(tail) : i + 1 <= Len(words) => tail[i] = words[i + 1]
                  /\ Len(tail) >= Len(words) => tail[Len(words)] = Separator
             /\ words = <<>> => Head(Normalized(args)) = Separator
  <2> DEFINE tail == Tail(Normalized(args))
  <2>1. /\ tail \in Seq(S) /\ Len(tail) = Len(words) + Len(behind) - 1
        /\ \A i \in 1 .. Len(tail) : tail[i] = Normalized(args)[i + 1]
    BY <1>5, <1>7, HeadTailProperties
  <2> HIDE DEF tail
  <2>2. Len(tail) \in Nat /\ DOMAIN tail = 1 .. Len(tail)
    BY <2>1
  <2>3. ASSUME words # <<>>
        PROVE  /\ \A i \in 1 .. Len(tail) : i + 1 <= Len(words) => tail[i] = words[i + 1]
               /\ Len(tail) >= Len(words) => tail[Len(words)] = Separator
    <3>1. Len(words) >= 1
      BY <1>4, <2>3, EmptySeq
    <3>2. ASSUME NEW i \in 1 .. Len(tail), i + 1 <= Len(words) PROVE tail[i] = words[i + 1]
      BY <1>5, <1>6, <2>1, <2>2, <3>2
    <3>3. ASSUME Len(tail) >= Len(words) PROVE tail[Len(words)] = Separator
      <4>1. Len(behind) >= 1 /\ behind # <<>>
        BY <1>6, <2>1, <2>2, <3>3, EmptySeq
      <4>2. tail[Len(words)] = Normalized(args)[Len(words) + 1]
        BY <1>6, <2>1, <2>2, <3>1, <3>3
      <4>3. Normalized(args)[Len(words) + 1] = behind[1]
        BY <1>5, <1>6, <4>1
      <4> QED BY <1>1, <4>1, <4>2, <4>3 DEF behind
    <3> QED BY <3>2, <3>3
  <2>4. ASSUME words = <<>> PROVE Head(Normalized(args)) = Separator
    <3>1. Normalized(args) = behind
      BY <1>4, <1>5, <2>4, ConcatEmptySeq
    <3> QED BY <1>1, <1>4, <1>7, <3>1 DEF behind
  <2> QED BY <2>2, <2>3, <2>4 DEF tail
<1> QED BY <1>6, <1>7 DEF words, behind


(* Where the loop over the words found a confirmation.                     *)
LEMMA ConfirmationAt ==
  ASSUME NEW tail, Len(tail) \in Nat, DOMAIN tail = 1 .. Len(tail),
         "confirm" \in DOMAIN Scan(tail).params
  PROVE  \E i \in 1 .. Len(tail) :
           tail[i] \in {"--confirm", "--confirm=false"} /\ ~Literal(tail, i)
<1> DEFINE options == {i \in DOMAIN tail : IsOptionAt(tail, i)}
           switches == {i \in DOMAIN tail : IsSwitchAt(tail, i)}
           keys == {OptionKey(tail[i]) : i \in options}
           flags == {Switches[tail[i]] : i \in switches}
<1>1. "confirm" \in keys \cup flags
  BY DEF Scan
<1>2. "confirm" \notin keys
  <2>1. \A w \in DOMAIN Options : Options[w] # "confirm"
    BY DEF Options
  <2>2. \A w : IsOption(w) => OptionKey(w) # "confirm"
    BY <2>1 DEF IsOption, OptionKey
  <2> QED BY <2>2 DEF IsOptionAt
<1>3. PICK i \in switches : Switches[tail[i]] = "confirm"
  BY <1>1, <1>2
<1>4. \A w \in DOMAIN Switches : Switches[w] = "confirm" => w \in {"--confirm", "--confirm=false"}
  BY DEF Switches
<1> QED BY <1>3, <1>4 DEF IsSwitchAt

(* Behind the separator nothing is an option, unless an option in front of *)
(* it took the separator for its value.                                    *)
LEMMA OptionsEnd ==
  ASSUME NEW tail, Len(tail) \in Nat, DOMAIN tail = 1 .. Len(tail),
         NEW j \in 1 .. Len(tail), tail[j] = Separator,
         NEW i \in 1 .. Len(tail), i > j, ~Literal(tail, i)
  PROVE  j > 1 /\ IsOption(tail[j - 1])
<1> DEFINE ends == {k \in DOMAIN tail : tail[k] = Separator /\ ~IsValue(tail, k)}
                     \cup {Len(tail) + 1}
           runs == {n \in 0 .. j - 1 : \A k \in j - n .. j - 1 : IsOption(tail[k])}
<1>1. IsValue(tail, j)
  <2>1. ends \in SUBSET (1 .. Len(tail) + 1) /\ ends \in SUBSET Int /\ ends # {}
    OBVIOUS
  <2>2. IsFiniteSet(1 .. Len(tail) + 1)
    BY FS_Interval
  <2>3. IsFiniteSet(ends)
    BY <2>1, <2>2, FS_Subset
  <2>4. Cut(tail) \in Int /\ \A k \in ends : Cut(tail) <= k
    BY <2>1, <2>3, MinIsLeast DEF Cut
  <2>5. i < Cut(tail)
    BY <2>4 DEF Literal
  <2> QED BY <2>4, <2>5
<1>2. Row(tail, j) \in runs
  <2>1. runs \in SUBSET (0 .. j - 1) /\ runs \in SUBSET Int
    OBVIOUS
  <2>2. 0 \in runs
    OBVIOUS
  <2>3. IsFiniteSet(0 .. j - 1)
    BY FS_Interval
  <2>4. IsFiniteSet(runs)
    BY <2>1, <2>3, FS_Subset
  <2> QED BY <2>1, <2>2, <2>4, MaxIsGreatest DEF Row
<1>3. Row(tail, j) >= 1
  BY <1>1, <1>2 DEF IsValue
<1> QED BY <1>2, <1>3

(* What a parsed command confirms, it confirms before the separator.       *)
LEMMA ConfirmedBefore ==
  ASSUME NEW args \in Seq(STRING), NEW asked, asked = Parse(args), OneShot(asked) = "run",
         asked.plan[1].op # "batch", asked.plan[1].confirm = "true"
  PROVE  LET words == Unflagged(Before(args))
         IN  \/ Range(words) \cap {"--confirm", "--confirm=false"} # {}
             \/ IsOption(Last(words))
<1> DEFINE norm == Normalized(args)
           words == Unflagged(Before(args))
           tail == Tail(norm)
           exec == Flags(args) = {"--execute"}
           o == Head(norm)
           params == Completed(o, Scan(tail))
<1>1. /\ norm # <<>> /\ o \in Commands
      /\ asked = ParseCommand(exec, norm)
  BY DEF Parse, OneShot, Said
<1>2. asked = Asked(exec, <<NodeOf(o, params)>>)
  <2>1. \/ asked = Said("error")
        \/ o = "batch" /\ asked = Asked(exec, BatchSpec)
        \/ asked = Asked(exec, <<NodeOf(o, params)>>)
    BY <1>1 DEF ParseCommand
  <2>2. asked # Said("error")
    BY DEF Said, OneShot
  <2>3. asked # Asked(exec, BatchSpec)
    BY BatchSpecAssumption DEF Asked
  <2> QED BY <2>1, <2>2, <2>3
<1>3. "confirm" \in DOMAIN Scan(tail).params
  <2>1. NodeOf(o, params).confirm = "true"
    BY <1>2 DEF Asked
  <2>2. "confirm" \in DOMAIN params
    <3> HIDE DEF params, o
    <3> QED BY <2>1 DEF NodeOf, Leaf
  <2>3. DOMAIN params \subseteq DOMAIN Scan(tail).params \cup {"text", "keys", "app"}
    BY DEF Completed, Positional
  <2> QED BY <2>2, <2>3
<1> HIDE DEF params
<1>4. /\ Len(words) \in Nat /\ DOMAIN words = 1 .. Len(words)
      /\ Len(tail) \in Nat /\ DOMAIN tail = 1 .. Len(tail)
      /\ words # <<>> =>
           /\ \A i \in 1 .. Len(tail) : i + 1 <= Len(words) => tail[i] = words[i + 1]
           /\ Len(tail) >= Len(words) => tail[Len(words)] = Separator
      /\ words = <<>> => o = Separator
  BY <1>1, NormalizedIs
<1>5. words # <<>>
  BY <1>1, <1>4 DEF Commands, Inputs, Pointer, KeyOps, Typing, Chords, FocusOps, Reads, Separator
<1> HIDE DEF words, tail, o, norm
<1>6. PICK i \in 1 .. Len(tail) :
        tail[i] \in {"--confirm", "--confirm=false"} /\ ~Literal(tail, i)
  BY <1>3, <1>4, ConfirmationAt
<1>7. CASE i + 1 <= Len(words)
  <2>1. tail[i] = words[i + 1] /\ i + 1 \in 1 .. Len(words)
    BY <1>4, <1>5, <1>7
  <2> QED BY <1>4, <1>6, <2>1 DEF Range, words
<1>8. CASE ~(i + 1 <= Len(words))
  <2>1. Len(tail) >= Len(words) /\ i >= Len(words)
    BY <1>4, <1>8
  <2>2. tail[Len(words)] = Separator
    BY <1>4, <1>5, <2>1
  <2>3. i # Len(words)
    BY <1>6, <2>2 DEF Separator
  <2>4. Len(words) >= 1
    <3>1. Len(words) # 0
      BY <1>4, <1>5
    <3> QED BY <1>4, <3>1
  <2>5. Len(words) \in 1 .. Len(tail) /\ i > Len(words)
    <3>1. \A m, k, l \in Nat : k >= m /\ l >= m /\ l # m /\ m >= 1 => m \in 1 .. k /\ l > m
      OBVIOUS
    <3>2. i \in Nat /\ Len(words) \in Nat /\ Len(tail) \in Nat
      BY <1>4
    <3> QED BY <2>1, <2>3, <2>4, <3>1, <3>2
  <2>6. Len(words) > 1 /\ IsOption(tail[Len(words) - 1])
    BY <1>4, <1>6, <2>2, <2>5, OptionsEnd
  <2>7. tail[Len(words) - 1] = words[Len(words)]
    <3>1. Len(words) - 1 \in 1 .. Len(tail) /\ (Len(words) - 1) + 1 = Len(words)
      BY <1>4, <2>1, <2>6
    <3> QED BY <1>4, <1>5, <3>1
  <2> QED BY <2>6, <2>7 DEF Last, words
<1> QED BY <1>7, <1>8


(* The plan of a run of the command line is the one its words parse to.    *)
ParsedInv ==
  /\ \E kind \in DOMAIN Requests : request \in Requests[kind]
  /\ mpc = "words" => plan = <<>>
  /\ request.args # <<>> /\ plan # <<>> =>
       \E asked : /\ asked = Parse(request.args) /\ OneShot(asked) = "run"
                  /\ plan = asked.plan /\ dry = ~asked.execute

LEMMA NextKeepsParsed == ParsedInv /\ [Next]_vars => ParsedInv'
<1> SUFFICES ASSUME ParsedInv, [Next]_vars PROVE ParsedInv'
  OBVIOUS
<1>1. CASE ParseWords
  <2>1. UNCHANGED request /\ mpc' # "words"
    BY <1>1 DEF ParseWords, Goes, Answers
  <2>2. \/ UNCHANGED <<plan, dry>>
        \/ \E asked : /\ asked = Parse(request.args) /\ OneShot(asked) = "run"
                      /\ plan' = asked.plan /\ dry' = ~asked.execute
    BY <1>1 DEF ParseWords
  <2> QED BY <2>1, <2>2 DEF ParsedInv
<1>2. ASSUME ~ParseWords PROVE UNCHANGED call /\ (mpc' = "words" => mpc = "words")
  <2>1. ASSUME Prepare PROVE UNCHANGED call /\ mpc' # "words"
    <3>1. CASE ApplyPolicy
      BY <3>1 DEF ApplyPolicy, Judge, Goes, Answers
    <3> QED BY <1>2, <2>1, <3>1 DEF Prepare, AnswerAtOnce, Observe, Dispatch, Starts, Goes, Answers
  <2>2. ASSUME GoOn PROVE UNCHANGED call /\ mpc' # "words"
    <3>1. CASE ActivationEnds
      BY <3>1 DEF ActivationEnds, Starts, Goes, Answers
    <3> QED BY <2>2, <3>1 DEF GoOn, ListEnds, ScriptSaysNothing, ActiveWindow, FocusShown,
            Activate, LookAgain, NotYet, GiveUp, Starts, Goes, Answers
  <2> QED BY <1>2, <2>1, <2>2 DEF Next, vars, ChildGoesOn, See, Work, RunnerGoesOn, Others,
          FiveSeconds
<1> QED BY <1>1, <1>2 DEF ParsedInv, call

(* One run of the command line acts on the desktop only when its words say *)
(* so before the separator; it never posts at coordinates and leaves no    *)
(* screenshot path behind; and no word behind a separator confirms         *)
(* anything, unless an option took the separator for its value: for every  *)
(* sequence of words (cli.rs parse, bin/desktop.rs main).                  *)
THEOREM OneShotIsSafe == Spec => []OneShotSafe
<1>1. Init => ParsedInv
  BY CommandAssumption DEF Init, ParsedInv
<1>2. ParsedInv => OneShotSafe
  <2> SUFFICES ASSUME ParsedInv, request.args # <<>>, plan # <<>>
               PROVE  LET before == Before(request.args)
                          words == Unflagged(before)
                      IN  /\ ~dry => /\ "--execute" \in Range(before)
                                     /\ "--dry-run" \notin Range(before)
                                     /\ op \notin Pointer
                                     /\ ~(op = "observe" /\ plan[1].path)
                          /\ op # "batch" /\ plan[1].confirm = "true"
                               => \/ Range(words) \cap {"--confirm", "--confirm=false"} # {}
                                  \/ IsOption(Last(words))
    BY DEF OneShotSafe
  <2> DEFINE args == request.args
  <2>1. PICK asked : /\ asked = Parse(args) /\ OneShot(asked) = "run"
                     /\ plan = asked.plan /\ dry = ~asked.execute
    BY DEF ParsedInv
  <2>2. args \in Seq(STRING)
    BY CommandAssumption DEF ParsedInv
  <2>3. op = asked.plan[1].op
    BY <2>1 DEF op
  <2>4. op # "batch" /\ plan[1].confirm = "true"
          => \/ Range(Unflagged(Before(args))) \cap {"--confirm", "--confirm=false"} # {}
             \/ IsOption(Last(Unflagged(Before(args))))
    BY <2>1, <2>2, <2>3, ConfirmedBefore
  <2>5. ASSUME ~dry
        PROVE  /\ "--execute" \in Range(Before(args)) /\ "--dry-run" \notin Range(Before(args))
               /\ op \notin Pointer /\ ~(op = "observe" /\ plan[1].path)
    <3>1. asked.execute
      BY <2>1, <2>5
    <3>2. asked.kind = "command"
      BY <2>1 DEF Parse, ParseCommand, Said, Asked, OneShot
    <3>3. Flags(args) = {"--execute"}
      <4>1. \/ asked = Said("error") \/ asked = Said("help")
            \/ asked = ParseCommand(Flags(args) = {"--execute"}, Normalized(args))
        BY <2>1 DEF Parse
      <4> DEFINE exec == Flags(args) = {"--execute"}
      <4>2. \/ asked = Said("error") \/ asked = Said("help")
            \/ \E tree : asked = Asked(exec, tree)
        BY <4>1 DEF ParseCommand
      <4> HIDE DEF exec
      <4>3. \A tree : Asked(exec, tree).execute = exec
        BY DEF Asked
      <4>4. exec
        BY <3>1, <4>2, <4>3 DEF Said
      <4> QED BY <4>4 DEF exec
    <3>4. op \notin Pointer /\ ~(op = "observe" /\ plan[1].path)
      BY <2>1, <2>3, <3>1, <3>2 DEF OneShot, Pointer
    <3> QED BY <3>3, <3>4 DEF Flags
  <2> QED BY <2>4, <2>5
<1> QED BY <1>1, <1>2, NextKeepsParsed, PTL DEF Spec

-----------------------------------------------------------------------------
(* The policy, for trees of every size and depth: what a node is judged    *)
(* and run with, and what is wrong with it, read off the tree.             *)

(* Induction over an interval, upwards and downwards: least and greatest   *)
(* counterexamples.                                                        *)
LEMMA Upwards ==
  ASSUME NEW a \in Int, NEW b \in Int, NEW S,
         \A n \in a .. b : (\A m \in a .. n - 1 : m \in S) => n \in S
  PROVE  a .. b \subseteq S
<1> SUFFICES ASSUME (a .. b) \ S # {} PROVE FALSE
  OBVIOUS
<1> DEFINE bad == (a .. b) \ S
<1>1. IsFiniteSet(a .. b)
  BY FS_Interval
<1>2. bad \in SUBSET Int /\ bad \in SUBSET (a .. b)
  OBVIOUS
<1>3. PICK n \in bad : \A m \in bad : n <= m
  BY <1>1, <1>2, FS_Subset, LeastOf
<1>4. \A m \in a .. n - 1 : m \in S
  BY <1>3
<1> QED BY <1>3, <1>4

LEMMA Downwards ==
  ASSUME NEW a \in Int, NEW b \in Int, NEW S,
         \A n \in a .. b : (\A m \in n + 1 .. b : m \in S) => n \in S
  PROVE  a .. b \subseteq S
<1> SUFFICES ASSUME (a .. b) \ S # {} PROVE FALSE
  OBVIOUS
<1> DEFINE bad == (a .. b) \ S
<1>1. IsFiniteSet(a .. b)
  BY FS_Interval
<1>2. bad \in SUBSET Int /\ bad \in SUBSET (a .. b)
  OBVIOUS
<1>3. Max(bad) \in bad /\ \A m \in bad : m <= Max(bad)
  BY <1>1, <1>2, FS_Subset, MaxIsGreatest
<1>4. \A m \in Max(bad) + 1 .. b : m \in S
  BY <1>3
<1> QED BY <1>3, <1>4

(* Trees in document order.                                                *)
LEMMA TreeFacts ==
  ASSUME NEW tree, IsTree(tree)
  PROVE  /\ Len(tree) \in Nat /\ DOMAIN tree = 1 .. Len(tree)
         /\ \A n \in 1 .. Len(tree) :
              /\ tree[n].up \in 0 .. n - 1
              /\ (n = 1) <=> (tree[n].up = 0)
              /\ \A k \in tree[n].up + 1 .. n - 1 : tree[k].up >= tree[n].up
              /\ n > 1 => tree[tree[n].up].op = "batch" /\ tree[tree[n].up].app # "null"
BY DEF IsTree, IsSequence

LEMMA AroundSelf ==
  ASSUME NEW tree, NEW n \in Nat \ {0}
  PROVE  n \in Around(tree, n) /\ \A m \in Around(tree, n) : m \in 1 .. n
BY DEF Around

LEMMA AroundTransitive ==
  ASSUME NEW tree, IsTree(tree), NEW m \in 1 .. Len(tree),
         NEW j \in Around(tree, m), NEW k \in Around(tree, j)
  PROVE  k \in Around(tree, m)
<1>1. Len(tree) \in Nat /\ \A i \in 1 .. Len(tree) : tree[i].up \in Int
  BY TreeFacts
<1>2. j \in 1 .. m /\ \A i \in j + 1 .. m : tree[i].up >= j
  BY DEF Around
<1>3. k \in 1 .. j /\ \A i \in k + 1 .. j : tree[i].up >= k
  BY DEF Around
<1>4. ASSUME NEW i \in k + 1 .. m PROVE tree[i].up >= k
  <2>1. CASE i <= j
    BY <1>2, <1>3, <2>1
  <2>2. CASE ~(i <= j)
    <3>1. i \in 1 .. Len(tree) /\ i \in j + 1 .. m
      BY <1>1, <1>2, <1>3, <2>2
    <3>2. tree[i].up >= j /\ tree[i].up \in Int
      BY <1>1, <1>2, <3>1
    <3> QED BY <1>2, <1>3, <3>2
  <2> QED BY <2>1, <2>2
<1>5. k \in 1 .. m
  BY <1>1, <1>2, <1>3
<1> QED BY <1>4, <1>5 DEF Around

(* Around a node are the node and what is around its batch.                *)
LEMMA AroundUp ==
  ASSUME NEW tree, IsTree(tree), NEW n \in 2 .. Len(tree)
  PROVE  /\ tree[n].up \in 1 .. n - 1
         /\ Around(tree, n) = {n} \cup Around(tree, tree[n].up)
<1> DEFINE up == tree[n].up
<1>1. Len(tree) \in Nat /\ \A i \in 1 .. Len(tree) : tree[i].up \in Int
  BY TreeFacts
<1>2. up \in 1 .. n - 1 /\ \A k \in up + 1 .. n - 1 : tree[k].up >= up
  BY TreeFacts
<1> HIDE DEF up
<1>3. ASSUME NEW m \in Around(tree, n), m # n PROVE m \in Around(tree, up)
  <2>1. m \in 1 .. n - 1 /\ \A k \in m + 1 .. n : tree[k].up >= m
    BY <1>3 DEF Around
  <2>2. up >= m
    BY <2>1 DEF up
  <2> QED BY <1>1, <1>2, <2>1, <2>2 DEF Around
<1>4. up \in Around(tree, n)
  <2>1. \A k \in up + 1 .. n : tree[k].up >= up
    <3> SUFFICES ASSUME NEW k \in up + 1 .. n PROVE tree[k].up >= up
      OBVIOUS
    <3>1. CASE k = n
      BY <1>2, <3>1 DEF up
    <3>2. CASE k # n
      BY <1>2, <3>2
    <3> QED BY <3>1, <3>2
  <2> QED BY <1>2, <2>1 DEF Around
<1>5. ASSUME NEW m \in Around(tree, up) PROVE m \in Around(tree, n)
  BY <1>4, <1>5, AroundTransitive
<1>6. n \in Around(tree, n)
  BY AroundSelf
<1> QED BY <1>2, <1>3, <1>5, <1>6 DEF up

LEMMA AroundAreBatches ==
  ASSUME NEW tree, IsTree(tree), NEW n \in 1 .. Len(tree)
  PROVE  \A m \in Around(tree, n) : m # n => tree[m].op = "batch" /\ tree[m].app # "null"
<1> DEFINE S == {k \in 1 .. Len(tree) : \A m \in Around(tree, k) :
                   m # k => tree[m].op = "batch" /\ tree[m].app # "null"}
<1>0. Len(tree) \in Nat
  BY TreeFacts
<1>1. ASSUME NEW k \in 1 .. Len(tree), \A j \in 1 .. k - 1 : j \in S PROVE k \in S
  <2>1. CASE k = 1
    BY <2>1, AroundSelf
  <2>2. CASE k > 1
    <3>1. /\ tree[k].up \in 1 .. k - 1
          /\ Around(tree, k) = {k} \cup Around(tree, tree[k].up)
      BY <1>0, <2>2, AroundUp
    <3>2. tree[k].up \in S
      BY <1>1, <3>1
    <3>3. tree[tree[k].up].op = "batch" /\ tree[tree[k].up].app # "null"
      BY <2>2, TreeFacts
    <3> QED BY <3>1, <3>2, <3>3
  <2> QED BY <2>1, <2>2
<1>2. 1 .. Len(tree) \subseteq S
  <2>1. PICK last \in Int : last = Len(tree)
    BY <1>0
  <2>2. \A k \in 1 .. last : (\A j \in 1 .. k - 1 : j \in S) => k \in S
    BY <1>1, <2>1
  <2>3. 1 \in Int
    OBVIOUS
  <2> HIDE DEF S
  <2>4. 1 .. last \subseteq S
    BY <2>2, <2>3, Upwards
  <2> QED BY <2>1, <2>4
<1> QED BY <1>2

(* A field, step by step: what a node says, or what its batch passes on.   *)
LEMMA NearestStep ==
  ASSUME NEW tree, IsTree(tree), NEW p, NEW n \in 1 .. Len(tree), NEW field
  PROVE  Nearest(p, tree, n, field) =
           IF tree[n].up = 0 THEN tree[n][field]
           ELSE Inherited(p, tree[n][field], Nearest(p, tree, tree[n].up, field))
<1> DEFINE says(m) == {k \in Around(tree, m) : tree[k][field] # "absent"}
<1>1. Len(tree) \in Nat /\ \A m \in 1 .. Len(tree) : tree[m].up \in Int
  BY TreeFacts
<1>2. \A m \in 1 .. Len(tree) : says(m) # {} => /\ Max(says(m)) \in says(m)
                                               /\ \A k \in says(m) : k <= Max(says(m))
  <2> TAKE m \in 1 .. Len(tree)
  <2>1. IsFiniteSet(1 .. m)
    BY FS_Interval
  <2>2. says(m) \in SUBSET (1 .. m) /\ says(m) \in SUBSET Int
    BY DEF Around
  <2>3. IsFiniteSet(says(m))
    BY <2>1, <2>2, FS_Subset
  <2> QED BY <2>2, <2>3, MaxIsGreatest
<1>3. \A m \in 1 .. Len(tree) :
        /\ m \in Around(tree, m)
        /\ \A k \in Around(tree, m) : k \in 1 .. m
        /\ tree[m][field] # "absent" => says(m) # {} /\ Max(says(m)) = m
  <2> TAKE m \in 1 .. Len(tree)
  <2>1. m \in Around(tree, m) /\ \A k \in Around(tree, m) : k \in 1 .. m
    BY AroundSelf
  <2>2. ASSUME tree[m][field] # "absent" PROVE says(m) # {} /\ Max(says(m)) = m
    <3>1. m \in says(m)
      BY <2>1, <2>2
    <3>2. Max(says(m)) \in says(m) /\ m <= Max(says(m))
      BY <1>2, <3>1
    <3>3. Max(says(m)) \in 1 .. m
      BY <2>1, <3>2
    <3> QED BY <3>1, <3>2, <3>3
  <2> QED BY <2>1, <2>2
<1>4. \A m \in 1 .. Len(tree) : Nearest(p, tree, m, field) =
        IF says(m) = {} THEN "absent"
        ELSE IF Max(says(m)) = m THEN tree[m][field] ELSE Passed(p, tree[Max(says(m))][field])
  BY DEF Nearest
<1>5. CASE tree[n].up = 0
  <2>1. n = 1
    BY <1>5, TreeFacts
  <2>2. says(n) # {} => Max(says(n)) = n
    BY <1>2, <1>3, <2>1
  <2> QED BY <1>3, <1>4, <1>5, <2>1, <2>2
<1>6. CASE tree[n].up # 0
  <2> DEFINE up == tree[n].up
  <2>1. n \in 2 .. Len(tree)
    BY <1>1, <1>6, TreeFacts
  <2>2. up \in 1 .. n - 1 /\ Around(tree, n) = {n} \cup Around(tree, up)
    BY <2>1, AroundUp
  <2>3. up \in 1 .. Len(tree) /\ up # n
    BY <1>1, <2>2
  <2>4. CASE tree[n][field] # "absent"
    BY <1>3, <1>4, <1>6, <2>4 DEF Inherited
  <2>5. CASE tree[n][field] = "absent"
    <3>1. says(n) = says(up) /\ \A k \in says(up) : k # n
      BY <1>3, <2>2, <2>3, <2>5
    <3>2. \A v : Passed(p, Passed(p, v)) = Passed(p, v) /\ Passed(p, "absent") = "absent"
      BY DEF Passed
    <3>3. Nearest(p, tree, n, field) = IF says(up) = {} THEN "absent"
                                       ELSE Passed(p, tree[Max(says(up))][field])
      BY <1>2, <1>4, <2>3, <3>1
    <3>4. Nearest(p, tree, n, field) = Passed(p, Nearest(p, tree, up, field))
      BY <1>4, <2>3, <3>2, <3>3
    <3> QED BY <1>6, <2>5, <3>4 DEF Inherited
  <2> QED BY <2>4, <2>5
<1> QED BY <1>5, <1>6

(* What a node is validated with: of a field that it takes from its batch, *)
(* the nearest word.                                                       *)
LEMMA EffectiveIs ==
  ASSUME NEW tree, IsTree(tree), NEW p, NEW field, NEW n \in 1 .. Len(tree)
  PROVE  Effective(p, tree, field)[n] = IF tree[n].op \notin Takes(field) THEN tree[n][field]
                                        ELSE Nearest(p, tree, n, field)
<1> DEFINE D == DOMAIN tree
           own(m) == tree[m].up = 0 \/ tree[m].op \notin Takes(field)
           rule(v) == [m \in D |-> IF own(m) THEN tree[m][field]
                                   ELSE Inherited(p, tree[m][field], v[tree[m].up])]
           g == [m \in D |-> IF tree[m].op \notin Takes(field) THEN tree[m][field]
                             ELSE Nearest(p, tree, m, field)]
           E == Effective(p, tree, field)
<1>0. Len(tree) \in Nat
  BY TreeFacts
<1>1. D = 1 .. Len(tree) /\ Len(tree) \in Nat
  BY TreeFacts
<1>2. ASSUME NEW m \in D, ~own(m)
      PROVE  /\ tree[m].up \in D /\ tree[m].up \in 1 .. m - 1
             /\ g[tree[m].up] = Nearest(p, tree, tree[m].up, field)
             /\ g[m] = Inherited(p, tree[m][field], g[tree[m].up])
  <2>1. tree[m].up \in 1 .. m - 1 /\ tree[tree[m].up].op = "batch"
    BY <1>1, <1>2, TreeFacts
  <2>2. tree[m].up \in D
    BY <1>1, <2>1
  <2>3. "batch" \in Takes(field)
    BY DEF Takes
  <2>4. g[tree[m].up] = Nearest(p, tree, tree[m].up, field)
    BY <2>1, <2>2, <2>3
  <2>5. g[m] = Nearest(p, tree, m, field)
    BY <1>2
  <2>6. Nearest(p, tree, m, field) = Inherited(p, tree[m][field], Nearest(p, tree, tree[m].up, field))
    BY <1>1, <1>2, NearestStep
  <2> HIDE DEF g
  <2> QED BY <2>1, <2>2, <2>4, <2>5, <2>6
<1>3. \A m \in D : own(m) => g[m] = tree[m][field]
  BY <1>1, NearestStep
<1>4. g = rule(g)
  BY <1>2, <1>3
<1>5. E = rule(E)
  <2>1. E = CHOOSE v : v = rule(v)
    BY DEF Effective
  <2> HIDE DEF rule, g, E
  <2> QED BY <1>4, <2>1
<1> DEFINE S == {m \in D : E[m] = g[m]}
<1>6. ASSUME NEW m \in D, \A k \in 1 .. m - 1 : k \in S PROVE m \in S
  <2> HIDE DEF g, E
  <2>1. CASE own(m)
    BY <1>3, <1>5, <2>1
  <2>2. CASE ~own(m)
    BY <1>2, <1>5, <1>6, <2>2
  <2> QED BY <2>1, <2>2
<1>7. D \subseteq S
  <2>1. PICK last \in Int : last = Len(tree)
    BY <1>0
  <2>2. \A m \in 1 .. last : (\A k \in 1 .. m - 1 : k \in S) => m \in S
    BY <1>1, <1>6, <2>1
  <2>3. 1 \in Int
    OBVIOUS
  <2> HIDE DEF S
  <2>4. 1 .. last \subseteq S
    BY <2>2, <2>3, Upwards
  <2> QED BY <1>1, <2>1, <2>4
<1>8. E[n] = g[n] /\ n \in D
  <2> HIDE DEF E, g, D
  <2> QED BY <1>1, <1>7
<1> QED BY <1>8

(* No batch around a node says null for its app: the word passes as it is. *)
LEMMA AppPasses ==
  ASSUME NEW tree, IsTree(tree), NEW p, NEW n \in 2 .. Len(tree)
  PROVE  Nearest(p, tree, n, "app") = IF tree[n].app # "absent" THEN tree[n].app
                                      ELSE Nearest(p, tree, tree[n].up, "app")
<1> DEFINE up == tree[n].up
           says == {m \in Around(tree, up) : tree[m].app # "absent"}
<1>1. Len(tree) \in Nat /\ \A m \in 1 .. Len(tree) : tree[m].up \in Int
  BY TreeFacts
<1>2. up \in 1 .. n - 1 /\ tree[up].op = "batch" /\ tree[up].app # "null"
  BY <1>1, TreeFacts, AroundUp
<1>3. up \in 1 .. Len(tree) /\ up # 0
  BY <1>1, <1>2
<1>4. says # {} => Max(says) \in says
  <2>0. up \in Int /\ 1 \in Int
    BY <1>1, <1>2
  <2>1. IsFiniteSet(1 .. up)
    BY <2>0, FS_Interval
  <2>2. says \in SUBSET (1 .. up) /\ says \in SUBSET Int
    BY DEF Around
  <2>3. IsFiniteSet(says)
    BY <2>1, <2>2, FS_Subset
  <2> QED BY <2>2, <2>3, MaxIsGreatest
<1>5. \A m \in says : tree[m].app # "null"
  BY <1>2, <1>3, AroundAreBatches
<1>6. Nearest(p, tree, up, "app") =
        IF says = {} THEN "absent"
        ELSE IF Max(says) = up THEN tree[up].app ELSE Passed(p, tree[Max(says)].app)
  BY DEF Nearest
<1>7. Nearest(p, tree, up, "app") # "null"
  BY <1>2, <1>4, <1>5, <1>6 DEF Passed
<1>8. Nearest(p, tree, n, "app") = Inherited(p, tree[n].app, Nearest(p, tree, up, "app"))
  <2>1. n \in 1 .. Len(tree)
    OBVIOUS
  <2> QED BY <1>3, <2>1, NearestStep
<1> HIDE DEF up
<1> QED
  BY <1>7, <1>8 DEF Inherited, Passed, up

(* The app that is looked at before an action, and the one it runs with.   *)
LEMMA OneTargetHolds ==
  ASSUME NEW tree, IsTree(tree), NEW p
  PROVE  OneTarget(p, tree)
<1> DEFINE D == DOMAIN tree
           takes(m) == p = "python" \/ tree[m].op \in KeyOps \cup {"batch"}
           above(m) == tree[m].app = "absent" /\ tree[m].up # 0 /\ takes(m)
           rule(v) == [m \in D |-> IF above(m) THEN v[tree[m].up] ELSE tree[m].app]
           g == [m \in D |-> IF takes(m) THEN Nearest(p, tree, m, "app") ELSE tree[m].app]
<1>0. Len(tree) \in Nat
  BY TreeFacts
<1>1. D = 1 .. Len(tree)
  BY TreeFacts
<1>2. ASSUME NEW m \in D, tree[m].up # 0
      PROVE  /\ tree[m].up \in D /\ tree[m].up \in 1 .. m - 1 /\ takes(tree[m].up)
             /\ Nearest(p, tree, m, "app") = IF tree[m].app # "absent" THEN tree[m].app
                                             ELSE Nearest(p, tree, tree[m].up, "app")
  <2>1. m \in 2 .. Len(tree)
    BY <1>0, <1>1, <1>2, TreeFacts
  <2>2. tree[m].up \in 1 .. m - 1 /\ tree[tree[m].up].op = "batch"
    BY <1>0, <2>1, TreeFacts, AroundUp
  <2> QED BY <1>0, <1>1, <2>1, <2>2, AppPasses
<1>3. \A m \in D : tree[m].up = 0 => Nearest(p, tree, m, "app") = tree[m].app
  BY <1>1, NearestStep
<1>4. g = rule(g)
  <2>1. ASSUME NEW m \in D PROVE g[m] = IF above(m) THEN g[tree[m].up] ELSE tree[m].app
    <3>1. CASE tree[m].up = 0
      BY <1>3, <3>1
    <3>2. CASE tree[m].up # 0
      <4>1. g[tree[m].up] = Nearest(p, tree, tree[m].up, "app")
        BY <1>2, <3>2
      <4> QED BY <1>2, <3>2, <4>1
    <3> QED BY <3>1, <3>2
  <2> QED BY <2>1
<1>5. \A v : v = rule(v) => \A m \in D : v[m] = g[m]
  <2> TAKE v
  <2> HAVE v = rule(v)
  <2> DEFINE S == {m \in D : v[m] = g[m]}
  <2>1. ASSUME NEW m \in D, \A k \in 1 .. m - 1 : k \in S PROVE m \in S
    <3>1. g[m] = IF above(m) THEN g[tree[m].up] ELSE tree[m].app
      BY <1>4
    <3>2. v[m] = IF above(m) THEN v[tree[m].up] ELSE tree[m].app
      OBVIOUS
    <3>3. above(m) => tree[m].up \in 1 .. m - 1
      BY <1>2
    <3> HIDE DEF g
    <3> QED BY <2>1, <3>1, <3>2, <3>3
  <2>2. PICK last \in Int : last = Len(tree)
    BY <1>0
  <2>3. \A m \in 1 .. last : (\A k \in 1 .. m - 1 : k \in S) => m \in S
    BY <1>1, <2>1, <2>2
  <2>4. 1 \in Int
    OBVIOUS
  <2> HIDE DEF S
  <2>5. 1 .. last \subseteq S
    BY <2>3, <2>4, Upwards
  <2>6. D \subseteq S
    BY <1>1, <2>2, <2>5
  <2> HIDE DEF D, g
  <2> QED BY <2>6 DEF S
<1>6. ASSUME NEW E, E = CHOOSE v : v = rule(v) PROVE \A m \in D : E[m] = g[m]
  <2> HIDE DEF rule, g, D
  <2>1. E = rule(E)
    BY <1>4, <1>6
  <2> QED BY <1>5, <2>1
<1>7. /\ CheckedApp(p, tree) = CHOOSE v : v = rule(v)
      /\ DispatchedApp(p, tree) = CHOOSE v : v = rule(v)
  BY DEF CheckedApp, DispatchedApp
<1>8. \A m \in D : CheckedApp(p, tree)[m] = g[m] /\ DispatchedApp(p, tree)[m] = g[m]
  <2> HIDE DEF rule, g, D
  <2> QED BY <1>6, <1>7
<1>9. \A m \in D : tree[m].op \in KeyOps => g[m] = Nearest(p, tree, m, "app")
  OBVIOUS
<1> HIDE DEF g
<1> QED BY <1>8, <1>9 DEF OneTarget

-----------------------------------------------------------------------------
(* The number of actions of a batch.                                       *)

(* What is inside n up to and with its action k.                           *)
InsideUpTo(tree, n, k) ==
  {m \in DOMAIN tree : \E c \in n + 1 .. k : tree[c].up = n /\ c \in Around(tree, m)}

(* What is inside a batch is inside one of its actions, or is one.         *)
LEMMA InsideAnAction ==
  ASSUME NEW tree, IsTree(tree), NEW n \in 1 .. Len(tree)
  PROVE  InsideUpTo(tree, n, Len(tree)) = Within(tree, n)
<1>0. Len(tree) \in Nat
  BY TreeFacts
<1>1. DOMAIN tree = 1 .. Len(tree)
  BY TreeFacts
<1>2. ASSUME NEW m \in InsideUpTo(tree, n, Len(tree)) PROVE m \in Within(tree, n)
  <2>1. m \in 1 .. Len(tree)
    BY <1>1 DEF InsideUpTo
  <2>2. PICK c \in n + 1 .. Len(tree) : tree[c].up = n /\ c \in Around(tree, m)
    BY DEF InsideUpTo
  <2>3. c \in 2 .. Len(tree)
    BY <1>0, <2>2
  <2>4. n \in Around(tree, c)
    <3>1. n \in Around(tree, n)
      BY AroundSelf
    <3> QED BY <2>2, <2>3, <3>1, AroundUp
  <2>5. n \in Around(tree, m)
    BY <2>1, <2>2, <2>4, AroundTransitive
  <2>6. c \in 1 .. m
    BY <2>2 DEF Around
  <2>7. m # n
    BY <1>0, <2>1, <2>2, <2>6
  <2> QED BY <1>1, <2>1, <2>5, <2>7 DEF Within
<1> DEFINE S == {m \in 1 .. Len(tree) : m \in Within(tree, n) => m \in InsideUpTo(tree, n, Len(tree))}
<1>3. ASSUME NEW m \in 1 .. Len(tree), \A k \in 1 .. m - 1 : k \in S PROVE m \in S
  <2> SUFFICES ASSUME m \in Within(tree, n) PROVE m \in InsideUpTo(tree, n, Len(tree))
    OBVIOUS
  <2>1. m # n /\ n \in Around(tree, m)
    BY DEF Within
  <2>2. n \in 1 .. m
    BY <2>1 DEF Around
  <2>3. m \in 2 .. Len(tree)
    BY <1>0, <2>1, <2>2
  <2>4. tree[m].up \in 1 .. m - 1 /\ Around(tree, m) = {m} \cup Around(tree, tree[m].up)
    BY <2>3, AroundUp
  <2>5. tree[m].up \in 1 .. Len(tree) /\ n \in Around(tree, tree[m].up)
    BY <1>0, <2>1, <2>3, <2>4
  <2>6. m \in Around(tree, m)
    BY <2>4
  <2>7. CASE tree[m].up = n
    <3>1. m \in n + 1 .. Len(tree)
      BY <1>0, <2>1, <2>2, <2>3
    <3> QED BY <1>1, <2>6, <2>7, <3>1 DEF InsideUpTo
  <2>8. CASE tree[m].up # n
    <3>1. tree[m].up \in Within(tree, n)
      BY <1>1, <2>5, <2>8 DEF Within
    <3>2. tree[m].up \in InsideUpTo(tree, n, Len(tree))
      BY <1>3, <2>4, <3>1
    <3>3. PICK c \in n + 1 .. Len(tree) : tree[c].up = n /\ c \in Around(tree, tree[m].up)
      BY <3>2 DEF InsideUpTo
    <3>4. c \in Around(tree, m)
      BY <2>4, <3>3
    <3> QED BY <1>1, <3>3, <3>4 DEF InsideUpTo
  <2> QED BY <2>7, <2>8
<1>4. 1 .. Len(tree) \subseteq S
  <2>1. PICK last \in Int : last = Len(tree)
    BY <1>0
  <2>2. \A m \in 1 .. last : (\A k \in 1 .. m - 1 : k \in S) => m \in S
    BY <1>3, <2>1
  <2>3. 1 \in Int
    OBVIOUS
  <2> HIDE DEF S
  <2>4. 1 .. last \subseteq S
    BY <2>2, <2>3, Upwards
  <2> QED BY <2>1, <2>4
<1>5. ASSUME NEW m \in Within(tree, n) PROVE m \in InsideUpTo(tree, n, Len(tree))
  <2>1. m \in 1 .. Len(tree)
    BY <1>1 DEF Within
  <2> QED BY <1>4, <2>1
<1> QED BY <1>2, <1>5

(* One more action: itself and what is inside it, and nothing twice.       *)
LEMMA OneMoreAction ==
  ASSUME NEW tree, IsTree(tree), NEW n \in 1 .. Len(tree), NEW k \in n + 1 .. Len(tree)
  PROVE  LET before == InsideUpTo(tree, n, k - 1)
             upTo == InsideUpTo(tree, n, k)
         IN  /\ IsFiniteSet(before) /\ IsFiniteSet(upTo) /\ IsFiniteSet(Within(tree, k))
             /\ Cardinality(upTo) = Cardinality(before)
                  + (IF tree[k].up = n THEN 1 + Cardinality(Within(tree, k)) ELSE 0)
<1> DEFINE before == InsideUpTo(tree, n, k - 1)
           upTo == InsideUpTo(tree, n, k)
           added == {k} \cup Within(tree, k)
<1>0. Len(tree) \in Nat
  BY TreeFacts
<1>1. DOMAIN tree = 1 .. Len(tree) /\ \A i \in 1 .. Len(tree) : tree[i].up \in Int
  BY TreeFacts
<1>2. k \in 1 .. Len(tree)
  BY <1>0
<1>3. IsFiniteSet(DOMAIN tree)
  <2>1. PICK last \in Int : last = Len(tree)
    BY <1>0
  <2>2. IsFiniteSet(1 .. last)
    BY <2>1, FS_Interval
  <2> QED BY <1>1, <2>1, <2>2
<1>4. IsFiniteSet(before) /\ IsFiniteSet(upTo) /\ IsFiniteSet(Within(tree, k))
  <2>1. /\ before \in SUBSET DOMAIN tree /\ upTo \in SUBSET DOMAIN tree
        /\ Within(tree, k) \in SUBSET DOMAIN tree
    BY DEF InsideUpTo, Within
  <2> HIDE DEF before, upTo
  <2> QED BY <1>3, <2>1, FS_Subset
<1>5. CASE tree[k].up # n
  <2>1. upTo = before
    BY <1>5 DEF InsideUpTo
  <2>2. Cardinality(before) \in Nat
    BY <1>4, FS_CardinalityType
  <2> QED BY <1>4, <1>5, <2>1, <2>2
<1>6. CASE tree[k].up = n
  <2>1. k \in Around(tree, k) /\ k \notin Within(tree, k)
    BY <1>2, AroundSelf DEF Within
  <2>2. \A m \in DOMAIN tree : m \in added <=> k \in Around(tree, m)
    BY <2>1 DEF Within
  <2>3. added \subseteq DOMAIN tree
    BY <1>1, <1>2 DEF Within
  <2>4. upTo = before \cup added
    <3>1. \A c \in n + 1 .. k : c \in n + 1 .. k - 1 \/ c = k
      OBVIOUS
    <3>2. k \in n + 1 .. k /\ \A c \in n + 1 .. k - 1 : c \in n + 1 .. k
      OBVIOUS
    <3> QED BY <1>6, <2>2, <2>3, <3>1, <3>2 DEF InsideUpTo
  <2>5. before \cap added = {}
    <3> SUFFICES ASSUME NEW m \in before, m \in added PROVE FALSE
      OBVIOUS
    <3>1. PICK c \in n + 1 .. k - 1 : tree[c].up = n /\ c \in Around(tree, m)
      BY DEF InsideUpTo
    <3>2. k \in Around(tree, m)
      BY <2>2, <2>3
    <3>3. k \in c + 1 .. m
      BY <1>0, <3>1, <3>2 DEF Around
    <3>4. tree[k].up >= c
      BY <3>1, <3>3 DEF Around
    <3> QED BY <1>6, <3>1, <3>4
  <2>6. IsFiniteSet(added) /\ Cardinality(added) = Cardinality(Within(tree, k)) + 1
    BY <1>4, <2>1, FS_AddElement
  <2>7. Cardinality(upTo) = Cardinality(before) + Cardinality(added) - Cardinality({})
    <3> HIDE DEF before, upTo, added
    <3> QED BY <1>4, <2>4, <2>5, <2>6, FS_Union
  <2>8. Cardinality({}) = 0 /\ Cardinality(before) \in Nat /\ Cardinality(Within(tree, k)) \in Nat
    BY <1>4, FS_EmptySet, FS_CardinalityType
  <2> QED BY <1>4, <1>6, <2>6, <2>7, <2>8
<1> QED BY <1>5, <1>6

(* Counting the actions of n, when what is inside each is known.           *)
LEMMA CountedIs ==
  ASSUME NEW tree, IsTree(tree), NEW n \in 1 .. Len(tree), NEW count,
         \A k \in n + 1 .. Len(tree) : count[k] = Cardinality(Within(tree, k))
  PROVE  Counted(tree, count, n) = Cardinality(Within(tree, n))
<1> DEFINE N == Len(tree)
           rule(v) == [k \in n .. N |->
                         IF k = n THEN 0
                         ELSE v[k - 1] + (IF tree[k].up = n THEN 1 + count[k] ELSE 0)]
           g == [k \in n .. N |-> Cardinality(InsideUpTo(tree, n, k))]
<1>0. N \in Nat /\ n \in Nat /\ n <= N
  BY TreeFacts
<1>1. g[n] = 0
  <2>1. InsideUpTo(tree, n, n) = {}
    BY <1>0 DEF InsideUpTo
  <2>2. n \in n .. N
    BY <1>0
  <2> QED BY <2>1, <2>2, FS_EmptySet
<1>2. ASSUME NEW k \in n + 1 .. N
      PROVE  g[k] = g[k - 1] + (IF tree[k].up = n THEN 1 + count[k] ELSE 0)
  <2>1. k \in n .. N /\ k - 1 \in n .. N
    BY <1>0
  <2>2. g[k] = Cardinality(InsideUpTo(tree, n, k)) /\ g[k - 1] = Cardinality(InsideUpTo(tree, n, k - 1))
    BY <2>1
  <2>3. count[k] = Cardinality(Within(tree, k))
    OBVIOUS
  <2>4. Cardinality(InsideUpTo(tree, n, k)) = Cardinality(InsideUpTo(tree, n, k - 1))
          + (IF tree[k].up = n THEN 1 + Cardinality(Within(tree, k)) ELSE 0)
    BY OneMoreAction
  <2> HIDE DEF g
  <2> QED BY <2>2, <2>3, <2>4
<1>3. g = rule(g)
  <2>1. ASSUME NEW k \in n .. N
        PROVE  g[k] = IF k = n THEN 0
                      ELSE g[k - 1] + (IF tree[k].up = n THEN 1 + count[k] ELSE 0)
    <3>1. k = n \/ k \in n + 1 .. N
      BY <1>0
    <3> HIDE DEF g
    <3> QED BY <1>0, <1>1, <1>2, <3>1
  <2>2. g = [k \in n .. N |-> g[k]]
    OBVIOUS
  <2> QED BY <2>1, <2>2
<1>4. \A v : v = rule(v) => v[N] = g[N]
  <2> TAKE v
  <2> HAVE v = rule(v)
  <2> DEFINE S == {k \in n .. N : v[k] = g[k]}
  <2>0. \A k \in n .. N : v[k] = IF k = n THEN 0
                                 ELSE v[k - 1] + (IF tree[k].up = n THEN 1 + count[k] ELSE 0)
    OBVIOUS
  <2>1. ASSUME NEW k \in n .. N, \A j \in n .. k - 1 : j \in S PROVE k \in S
    <3>1. CASE k = n
      BY <1>1, <2>0, <3>1
    <3>2. CASE k # n
      <4>1. k \in n + 1 .. N /\ k - 1 \in n .. k - 1
        BY <1>0, <3>2
      <4>2. v[k - 1] = g[k - 1]
        BY <2>1, <4>1
      <4>3. v[k] = v[k - 1] + (IF tree[k].up = n THEN 1 + count[k] ELSE 0)
        BY <2>0, <3>2
      <4>4. v[k] = g[k]
        BY <1>2, <4>1, <4>2, <4>3
      <4> QED BY <4>4
    <3> QED BY <3>1, <3>2
  <2>2. \A k \in n .. N : (\A j \in n .. k - 1 : j \in S) => k \in S
    BY <2>1
  <2>3. n .. N \subseteq S
    <3>1. PICK last \in Int : last = N
      BY <1>0
    <3>2. \A k \in n .. last : (\A j \in n .. k - 1 : j \in S) => k \in S
      BY <2>2, <3>1
    <3>3. n \in Int
      BY <1>0
    <3> HIDE DEF S
    <3>4. n .. last \subseteq S
      BY <3>2, <3>3, Upwards
    <3> QED BY <3>1, <3>4
  <2> HIDE DEF S, N
  <2>4. N \in n .. N
    BY <1>0
  <2> QED BY <2>3, <2>4 DEF S
<1>5. Counted(tree, count, n) = (CHOOSE v : v = rule(v))[N]
  BY DEF Counted
<1>6. Counted(tree, count, n) = g[N]
  <2> HIDE DEF rule, g, N
  <2> QED BY <1>3, <1>4, <1>5
<1>7. g[N] = Cardinality(Within(tree, n))
  <2>1. N \in n .. N
    BY <1>0
  <2> QED BY <2>1, InsideAnAction
<1> QED BY <1>6, <1>7

(* action_count is the number of actions inside a node.                    *)
LEMMA ActionCountIs ==
  ASSUME NEW tree, IsTree(tree), NEW n \in 1 .. Len(tree)
  PROVE  ActionCount(tree)[n] = Cardinality(Within(tree, n))
<1> DEFINE D == DOMAIN tree
           rule(v) == [m \in D |-> Counted(tree, v, m)]
           g == [m \in D |-> Cardinality(Within(tree, m))]
<1>0. Len(tree) \in Nat
  BY TreeFacts
<1>1. D = 1 .. Len(tree)
  BY TreeFacts
<1>2. g = rule(g)
  <2>1. ASSUME NEW m \in D PROVE Counted(tree, g, m) = Cardinality(Within(tree, m))
    <3>1. m \in 1 .. Len(tree) /\ \A k \in m + 1 .. Len(tree) : k \in D
      BY <1>0, <1>1
    <3>2. \A k \in m + 1 .. Len(tree) : g[k] = Cardinality(Within(tree, k))
      BY <3>1
    <3> HIDE DEF g
    <3> QED BY <3>1, <3>2, CountedIs
  <2> QED BY <2>1
<1>3. \A v : v = rule(v) => \A m \in D : v[m] = g[m]
  <2> TAKE v
  <2> HAVE v = rule(v)
  <2> DEFINE S == {m \in D : v[m] = g[m]}
  <2>1. ASSUME NEW m \in D, \A k \in m + 1 .. Len(tree) : k \in S PROVE m \in S
    <3>1. m \in 1 .. Len(tree) /\ \A k \in m + 1 .. Len(tree) : k \in D
      BY <1>0, <1>1
    <3>2. \A k \in m + 1 .. Len(tree) : v[k] = Cardinality(Within(tree, k))
      BY <2>1, <3>1
    <3>3. Counted(tree, v, m) = Cardinality(Within(tree, m))
      BY <3>1, <3>2, CountedIs
    <3>4. v[m] = Counted(tree, v, m)
      OBVIOUS
    <3> QED BY <3>3, <3>4
  <2>2. PICK last \in Int : last = Len(tree)
    BY <1>0
  <2>3. \A m \in 1 .. last : (\A k \in m + 1 .. last : k \in S) => m \in S
    BY <1>1, <2>1, <2>2
  <2>4. 1 \in Int
    OBVIOUS
  <2> HIDE DEF S
  <2>5. 1 .. last \subseteq S
    BY <2>3, <2>4, Downwards
  <2>6. D \subseteq S
    BY <1>1, <2>2, <2>5
  <2> HIDE DEF D, g
  <2> QED BY <2>6 DEF S
<1>4. ActionCount(tree) = CHOOSE v : v = rule(v)
  BY DEF ActionCount
<1>5. n \in D
  BY <1>1
<1>6. ActionCount(tree)[n] = g[n]
  <2> HIDE DEF rule, g, D
  <2> QED BY <1>2, <1>3, <1>4, <1>5
<1> QED BY <1>5, <1>6

(* A node without an action of its own has nothing inside.                 *)
LEMMA NothingInside ==
  ASSUME NEW tree, IsTree(tree), NEW n \in 1 .. Len(tree)
  PROVE  /\ Kids(tree, n) = {} <=> Within(tree, n) = {}
         /\ tree[n].op # "batch" => Within(tree, n) = {}
<1>0. Len(tree) \in Nat
  BY TreeFacts
<1>1. DOMAIN tree = 1 .. Len(tree)
  BY TreeFacts
<1>2. ASSUME NEW k \in Kids(tree, n) PROVE k \in Within(tree, n) /\ tree[n].op = "batch"
  <2>1. k \in 1 .. Len(tree) /\ tree[k].up = n
    BY <1>1 DEF Kids
  <2>2. k \in 2 .. Len(tree)
    BY <1>0, <2>1, TreeFacts
  <2>3. n \in 1 .. k - 1 /\ Around(tree, k) = {k} \cup Around(tree, n)
    BY <2>1, <2>2, AroundUp
  <2>4. n \in Around(tree, n)
    BY AroundSelf
  <2>5. tree[n].op = "batch"
    BY <1>0, <2>1, <2>2, TreeFacts
  <2> QED BY <1>1, <2>1, <2>3, <2>4, <2>5 DEF Within
<1>3. ASSUME NEW m \in Within(tree, n) PROVE Kids(tree, n) # {}
  <2>1. m \in InsideUpTo(tree, n, Len(tree))
    BY InsideAnAction
  <2>2. PICK c \in n + 1 .. Len(tree) : tree[c].up = n
    BY <2>1 DEF InsideUpTo
  <2>3. c \in DOMAIN tree
    BY <1>0, <1>1, <2>2
  <2> QED BY <2>2, <2>3 DEF Kids
<1> QED BY <1>2, <1>3

-----------------------------------------------------------------------------
(* Chords.                                                                 *)

(* The words at some places, in their order: each place is the k-th for    *)
(* one k, the number of places up to it.                                   *)
LEMMA SubsequenceIs ==
  ASSUME NEW words, NEW places \in SUBSET Int, IsFiniteSet(places)
  PROVE  LET s == Subsequence(words, places)
             W == {words[i] : i \in places}
         IN  /\ s \in Seq(W) /\ Len(s) = Cardinality(places) /\ DOMAIN s = 1 .. Len(s)
             /\ Len(s) \in Nat
             /\ Range(s) = W
             /\ \A i \in places : s[Cardinality({j \in places : j <= i})] = words[i]
<1> DEFINE c == Cardinality(places)
           W == {words[i] : i \in places}
           upTo(i) == {j \in places : j <= i}
           rank == [i \in places |-> Cardinality(upTo(i))]
           at(k) == CHOOSE i \in places : Cardinality(upTo(i)) = k
           s == Subsequence(words, places)
<1>1. c \in Nat
  BY FS_CardinalityType
<1>2. ASSUME NEW i \in places PROVE IsFiniteSet(upTo(i)) /\ Cardinality(upTo(i)) \in 1 .. c
  <2>1. upTo(i) \in SUBSET places /\ i \in upTo(i)
    OBVIOUS
  <2>2. IsFiniteSet(upTo(i)) /\ Cardinality(upTo(i)) <= c
    BY <2>1, FS_Subset
  <2>3. Cardinality(upTo(i)) \in Nat /\ Cardinality(upTo(i)) # 0
    BY <2>1, <2>2, FS_CardinalityType, FS_EmptySet
  <2> QED BY <1>1, <2>2, <2>3
<1>3. ASSUME NEW i \in places, NEW j \in places, i < j
      PROVE  Cardinality(upTo(i)) # Cardinality(upTo(j))
  <2>0. i \in Int /\ j \in Int /\ \A k \in places : k \in Int
    OBVIOUS
  <2>1. upTo(i) \in SUBSET upTo(j) /\ j \in upTo(j) /\ j \notin upTo(i)
    <3>1. \A k \in places : k <= i => k <= j
      BY <1>3, <2>0
    <3>2. j <= j /\ ~(j <= i)
      BY <1>3, <2>0
    <3> QED BY <3>1, <3>2
  <2>2. IsFiniteSet(upTo(j))
    BY <1>2
  <2> HIDE DEF upTo
  <2> QED BY <2>1, <2>2, FS_Subset
<1>4. rank \in Injection(places, 1 .. c)
  <2>1. rank \in [places -> 1 .. c]
    BY <1>2
  <2>2. ASSUME NEW i \in places, NEW j \in places, rank[i] = rank[j] PROVE i = j
    <3>1. Cardinality(upTo(i)) = Cardinality(upTo(j))
      BY <2>2
    <3>2. i \in Int /\ j \in Int
      OBVIOUS
    <3> HIDE DEF upTo, rank
    <3> QED BY <1>3, <3>1, <3>2
  <2> HIDE DEF rank
  <2> QED BY <2>1, <2>2 DEF Injection, IsInjective
<1>5. rank \in Surjection(places, 1 .. c)
  <2>1. IsFiniteSet(1 .. c) /\ Cardinality(1 .. c) = c
    BY <1>1, FS_Interval
  <2> HIDE DEF rank
  <2> QED BY <1>4, <2>1, FS_Injection
<1>6. ASSUME NEW k \in 1 .. c PROVE at(k) \in places /\ Cardinality(upTo(at(k))) = k
  <2>1. \E i \in places : rank[i] = k
    <3> HIDE DEF rank
    <3> QED BY <1>5 DEF Surjection
  <2>2. \E i \in places : Cardinality(upTo(i)) = k
    BY <2>1
  <2> HIDE DEF upTo
  <2> QED BY <2>2
<1>7. ASSUME NEW i \in places PROVE at(Cardinality(upTo(i))) = i
  <2> DEFINE k == Cardinality(upTo(i))
  <2>1. k \in 1 .. c
    BY <1>2
  <2>2. at(k) \in places /\ Cardinality(upTo(at(k))) = k
    BY <1>6, <2>1
  <2>3. at(k) \in Int /\ i \in Int
    BY <2>2
  <2>4. ~(at(k) < i) /\ ~(i < at(k))
    <3> HIDE DEF at, upTo
    <3> QED BY <1>3, <2>2 DEF k
  <2> HIDE DEF at, k
  <2>5. at(k) = i
    BY <2>3, <2>4
  <2> QED BY <2>5 DEF k
<1>8. s = [k \in 1 .. c |-> words[at(k)]]
  BY DEF Subsequence
<1> HIDE DEF s, at, upTo, rank
<1>9. s \in [1 .. c -> W]
  BY <1>6, <1>8
<1>10. s \in Seq(W) /\ Len(s) = c /\ DOMAIN s = 1 .. Len(s)
  <2>1. s \in Seq(W)
    BY <1>1, <1>9, SeqDef
  <2>2. DOMAIN s = 1 .. c /\ Len(s) \in Nat /\ DOMAIN s = 1 .. Len(s)
    BY <1>9, <2>1
  <2>3. Len(s) = c
    BY <1>1, <2>1, <2>2, <1>9, LenProperties
  <2> QED BY <2>1, <2>2, <2>3
<1>11. \A i \in places : s[Cardinality(upTo(i))] = words[i]
  BY <1>2, <1>7, <1>8
<1>12. Range(s) = W
  <2>1. Range(s) \subseteq W
    BY <1>9 DEF Range
  <2>2. ASSUME NEW i \in places PROVE words[i] \in Range(s)
    <3>1. Cardinality(upTo(i)) \in DOMAIN s
      BY <1>2, <1>9
    <3> QED BY <1>11, <3>1 DEF Range
  <2> QED BY <2>1, <2>2
<1> QED BY <1>1, <1>10, <1>11, <1>12 DEF s, upTo

LEMMA AliasIs ==
  /\ \A w : IsModifier(w) <=> w \in {"cmd", "ctrl", "alt", "shift", "win"}
  /\ \A w : ~IsModifier(Alias(w)) => Alias(w) = w
<1>1. Range(Modifiers) = {"cmd", "ctrl", "alt", "shift", "win"}
  BY DEF Range, Modifiers
<1>2. \A w : IsModifier(w) <=> w \in {"cmd", "ctrl", "alt", "shift", "win"}
  BY <1>1 DEF IsModifier
<1>3. \A w : Alias(w) = w \/ Alias(w) = "cmd" \/ Alias(w) = "ctrl" \/ Alias(w) = "alt"
  BY Zenon DEF Alias
<1> QED BY <1>2, <1>3

(* The normal form of a chord: the modifiers it holds, once each, and then *)
(* the words that are not modifiers; and these are found again in it.      *)
LEMMA ChordWords ==
  ASSUME NEW words, IsSequence(words)
  PROVE  LET parts == KeyParts(words)
             regular == Regular(parts)
             R == Regulars(words)
             names == {words[i] : i \in R}
             places == {i \in DOMAIN Modifiers : Modifiers[i] \in Held(words)}
         IN  /\ IsFiniteSet(R) /\ R \in SUBSET Int /\ IsFiniteSet(places)
             /\ Held(words) = {Modifiers[i] : i \in places}
             /\ \A x \in names : ~IsModifier(x)
             /\ \E row : /\ row \in Seq(names) /\ Len(row) = Cardinality(R) /\ Range(row) = names
                         /\ parts = Subsequence(Modifiers, places) \o row
             /\ DOMAIN parts = 1 .. Len(parts)
             /\ Len(parts) = Cardinality(places) + Cardinality(R)
             /\ Range(parts) = Held(words) \cup names
             /\ regular \in Seq(names) /\ Len(regular) = Cardinality(R)
             /\ Range(regular) = names
<1> DEFINE parts == KeyParts(words)
           regular == Regular(parts)
           R == Regulars(words)
           names == {words[i] : i \in R}
           places == {i \in DOMAIN Modifiers : Modifiers[i] \in Held(words)}
           aliased == [i \in DOMAIN words |-> Alias(words[i])]
           mods == Subsequence(Modifiers, places)
           row == Subsequence(aliased, R)
           W == Held(words) \cup names
           later == {i \in DOMAIN parts : ~IsModifier(parts[i])}
<1>1. IsFiniteSet(R) /\ R \in SUBSET Int
  <2>0. Len(words) \in Int /\ DOMAIN words = 1 .. Len(words)
    BY DEF IsSequence
  <2>1. PICK last \in Int : DOMAIN words = 1 .. last
    <3> HIDE DEF R
    <3> QED BY <2>0
  <2>2. IsFiniteSet(1 .. last) /\ R \in SUBSET (1 .. last)
    BY <2>1, FS_Interval DEF Regulars
  <2>3. R \in SUBSET Int
    BY <2>2
  <2> HIDE DEF R
  <2> QED BY <2>2, <2>3, FS_Subset
<1>2. IsFiniteSet(places) /\ places \in SUBSET Int
  <2>1. DOMAIN Modifiers = 1 .. 5
    BY DEF Modifiers
  <2>2. IsFiniteSet(1 .. 5)
    <3>1. 1 \in Int /\ 5 \in Int
      OBVIOUS
    <3> QED BY <3>1, FS_Interval
  <2>3. places \in SUBSET (1 .. 5) /\ places \in SUBSET Int
    BY <2>1
  <2> HIDE DEF places
  <2> QED BY <2>2, <2>3, FS_Subset
<1>3. \A i \in R : aliased[i] = words[i] /\ ~IsModifier(words[i])
  BY AliasIs DEF Regulars
<1>4. places = {i \in DOMAIN Modifiers : Modifiers[i] \in Range(aliased)}
  <2>1. \A i \in DOMAIN Modifiers : IsModifier(Modifiers[i])
    BY DEF IsModifier, Range
  <2>2. \A x : IsModifier(x) => (x \in Range(aliased) <=> x \in Held(words))
    BY DEF Range, Held, Regulars
  <2> QED BY <2>1, <2>2
<1>5. Held(words) = {Modifiers[i] : i \in places}
  <2>1. \A x \in Held(words) : IsModifier(x)
    BY DEF Held, Regulars
  <2>2. \A x \in Held(words) : \E i \in DOMAIN Modifiers : x = Modifiers[i]
    BY <2>1 DEF IsModifier, Range
  <2> QED BY <2>2
<1>6. /\ mods \in Seq({Modifiers[i] : i \in places}) /\ Len(mods) = Cardinality(places)
      /\ Range(mods) = {Modifiers[i] : i \in places} /\ Len(mods) \in Nat
      /\ DOMAIN mods = 1 .. Len(mods)
  <2> HIDE DEF places
  <2> QED BY <1>2, SubsequenceIs
<1>7. /\ row \in Seq({aliased[i] : i \in R}) /\ Len(row) = Cardinality(R)
      /\ Range(row) = {aliased[i] : i \in R} /\ Len(row) \in Nat
      /\ DOMAIN row = 1 .. Len(row)
  <2> HIDE DEF R, aliased
  <2> QED BY <1>1, SubsequenceIs
<1>8. {aliased[i] : i \in R} = names
  BY <1>3
<1>9. parts = mods \o row
  <2>1. Regular(aliased) = row
    BY DEF Regular, Regulars
  <2> HIDE DEF aliased, places, row, mods
  <2>2. parts = Subsequence(Modifiers, {i \in DOMAIN Modifiers : Modifiers[i] \in Range(aliased)})
                  \o Regular(aliased)
    BY DEF KeyParts, aliased
  <2> QED BY <1>4, <2>1, <2>2 DEF mods
<1> HIDE DEF aliased, R, places, mods, row, names
<1>10. mods \in Seq(W) /\ row \in Seq(W)
  BY <1>5, <1>6, <1>7, <1>8
<1>11. /\ parts \in Seq(W) /\ Len(parts) = Len(mods) + Len(row) /\ DOMAIN parts = 1 .. Len(parts)
       /\ \A i \in 1 .. Len(parts) : parts[i] = IF i <= Len(mods) THEN mods[i]
                                                ELSE row[i - Len(mods)]
  BY <1>9, <1>10, ConcatProperties
<1> HIDE DEF parts
<1>12. \A i \in DOMAIN parts : i <= Len(mods) => parts[i] \in Held(words)
  BY <1>5, <1>6, <1>7, <1>11
<1>13. \A i \in DOMAIN parts : ~(i <= Len(mods)) => parts[i] \in names
  <2>1. \A j \in 1 .. Len(row) : row[j] \in names
    BY <1>7, <1>8
  <2> QED BY <1>6, <1>7, <1>11, <2>1
<1>14. Range(parts) = Held(words) \cup names
  <2>1. ASSUME NEW x \in Held(words) PROVE x \in Range(parts)
    <3>1. PICK i \in 1 .. Len(mods) : x = mods[i]
      BY <1>5, <1>6 DEF Range
    <3>2. i \in DOMAIN parts /\ parts[i] = x
      BY <1>6, <1>7, <1>11, <3>1
    <3> QED BY <3>2 DEF Range
  <2>2. ASSUME NEW x \in names PROVE x \in Range(parts)
    <3>1. PICK i \in 1 .. Len(row) : x = row[i]
      BY <1>7, <1>8 DEF Range
    <3>2. PICK a \in Nat : a = Len(mods)
      BY <1>6
    <3>3. PICK b \in Nat : b = Len(row)
      BY <1>7
    <3>4. i + a \in 1 .. a + b /\ ~(i + a <= a) /\ i + a - a = i
      BY <3>1, <3>3
    <3>5. i + a \in DOMAIN parts /\ parts[i + a] = row[i]
      BY <1>11, <3>2, <3>3, <3>4
    <3> QED BY <3>1, <3>5 DEF Range
  <2>3. Range(parts) \subseteq Held(words) \cup names
    BY <1>12, <1>13 DEF Range
  <2> QED BY <2>1, <2>2, <2>3
<1>15. /\ \A x \in Held(words) : IsModifier(x)
       /\ \A x \in names : ~IsModifier(x)
  BY <1>3 DEF Held, Regulars, names
<1>16. later = Len(mods) + 1 .. Len(mods) + Len(row)
  <2>1. \A i \in DOMAIN parts : ~IsModifier(parts[i]) <=> ~(i <= Len(mods))
    BY <1>12, <1>13, <1>15
  <2> QED BY <1>6, <1>7, <1>11, <2>1
<1>17. IsFiniteSet(later) /\ later \in SUBSET Int /\ Cardinality(later) = Len(row)
  <2>1. PICK a \in Nat : a = Len(mods)
    BY <1>6
  <2>2. PICK b \in Nat : b = Len(row)
    BY <1>7
  <2>3. IsFiniteSet(a + 1 .. a + b) /\ Cardinality(a + 1 .. a + b) = b
    BY FS_Interval
  <2> HIDE DEF later
  <2> QED BY <1>16, <2>1, <2>2, <2>3
<1>18. {parts[i] : i \in later} = names
  <2>1. \A i \in later : parts[i] \in names
    BY <1>6, <1>7, <1>11, <1>13, <1>16
  <2>2. ASSUME NEW x \in names PROVE \E i \in later : parts[i] = x
    <3>1. x \in Range(parts) /\ ~IsModifier(x)
      BY <1>14, <1>15
    <3> QED BY <3>1 DEF Range, later
  <2> QED BY <2>1, <2>2
<1>19. regular \in Seq(names) /\ Len(regular) = Cardinality(R) /\ Range(regular) = names
  <2>1. regular = Subsequence(parts, later)
    BY DEF Regular
  <2> HIDE DEF later, regular
  <2>2. LET s == Subsequence(parts, later)
            V == {parts[i] : i \in later}
        IN  s \in Seq(V) /\ Len(s) = Cardinality(later) /\ Range(s) = V
    BY <1>17, SubsequenceIs
  <2> QED BY <1>7, <1>17, <1>18, <2>1, <2>2
<1>20. \E r : /\ r \in Seq(names) /\ Len(r) = Cardinality(R) /\ Range(r) = names
              /\ parts = Subsequence(Modifiers, places) \o r
  BY <1>7, <1>8, <1>9 DEF mods
<1>21. Len(parts) = Cardinality(places) + Cardinality(R)
  BY <1>6, <1>7, <1>11
<1> QED
  BY <1>1, <1>2, <1>5, <1>11, <1>14, <1>15, <1>19, <1>20, <1>21 DEF R, places, parts, names

LEMMA OneModifier ==
  ASSUME NEW a \in 1 .. 5
  PROVE  Subsequence(Modifiers, {a}) = <<Modifiers[a]>> /\ Cardinality({a}) = 1
<1> DEFINE s == Subsequence(Modifiers, {a})
           W == {Modifiers[i] : i \in {a}}
<1>1. IsFiniteSet({a}) /\ Cardinality({a}) = 1
  BY FS_Singleton
<1>2. /\ s \in Seq(W) /\ Len(s) = 1
      /\ \A i \in {a} : s[Cardinality({j \in {a} : j <= i})] = Modifiers[i]
  <2>1. {a} \in SUBSET Int
    OBVIOUS
  <2>2. LET q == Subsequence(Modifiers, {a})
            V == {Modifiers[i] : i \in {a}}
        IN  /\ q \in Seq(V) /\ Len(q) = Cardinality({a})
            /\ \A i \in {a} : q[Cardinality({j \in {a} : j <= i})] = Modifiers[i]
    BY <1>1, <2>1, SubsequenceIs
  <2> QED BY <1>1, <2>2
<1>3. {j \in {a} : j <= a} = {a}
  OBVIOUS
<1>4. s[1] = Modifiers[a]
  BY <1>1, <1>2, <1>3
<1> HIDE DEF s
<1>5. s = <<Modifiers[a]>>
  BY <1>2, <1>4
<1> QED BY <1>1, <1>5 DEF s

LEMMA TwoModifiers ==
  ASSUME NEW a \in 1 .. 5, NEW b \in 1 .. 5, a < b
  PROVE  /\ Subsequence(Modifiers, {a, b}) = <<Modifiers[a], Modifiers[b]>>
         /\ Cardinality({a, b}) = 2
<1> DEFINE s == Subsequence(Modifiers, {a, b})
           W == {Modifiers[i] : i \in {a, b}}
<1>1. IsFiniteSet({a}) /\ Cardinality({a}) = 1
  BY FS_Singleton
<1>2. {a, b} = {a} \cup {b} /\ b \notin {a} /\ {a, b} \in SUBSET Int
  OBVIOUS
<1>3. IsFiniteSet({a, b}) /\ Cardinality({a, b}) = 2
  BY <1>1, <1>2, FS_AddElement
<1>4. /\ s \in Seq(W) /\ Len(s) = 2
      /\ \A i \in {a, b} : s[Cardinality({j \in {a, b} : j <= i})] = Modifiers[i]
  <2>1. LET q == Subsequence(Modifiers, {a, b})
            V == {Modifiers[i] : i \in {a, b}}
        IN  /\ q \in Seq(V) /\ Len(q) = Cardinality({a, b})
            /\ \A i \in {a, b} : q[Cardinality({j \in {a, b} : j <= i})] = Modifiers[i]
    BY <1>2, <1>3, SubsequenceIs
  <2> QED BY <1>3, <2>1
<1>5. {j \in {a, b} : j <= a} = {a} /\ {j \in {a, b} : j <= b} = {a, b}
  OBVIOUS
<1>6. s[1] = Modifiers[a]
  <2>1. s[Cardinality({j \in {a, b} : j <= a})] = Modifiers[a]
    BY <1>4
  <2> QED BY <1>1, <1>5, <2>1
<1>7. s[2] = Modifiers[b]
  <2>1. s[Cardinality({j \in {a, b} : j <= b})] = Modifiers[b]
    BY <1>4
  <2> QED BY <1>3, <1>5, <2>1
<1> HIDE DEF s
<1>8. s = <<Modifiers[a], Modifiers[b]>>
  BY <1>4, <1>6, <1>7
<1> QED BY <1>3, <1>8 DEF s

(* The places of the modifiers of each blocked chord.                      *)
LEMMA BlockedPlaces ==
  ASSUME NEW H
  PROVE  LET places == {i \in DOMAIN Modifiers : Modifiers[i] \in H}
             mods == Subsequence(Modifiers, places)
         IN  /\ H = {"cmd", "shift"} => mods = <<"cmd", "shift">> /\ Cardinality(places) = 2
             /\ H = {"win"} => mods = <<"win">> /\ Cardinality(places) = 1
             /\ H = {"ctrl", "alt"} => mods = <<"ctrl", "alt">> /\ Cardinality(places) = 2
             /\ H = {"alt"} => mods = <<"alt">> /\ Cardinality(places) = 1
<1> DEFINE places == {i \in DOMAIN Modifiers : Modifiers[i] \in H}
<1>1. /\ H = {"cmd", "shift"} => places = {1, 4}
      /\ H = {"win"} => places = {5}
      /\ H = {"ctrl", "alt"} => places = {2, 3}
      /\ H = {"alt"} => places = {3}
  <2>1. DOMAIN Modifiers = {1, 2, 3, 4, 5}
    BY DEF Modifiers
  <2>2. /\ Modifiers[1] = "cmd" /\ Modifiers[2] = "ctrl" /\ Modifiers[3] = "alt"
        /\ Modifiers[4] = "shift" /\ Modifiers[5] = "win"
    BY DEF Modifiers
  <2>3. places = {i \in {1, 2, 3, 4, 5} : Modifiers[i] \in H}
    BY <2>1
  <2> QED BY <2>2, <2>3
<1>2. /\ Subsequence(Modifiers, {1, 4}) = <<Modifiers[1], Modifiers[4]>> /\ Cardinality({1, 4}) = 2
      /\ Subsequence(Modifiers, {2, 3}) = <<Modifiers[2], Modifiers[3]>> /\ Cardinality({2, 3}) = 2
  <2>1. 1 \in 1 .. 5 /\ 2 \in 1 .. 5 /\ 3 \in 1 .. 5 /\ 4 \in 1 .. 5 /\ 1 < 4 /\ 2 < 3
    OBVIOUS
  <2> QED BY <2>1, TwoModifiers
<1>3. /\ Subsequence(Modifiers, {5}) = <<Modifiers[5]>> /\ Cardinality({5}) = 1
      /\ Subsequence(Modifiers, {3}) = <<Modifiers[3]>> /\ Cardinality({3}) = 1
  <2>1. 5 \in 1 .. 5 /\ 3 \in 1 .. 5
    OBVIOUS
  <2> QED BY <2>1, OneModifier
<1>4. /\ Modifiers[1] = "cmd" /\ Modifiers[2] = "ctrl" /\ Modifiers[3] = "alt"
      /\ Modifiers[4] = "shift" /\ Modifiers[5] = "win"
  BY DEF Modifiers
<1> HIDE DEF places
<1> QED BY <1>1, <1>2, <1>3, <1>4 DEF places

(* A chord is blocked if its normal form is one of the blocked ones.       *)
LEMMA BlockedIs ==
  ASSUME NEW words, IsSequence(words)
  PROVE  KeyParts(words) \in BlockedChords <=> ChordBlocked(words)
<1> DEFINE parts == KeyParts(words)
           R == Regulars(words)
           H == Held(words)
           names == {words[i] : i \in R}
           places == {i \in DOMAIN Modifiers : Modifiers[i] \in H}
           mods == Subsequence(Modifiers, places)
<1>1. PICK row : row \in Seq(names) /\ Len(row) = Cardinality(R) /\ parts = mods \o row
  BY ChordWords
<1>2. /\ IsFiniteSet(R) /\ R \in SUBSET Int
      /\ Len(parts) = Cardinality(places) + Cardinality(R)
      /\ Range(parts) = H \cup names
      /\ \A x \in names : ~IsModifier(x)
  BY ChordWords
<1>3. \A x \in H : IsModifier(x)
  BY DEF Held, Regulars
<1>4. \A x : IsModifier(x) <=> x \in {"cmd", "ctrl", "alt", "shift", "win"}
  BY AliasIs
<1>5. Cardinality(R) = 1 => words[Min(R)] \in names /\ names = {words[Min(R)]}
  <2> SUFFICES ASSUME Cardinality(R) = 1 PROVE words[Min(R)] \in names /\ names = {words[Min(R)]}
    OBVIOUS
  <2> HIDE DEF R
  <2>1. PICK i : R = {i}
    BY <1>2, FS_Singleton
  <2>2. Min(R) \in R
    BY <1>2, <2>1, MinIsLeast
  <2> QED BY <2>1, <2>2
<1>6. Cardinality(R) \in Nat
  BY <1>2, FS_CardinalityType
<1>7. /\ H = {"cmd", "shift"} => mods = <<"cmd", "shift">> /\ Cardinality(places) = 2
      /\ H = {"win"} => mods = <<"win">> /\ Cardinality(places) = 1
      /\ H = {"ctrl", "alt"} => mods = <<"ctrl", "alt">> /\ Cardinality(places) = 2
      /\ H = {"alt"} => mods = <<"alt">> /\ Cardinality(places) = 1
  BY BlockedPlaces
<1>8. Chord(words) = [flags |-> H, key |-> words[Min(R)]]
  BY DEF Chord
<1> HIDE DEF R, H, names, places, mods, parts
<1>9. ASSUME parts \in BlockedChords PROVE ChordBlocked(words)
  <2>1. CASE parts = <<"cmd", "shift", "q">>
    <3>1. Range(parts) = {"cmd", "shift", "q"} /\ Len(parts) = 3
      BY <2>1 DEF Range
    <3>2. H = {"cmd", "shift"} /\ names = {"q"}
      BY <1>2, <1>3, <1>4, <3>1
    <3>3. Cardinality(R) = 1
      <4>1. Len(parts) = Cardinality(places) + Cardinality(R)
        BY <1>2
      <4>2. Cardinality(places) = Len(parts) - 1
        BY <1>7, <3>1, <3>2
      <4>3. Len(parts) \in Nat
        BY <3>1
      <4> QED BY <1>6, <4>1, <4>2, <4>3
    <3> QED BY <1>5, <1>8, <3>2, <3>3 DEF ChordBlocked, R
  <2>2. CASE parts = <<"win", "l">>
    <3>1. Range(parts) = {"win", "l"} /\ Len(parts) = 2
      BY <2>2 DEF Range
    <3>2. H = {"win"} /\ names = {"l"}
      BY <1>2, <1>3, <1>4, <3>1
    <3>3. Cardinality(R) = 1
      <4>1. Len(parts) = Cardinality(places) + Cardinality(R)
        BY <1>2
      <4>2. Cardinality(places) = Len(parts) - 1
        BY <1>7, <3>1, <3>2
      <4>3. Len(parts) \in Nat
        BY <3>1
      <4> QED BY <1>6, <4>1, <4>2, <4>3
    <3> QED BY <1>5, <1>8, <3>2, <3>3 DEF ChordBlocked, R
  <2>3. CASE parts = <<"ctrl", "alt", "delete">>
    <3>1. Range(parts) = {"ctrl", "alt", "delete"} /\ Len(parts) = 3
      BY <2>3 DEF Range
    <3>2. H = {"ctrl", "alt"} /\ names = {"delete"}
      BY <1>2, <1>3, <1>4, <3>1
    <3>3. Cardinality(R) = 1
      <4>1. Len(parts) = Cardinality(places) + Cardinality(R)
        BY <1>2
      <4>2. Cardinality(places) = Len(parts) - 1
        BY <1>7, <3>1, <3>2
      <4>3. Len(parts) \in Nat
        BY <3>1
      <4> QED BY <1>6, <4>1, <4>2, <4>3
    <3> QED BY <1>5, <1>8, <3>2, <3>3 DEF ChordBlocked, R
  <2>4. CASE parts = <<"alt", "f4">>
    <3>1. Range(parts) = {"alt", "f4"} /\ Len(parts) = 2
      BY <2>4 DEF Range
    <3>2. H = {"alt"} /\ names = {"f4"}
      BY <1>2, <1>3, <1>4, <3>1
    <3>3. Cardinality(R) = 1
      <4>1. Len(parts) = Cardinality(places) + Cardinality(R)
        BY <1>2
      <4>2. Cardinality(places) = Len(parts) - 1
        BY <1>7, <3>1, <3>2
      <4>3. Len(parts) \in Nat
        BY <3>1
      <4> QED BY <1>6, <4>1, <4>2, <4>3
    <3> QED BY <1>5, <1>8, <3>2, <3>3 DEF ChordBlocked, R
  <2> QED BY <1>9, <2>1, <2>2, <2>3, <2>4 DEF BlockedChords
<1>10. ASSUME ChordBlocked(words) PROVE parts \in BlockedChords
  <2>1. Cardinality(R) = 1
    BY <1>10 DEF ChordBlocked, R
  <2>2. row = <<words[Min(R)]>>
    <3>1. row \in Seq(names) /\ Len(row) = 1
      BY <1>1, <2>1
    <3>2. row[1] \in names
      BY <3>1
    <3>3. row = <<row[1]>>
      BY <3>1
    <3> QED BY <1>5, <2>1, <3>2, <3>3
  <2>3. \/ H = {"cmd", "shift"} /\ words[Min(R)] = "q"
        \/ H = {"win"} /\ words[Min(R)] = "l"
        \/ H = {"ctrl", "alt"} /\ words[Min(R)] = "delete"
        \/ H = {"alt"} /\ words[Min(R)] = "f4"
    BY <1>8, <1>10 DEF ChordBlocked
  <2>4. \A a, b, c : <<a, b>> \o <<c>> = <<a, b, c>> /\ <<a>> \o <<c>> = <<a, c>>
    <3> TAKE a, b, c
    <3>1. PICK T : a \in T /\ b \in T /\ c \in T
      <4>1. a \in {a, b, c} /\ b \in {a, b, c} /\ c \in {a, b, c}
        OBVIOUS
      <4> QED BY <4>1
    <3>2. /\ <<a, b>> \in Seq(T) /\ <<a>> \in Seq(T) /\ <<c>> \in Seq(T)
          /\ <<a, b, c>> \in Seq(T) /\ <<a, c>> \in Seq(T)
      BY <3>1
    <3>3. <<a, b>> \o <<c>> = <<a, b, c>>
      <4> DEFINE s == <<a, b>> \o <<c>>
      <4>1. s \in Seq(T) /\ Len(s) = 3 /\ s[1] = a /\ s[2] = b /\ s[3] = c
        BY <3>2, ConcatProperties
      <4> HIDE DEF s
      <4>2. s = <<a, b, c>>
        BY <4>1
      <4> QED BY <4>2 DEF s
    <3>4. <<a>> \o <<c>> = <<a, c>>
      <4> DEFINE s == <<a>> \o <<c>>
      <4>1. s \in Seq(T) /\ Len(s) = 2 /\ s[1] = a /\ s[2] = c
        BY <3>2, ConcatProperties
      <4> HIDE DEF s
      <4>2. s = <<a, c>>
        BY <4>1
      <4> QED BY <4>2 DEF s
    <3> QED BY <3>3, <3>4
  <2> QED BY <1>1, <1>7, <2>2, <2>3, <2>4 DEF BlockedChords
<1> QED BY <1>9, <1>10 DEF parts

(* The first refusal is one of those there are.                            *)
LEMMA FirstIssueIs ==
  ASSUME NEW n \in Nat, NEW checks, DOMAIN checks = 1 .. n
  PROVE  \/ FirstIssue(checks) = "ok" /\ \A i \in 1 .. n : ~checks[i][1]
         \/ \E i \in 1 .. n : checks[i][1] /\ FirstIssue(checks) = checks[i][2]
<1> DEFINE hits == {i \in DOMAIN checks : checks[i][1]}
<1>1. CASE hits = {}
  BY <1>1 DEF FirstIssue
<1>2. CASE hits # {}
  <2>1. hits \in SUBSET (1 .. n) /\ IsFiniteSet(1 .. n) /\ hits \in SUBSET Int
    BY FS_Interval
  <2>2. Min(hits) \in hits
    BY <1>2, <2>1, FS_Subset, MinIsLeast
  <2>3. Min(hits) \in 1 .. n /\ checks[Min(hits)][1]
    BY <2>1, <2>2
  <2> QED BY <1>2, <2>3 DEF FirstIssue
<1> QED BY <1>1, <1>2

(* What is asked of a chord, read off its words as they were written.      *)
LEMMA KeyIssueIs ==
  ASSUME NEW words, IsSequence(words), NEW o \in Chords
  PROVE  LET issue == KeyIssue(o, words)
             fine == ChordKnown(words) /\ ChordComplete(o, words)
         IN  \/ issue = "ok" /\ fine /\ ~ChordBlocked(words)
             \/ issue = "bad_arg" /\ ~fine
             \/ issue = "blocked" /\ ChordBlocked(words)
<1> DEFINE parts == KeyParts(words)
           regular == Regular(parts)
           R == Regulars(words)
           H == Held(words)
           places == {i \in DOMAIN Modifiers : Modifiers[i] \in H}
           c1 == parts = <<>>
           c2 == \E p \in Range(regular) : p \notin KeyNames
           c3 == parts \in BlockedChords
           c4 == Len(regular) # 1
           c5 == o = "press" /\ Len(parts) # 1
           checks == << <<c1, "bad_arg">>, <<c2, "bad_arg">>, <<c3, "blocked">>,
                        <<c4, "bad_arg">>, <<c5, "bad_arg">> >>
           issue == KeyIssue(o, words)
<1>1. /\ IsFiniteSet(R) /\ IsFiniteSet(places)
      /\ H = {Modifiers[i] : i \in places}
      /\ DOMAIN parts = 1 .. Len(parts)
      /\ Len(parts) = Cardinality(places) + Cardinality(R)
      /\ Len(regular) = Cardinality(R)
      /\ Range(regular) = {words[i] : i \in R}
  BY ChordWords
<1>2. Cardinality(R) \in Nat /\ Cardinality(places) \in Nat
  BY <1>1, FS_CardinalityType
<1>3. H = {} <=> Cardinality(places) = 0
  <2>1. places = {} <=> Cardinality(places) = 0
    BY <1>1, FS_EmptySet
  <2> HIDE DEF places
  <2> QED BY <1>1, <2>1
<1>4. issue = FirstIssue(checks)
  BY DEF KeyIssue
<1>5. c2 <=> ~ChordKnown(words)
  BY <1>1 DEF ChordKnown
<1>6. c3 <=> ChordBlocked(words)
  BY BlockedIs
<1>7. ChordComplete(o, words) <=> Cardinality(R) = 1 /\ (o = "press" => H = {})
  BY DEF ChordComplete
<1>8. c1 => ~ChordComplete(o, words)
  <2> SUFFICES ASSUME c1 PROVE Cardinality(R) = 0
    BY <1>7
  <2>1. Len(parts) = 0
    OBVIOUS
  <2> HIDE DEF parts, R, places
  <2> QED BY <1>1, <1>2, <2>1
<1>9. ~c4 /\ ~c5 <=> ChordComplete(o, words)
  <2>1. \A m, k \in Nat : k = 1 => (m + k # 1 <=> m # 0)
    OBVIOUS
  <2>2. Len(regular) = 1 => (Len(parts) # 1 <=> H # {})
    <3> HIDE DEF parts, R, places, regular, H
    <3> QED BY <1>1, <1>2, <1>3, <2>1
  <2>3. c4 <=> Cardinality(R) # 1
    <3> HIDE DEF parts, R, places, regular, H
    <3> QED BY <1>1
  <2>4. ~c4 => (c5 <=> (o = "press" /\ H # {}))
    BY <2>2
  <2> HIDE DEF c4, c5, R, H
  <2> QED BY <1>7, <2>3, <2>4
<1> HIDE DEF c1, c2, c3, c4, c5
<1>10. \/ issue = "ok" /\ ~c1 /\ ~c2 /\ ~c3 /\ ~c4 /\ ~c5
       \/ issue = "bad_arg" /\ (c1 \/ c2 \/ c4 \/ c5)
       \/ issue = "blocked" /\ c3
  <2>1. DOMAIN checks = 1 .. 5
    OBVIOUS
  <2>2. \/ issue = "ok" /\ \A i \in 1 .. 5 : ~checks[i][1]
        \/ \E i \in 1 .. 5 : checks[i][1] /\ issue = checks[i][2]
    <3> HIDE DEF checks, issue
    <3> QED BY <1>4, <2>1, FirstIssueIs
  <2>3. /\ checks[1] = <<c1, "bad_arg">> /\ checks[2] = <<c2, "bad_arg">>
        /\ checks[3] = <<c3, "blocked">> /\ checks[4] = <<c4, "bad_arg">>
        /\ checks[5] = <<c5, "bad_arg">>
    OBVIOUS
  <2>4. \A i \in 1 .. 5 : i = 1 \/ i = 2 \/ i = 3 \/ i = 4 \/ i = 5
    OBVIOUS
  <2> HIDE DEF checks, issue
  <2> QED BY <2>2, <2>3, <2>4
<1> HIDE DEF issue
<1> QED
  BY <1>5, <1>6, <1>8, <1>9, <1>10 DEF issue

(* The helper is given the chord that was asked for.                       *)
LEMMA PostedIs ==
  ASSUME NEW words, IsSequence(words), Cardinality(Regulars(words)) = 1
  PROVE  \/ PostedChord(words) = Chord(words)
         \/ "win" \in Held(words) /\ PostedChord(words).key = "unsupported"
<1> DEFINE parts == KeyParts(words)
           regular == Regular(parts)
           R == Regulars(words)
           H == Held(words)
           names == {words[i] : i \in R}
<1>1. /\ IsFiniteSet(R) /\ R \in SUBSET Int
      /\ \A x \in names : ~IsModifier(x)
      /\ Range(parts) = H \cup names
      /\ regular \in Seq(names) /\ Len(regular) = 1
      /\ Range(regular) = names
  BY ChordWords
<1>2. \A x \in H : IsModifier(x)
  BY DEF Held, Regulars
<1>3. CASE "win" \in Range(parts)
  <2>1. IsModifier("win")
    BY AliasIs
  <2> QED BY <1>1, <1>3, <2>1 DEF PostedChord
<1>4. CASE "win" \notin Range(parts)
  <2>1. PostedChord(words) = [flags |-> Range(parts) \ Range(regular), key |-> Last(regular)]
    BY <1>4 DEF PostedChord
  <2>2. Range(parts) \ Range(regular) = H
    BY <1>1, <1>2
  <2>3. Last(regular) \in names
    <3> HIDE DEF regular, names
    <3> QED BY <1>1 DEF Last
  <2>4. \E i : R = {i}
    <3> HIDE DEF R
    <3> QED BY <1>1, FS_Singleton DEF R
  <2>5. Min(R) \in R
    <3> HIDE DEF R
    <3> QED BY <1>1, <2>4, MinIsLeast
  <2>6. Last(regular) = words[Min(R)]
    <3> HIDE DEF R, regular
    <3> QED BY <2>3, <2>4, <2>5
  <2> QED BY <2>1, <2>2, <2>6 DEF Chord
<1> QED BY <1>3, <1>4

-----------------------------------------------------------------------------
(* The verdict on a request.                                               *)

LEMMA ConfirmationIs ==
  \A p, e : LET mistyped == e.risk \notin Classes \/ e.confirm \in {"odd", "null"}
                unconfirmed == Consequential(e) /\ e.confirm # "true"
            IN  \/ Confirmation(p, e) = "ok" /\ ~mistyped /\ ~unconfirmed
                \/ Confirmation(p, e) = "bad_arg" /\ mistyped
                \/ Confirmation(p, e) = "needs_attention" /\ unconfirmed
<1> TAKE p, e
<1> DEFINE c1 == e.risk \notin Classes
           c2 == e.confirm \in {"odd", "null"}
           c3 == Consequential(e) /\ e.confirm # "true"
           rust == << <<c1, "bad_arg">>, <<c2, "bad_arg">>, <<c3, "needs_attention">> >>
           python == << <<c1, "bad_arg">>, <<c3, "needs_attention">>, <<c2, "bad_arg">> >>
           issue == Confirmation(p, e)
<1>1. issue = FirstIssue(IF p = "rust" THEN rust ELSE python)
  BY DEF Confirmation
<1>2. \A i \in 1 .. 3 : i = 1 \/ i = 2 \/ i = 3
  OBVIOUS
<1> HIDE DEF c1, c2, c3, issue
<1>3. DOMAIN rust = 1 .. 3 /\ DOMAIN python = 1 .. 3
  OBVIOUS
<1>4. /\ rust[1] = <<c1, "bad_arg">> /\ rust[2] = <<c2, "bad_arg">>
      /\ rust[3] = <<c3, "needs_attention">>
      /\ python[1] = <<c1, "bad_arg">> /\ python[2] = <<c3, "needs_attention">>
      /\ python[3] = <<c2, "bad_arg">>
  OBVIOUS
<1> HIDE DEF rust, python
<1> DEFINE Found == \/ issue = "ok" /\ ~c1 /\ ~c2 /\ ~c3
                    \/ issue = "bad_arg" /\ (c1 \/ c2)
                    \/ issue = "needs_attention" /\ c3
<1>5. ASSUME p = "rust" PROVE Found
  <2>1. \/ issue = "ok" /\ \A i \in 1 .. 3 : ~rust[i][1]
        \/ \E i \in 1 .. 3 : rust[i][1] /\ issue = rust[i][2]
    BY <1>1, <1>3, <1>5, FirstIssueIs
  <2> QED BY <1>2, <1>4, <2>1
<1>6. ASSUME p # "rust" PROVE Found
  <2>1. \/ issue = "ok" /\ \A i \in 1 .. 3 : ~python[i][1]
        \/ \E i \in 1 .. 3 : python[i][1] /\ issue = python[i][2]
    BY <1>1, <1>3, <1>6, FirstIssueIs
  <2> QED BY <1>2, <1>4, <2>1
<1>7. Found
  BY <1>5, <1>6
<1> QED BY <1>7 DEF c1, c2, c3, issue

(* An app that is blank is the batch's own, if no batch before it is       *)
(* faulty.                                                                 *)
LEMMA BlankIsOwn ==
  ASSUME NEW tree, IsTree(tree), NEW p, NEW n \in 1 .. Len(tree),
         \A m \in 1 .. n - 1 : Faults(p, tree, m) = {}
  PROVE  Nearest(p, tree, n, "app") = "blank" <=> tree[n].app = "blank"
<1> DEFINE says == {m \in Around(tree, n) : tree[m].app # "absent"}
<1>0. Len(tree) \in Nat
  BY TreeFacts
<1>1. ASSUME tree[n].app = "blank" PROVE Nearest(p, tree, n, "app") = "blank"
  BY <1>1, NearestStep DEF Inherited
<1>2. ASSUME Nearest(p, tree, n, "app") = "blank", tree[n].app # "blank" PROVE FALSE
  <2>1. says # {} /\ Max(says) # n /\ tree[Max(says)].app = "blank"
    BY <1>2 DEF Nearest, Passed
  <2>2. IsFiniteSet(1 .. n)
    <3>1. 1 \in Int /\ n \in Int
      BY <1>0
    <3> QED BY <3>1, FS_Interval
  <2>3. says \in SUBSET (1 .. n) /\ says \in SUBSET Int
    BY DEF Around
  <2>4. IsFiniteSet(says)
    BY <2>2, <2>3, FS_Subset
  <2>5. Max(says) \in says
    BY <2>1, <2>3, <2>4, MaxIsGreatest
  <2>6. PICK m \in says : m = Max(says)
    BY <2>5
  <2>7. m \in Around(tree, n) /\ m # n /\ tree[m].app = "blank" /\ m \in 1 .. n - 1
    BY <1>0, <2>1, <2>3, <2>6
  <2>8. tree[m].op = "batch"
    BY <2>7, AroundAreBatches
  <2>9. Malformed(p, tree, m)
    BY <2>7, <2>8 DEF Malformed
  <2>10. "bad_arg" \in Faults(p, tree, m)
    BY <2>9 DEF Faults
  <2> QED BY <2>7, <2>10
<1> QED BY <1>1, <1>2

(* How many actions there are is asked of a batch, whatever else it is.    *)
LEMMA CountIs ==
  ASSUME NEW tree, IsTree(tree), NEW n \in 1 .. Len(tree)
  PROVE  /\ tree[n].op = "batch" =>
              (Cardinality(Within(tree, n)) \notin 1 .. MaxActions
                 <=> Kids(tree, n) = {} \/ ActionCount(tree)[n] > MaxActions)
         /\ tree[n].op # "batch" => ~(ActionCount(tree)[n] > MaxActions)
<1>0. Len(tree) \in Nat
  BY TreeFacts
<1>1. IsFiniteSet(Within(tree, n))
  <2>1. PICK last \in Int : last = Len(tree)
    BY <1>0
  <2>2. Within(tree, n) \in SUBSET (1 .. last)
    BY <2>1, TreeFacts DEF Within
  <2>3. IsFiniteSet(1 .. last)
    BY FS_Interval
  <2> QED BY <2>2, <2>3, FS_Subset
<1>2. Cardinality(Within(tree, n)) \in Nat
  BY <1>1, FS_CardinalityType
<1>3. ActionCount(tree)[n] = Cardinality(Within(tree, n))
  BY ActionCountIs
<1>4. Cardinality(Within(tree, n)) = 0 <=> Kids(tree, n) = {}
  BY <1>1, NothingInside, FS_EmptySet
<1>5. tree[n].op # "batch" => Cardinality(Within(tree, n)) = 0
  BY <1>1, NothingInside, FS_EmptySet
<1>6. \A c \in Nat : c \notin 1 .. MaxActions <=> c = 0 \/ c > MaxActions
  BY PolicyAssumption
<1>7. ~(0 > MaxActions)
  BY PolicyAssumption
<1> QED BY <1>2, <1>3, <1>4, <1>5, <1>6, <1>7

(* What a node is judged with: its own fields, and three that it may have  *)
(* from the batches around it.                                             *)
LEMMA JudgedWith ==
  ASSUME NEW tree, IsTree(tree), NEW p, NEW n \in 1 .. Len(tree),
         \A m \in 1 .. n - 1 : Faults(p, tree, m) = {}
  PROVE  LET node == tree[n]
             e == [node EXCEPT !.risk    = Effective(p, tree, "risk")[n],
                               !.confirm = Effective(p, tree, "confirm")[n],
                               !.app     = Effective(p, tree, "app")[n]]
         IN  /\ e.op = node.op /\ e.args = node.args /\ e.meta = node.meta /\ e.path = node.path
             /\ e.text = node.text /\ e.keys = node.keys /\ e.timing = node.timing
             /\ e.deadline = node.deadline
             /\ node.op \in Inputs => /\ e.risk = Nearest(p, tree, n, "risk")
                                      /\ e.confirm = Nearest(p, tree, n, "confirm")
             /\ node.op \in KeyOps => e.app = Nearest(p, tree, n, "app")
             /\ node.op \in FocusOps => e.app = node.app
             /\ node.op = "batch" => (e.app = "blank" <=> node.app = "blank")
<1> DEFINE node == tree[n]
           r == Effective(p, tree, "risk")[n]
           c == Effective(p, tree, "confirm")[n]
           a == Effective(p, tree, "app")[n]
           e == [node EXCEPT !.risk = r, !.confirm = c, !.app = a]
<1>1. \A f \in {"op", "args", "meta", "path", "text", "keys", "timing", "deadline", "risk",
                "confirm", "app"} : f \in DOMAIN node
  <2>1. n \in DOMAIN tree
    BY TreeFacts
  <2>2. DOMAIN node = DOMAIN Leaf(node.op)
    BY <2>1 DEF IsTree
  <2> HIDE DEF node
  <2> QED BY <2>2 DEF Leaf
<1>2. /\ r = IF node.op \notin Takes("risk") THEN node.risk ELSE Nearest(p, tree, n, "risk")
      /\ c = IF node.op \notin Takes("confirm") THEN node.confirm
             ELSE Nearest(p, tree, n, "confirm")
      /\ a = IF node.op \notin Takes("app") THEN node.app ELSE Nearest(p, tree, n, "app")
  BY EffectiveIs
<1>3. /\ \A o \in Inputs : o \in Takes("risk") /\ o \in Takes("confirm")
      /\ \A o \in KeyOps \cup {"batch"} : o \in Takes("app")
      /\ \A o \in FocusOps : o \notin Takes("app")
  BY DEF Takes, FocusOps, KeyOps, Typing, Chords
<1>4. node.op = "batch" => (Nearest(p, tree, n, "app") = "blank" <=> node.app = "blank")
  BY BlankIsOwn
<1> HIDE DEF r, c, a, node
<1>5. /\ e.op = node.op /\ e.args = node.args /\ e.meta = node.meta /\ e.path = node.path
      /\ e.text = node.text /\ e.keys = node.keys /\ e.timing = node.timing
      /\ e.deadline = node.deadline
      /\ e.risk = r /\ e.confirm = c /\ e.app = a
  BY <1>1
<1> HIDE DEF e
<1>6. node.op \in Inputs => /\ e.risk = Nearest(p, tree, n, "risk")
                            /\ e.confirm = Nearest(p, tree, n, "confirm")
  BY <1>2, <1>3, <1>5
<1>7. /\ node.op \in KeyOps => e.app = Nearest(p, tree, n, "app")
      /\ node.op \in FocusOps => e.app = node.app
      /\ node.op = "batch" => (e.app = "blank" <=> node.app = "blank")
  BY <1>2, <1>3, <1>4, <1>5
<1> QED BY <1>5, <1>6, <1>7 DEF e, node, r, c, a

(* A node behind nodes without a fault passes when it has none itself, and *)
(* otherwise is refused for one that it has.                               *)
LEMMA OwnIssueIs ==
  ASSUME NEW tree, IsTree(tree), NEW p, NEW n \in 1 .. Len(tree),
         \A m \in 1 .. n - 1 : Faults(p, tree, m) = {}
  PROVE  \/ OwnIssue(p, tree, n) = "ok" /\ Faults(p, tree, n) = {}
         \/ OwnIssue(p, tree, n) # "ok" /\ OwnIssue(p, tree, n) \in Faults(p, tree, n)
<1> DEFINE node == tree[n]
           e == [node EXCEPT !.risk    = Effective(p, tree, "risk")[n],
                             !.confirm = Effective(p, tree, "confirm")[n],
                             !.app     = Effective(p, tree, "app")[n]]
           badDeadline == e.deadline = "odd" \/ (e.deadline = "null" /\ p = "rust")
           key == KeyIssue(e.op, e.keys)
           conf == Confirmation(p, e)
           issue == OwnIssue(p, tree, n)
           c1  == e.op \notin Commands
           c2  == n > 1 /\ e.op = "stop"
           c3  == n > 1 /\ e.op = "observe" /\ ~e.meta
           c4  == e.args = "bad"
           c5  == e.op = "observe" /\ e.meta /\ e.path
           c6  == e.op \in FocusOps /\ ~Named(e.app)
           c7  == e.op \in Typing /\ e.text = "challenge"
           c8  == e.op \in Chords /\ key # "ok"
           c9  == e.op = "batch" /\ badDeadline
           c10 == e.op = "batch" /\ e.app = "blank"
           c11 == e.op = "batch" /\ Kids(tree, n) = {}
           c12 == ActionCount(tree)[n] > MaxActions
           c13 == e.op \in KeyOps /\ ~Named(e.app)
           c14 == e.op \in Typing \cup {"move"} /\ e.timing = "odd"
           c15 == e.op \in Inputs /\ conf # "ok"
           checks == << <<c1, "bad_arg">>, <<c2, "bad_arg">>, <<c3, "bad_arg">>, <<c4, "bad_arg">>,
                        <<c5, "bad_arg">>, <<c6, "bad_arg">>, <<c7, "needs_attention">>,
                        <<c8, key>>, <<c9, "bad_arg">>, <<c10, "bad_arg">>, <<c11, "bad_arg">>,
                        <<c12, "bad_arg">>, <<c13, "focus_required">>, <<c14, "bad_arg">>,
                        <<c15, conf>> >>
           Malformed1 == c1 \/ c2 \/ c3 \/ c4 \/ c5 \/ c6 \/ c9 \/ c10 \/ c11 \/ c12 \/ c14
           Found == \/ issue = "ok" /\ ~Malformed1 /\ ~c7 /\ ~c8 /\ ~c13 /\ ~c15
                    \/ issue = "bad_arg" /\ Malformed1
                    \/ issue = "needs_attention" /\ c7
                    \/ issue = key /\ c8
                    \/ issue = "focus_required" /\ c13
                    \/ issue = conf /\ c15
<1>1. Found
  <2>1. issue = FirstIssue(checks)
    BY DEF OwnIssue
  <2> HIDE DEF c1, c2, c3, c4, c5, c6, c7, c8, c9, c10, c11, c12, c13, c14, c15, key, conf, issue
  <2>2. /\ DOMAIN checks = 1 .. 15
        /\ checks[1] = <<c1, "bad_arg">> /\ checks[2] = <<c2, "bad_arg">>
        /\ checks[3] = <<c3, "bad_arg">> /\ checks[4] = <<c4, "bad_arg">>
        /\ checks[5] = <<c5, "bad_arg">> /\ checks[6] = <<c6, "bad_arg">>
        /\ checks[7] = <<c7, "needs_attention">> /\ checks[8] = <<c8, key>>
        /\ checks[9] = <<c9, "bad_arg">> /\ checks[10] = <<c10, "bad_arg">>
        /\ checks[11] = <<c11, "bad_arg">> /\ checks[12] = <<c12, "bad_arg">>
        /\ checks[13] = <<c13, "focus_required">> /\ checks[14] = <<c14, "bad_arg">>
        /\ checks[15] = <<c15, conf>>
    OBVIOUS
  <2>3. \A i \in 1 .. 15 : \/ i = 1 \/ i = 2 \/ i = 3 \/ i = 4 \/ i = 5 \/ i = 6 \/ i = 7
                           \/ i = 8 \/ i = 9 \/ i = 10 \/ i = 11 \/ i = 12 \/ i = 13
                           \/ i = 14 \/ i = 15
    OBVIOUS
  <2> HIDE DEF checks
  <2>4. \/ issue = "ok" /\ \A i \in 1 .. 15 : ~checks[i][1]
        \/ \E i \in 1 .. 15 : checks[i][1] /\ issue = checks[i][2]
    BY <2>1, <2>2, FirstIssueIs
  <2>5. CASE issue = "ok" /\ \A i \in 1 .. 15 : ~checks[i][1]
    <3>1. /\ ~checks[1][1] /\ ~checks[2][1] /\ ~checks[3][1] /\ ~checks[4][1] /\ ~checks[5][1]
          /\ ~checks[6][1] /\ ~checks[7][1] /\ ~checks[8][1] /\ ~checks[9][1] /\ ~checks[10][1]
          /\ ~checks[11][1] /\ ~checks[12][1] /\ ~checks[13][1] /\ ~checks[14][1] /\ ~checks[15][1]
      BY <2>5
    <3> QED BY <2>2, <2>5, <3>1
  <2>6. CASE \E i \in 1 .. 15 : checks[i][1] /\ issue = checks[i][2]
    <3>1. PICK i \in 1 .. 15 : checks[i][1] /\ issue = checks[i][2]
      BY <2>6
    <3> QED BY <2>2, <2>3, <3>1
  <2> QED BY <2>4, <2>5, <2>6
<1>2. /\ e.op = node.op /\ e.args = node.args /\ e.meta = node.meta /\ e.path = node.path
      /\ e.text = node.text /\ e.keys = node.keys /\ e.timing = node.timing
      /\ e.deadline = node.deadline
      /\ node.op \in Inputs => /\ e.risk = Nearest(p, tree, n, "risk")
                               /\ e.confirm = Nearest(p, tree, n, "confirm")
      /\ node.op \in KeyOps => e.app = Nearest(p, tree, n, "app")
      /\ node.op \in FocusOps => e.app = node.app
      /\ node.op = "batch" => (e.app = "blank" <=> node.app = "blank")
  BY JudgedWith
<1>3. node.op \in Chords =>
        \/ /\ key = "ok" /\ ChordKnown(node.keys) /\ ChordComplete(node.op, node.keys)
           /\ ~ChordBlocked(node.keys)
        \/ key = "bad_arg" /\ ~(ChordKnown(node.keys) /\ ChordComplete(node.op, node.keys))
        \/ key = "blocked" /\ ChordBlocked(node.keys)
  <2>1. n \in DOMAIN tree
    BY TreeFacts
  <2>2. IsSequence(node.keys)
    BY <2>1 DEF IsTree
  <2>3. e.op = node.op /\ e.keys = node.keys
    BY <1>2
  <2> HIDE DEF e, node
  <2> QED BY <2>2, <2>3, KeyIssueIs
<1>4. LET mistyped == e.risk \notin Classes \/ e.confirm \in {"odd", "null"}
          unconfirmed == Consequential(e) /\ e.confirm # "true"
      IN  \/ conf = "ok" /\ ~mistyped /\ ~unconfirmed
          \/ conf = "bad_arg" /\ mistyped
          \/ conf = "needs_attention" /\ unconfirmed
  <2> HIDE DEF e
  <2> QED BY ConfirmationIs
<1>5. /\ node.op = "batch" => (Cardinality(Within(tree, n)) \notin 1 .. MaxActions <=> c11 \/ c12)
      /\ node.op # "batch" => ~c12
  BY <1>2, CountIs
<1> DEFINE M == Malformed(p, tree, n)
           U == Unsafe(p, tree, n)
           B == node.op \in Chords /\ ChordBlocked(node.keys)
           F == node.op \in KeyOps /\ ~Named(Nearest(p, tree, n, "app"))
<1> HIDE DEF e, key, conf, issue
<1>6. Malformed1 => M
  <2>1. c1 \/ c2 \/ c3 \/ c4 \/ c5 => M
    BY <1>2 DEF Malformed
  <2>2. c6 => M
    BY <1>2 DEF Malformed
  <2>3. c9 \/ c10 => M
    BY <1>2 DEF Malformed
  <2>4. c11 \/ c12 => M
    BY <1>2, <1>5 DEF Malformed
  <2>5. c14 => M
    BY <1>2 DEF Malformed
  <2> QED BY <2>1, <2>2, <2>3, <2>4, <2>5
<1>7. c7 => U
  BY <1>2 DEF Unsafe
<1>8. c8 => (key = "bad_arg" /\ M) \/ (key = "blocked" /\ B)
  BY <1>2, <1>3 DEF Malformed
<1>9. c13 => F
  BY <1>2
<1>10. c15 => (conf = "bad_arg" /\ M) \/ (conf = "needs_attention" /\ U)
  <2>1. node.op \in Inputs /\ (e.risk \notin Classes \/ e.confirm \in {"odd", "null"}) => M
    BY <1>2 DEF Malformed
  <2>2. node.op \in Inputs /\ Consequential(e) /\ e.confirm # "true" => U
    BY <1>2 DEF Unsafe, Consequential
  <2> QED BY <1>2, <1>4, <2>1, <2>2
<1>11. ASSUME ~Malformed1, ~c7, ~c8, ~c13, ~c15 PROVE ~M /\ ~U /\ ~B /\ ~F
  <2>1. node.op \in Inputs => /\ e.risk \in Classes /\ e.confirm \notin {"odd", "null"}
                              /\ ~(Consequential(e) /\ e.confirm # "true")
    BY <1>2, <1>4, <1>11
  <2>2. node.op \in Chords => /\ ChordKnown(node.keys) /\ ChordComplete(node.op, node.keys)
                              /\ ~ChordBlocked(node.keys)
    BY <1>2, <1>3, <1>11
  <2>3. ~M
    <3>1. node.op \in Commands /\ node.args # "bad" /\ ~(node.op = "stop" /\ n > 1)
      BY <1>2, <1>11
    <3>2. node.op = "observe" => ~(n > 1 /\ ~node.meta) /\ ~(node.meta /\ node.path)
      BY <1>2, <1>11
    <3>3. node.op \in FocusOps => Named(node.app)
      BY <1>2, <1>11
    <3>4. node.op \in Typing \cup {"move"} => node.timing # "odd"
      BY <1>2, <1>11
    <3>5. node.op = "batch" => /\ ~(node.deadline = "odd" \/ (node.deadline = "null" /\ p = "rust"))
                               /\ node.app # "blank"
                               /\ Cardinality(Within(tree, n)) \in 1 .. MaxActions
      BY <1>2, <1>5, <1>11
    <3>6. node.op \in Inputs => /\ Nearest(p, tree, n, "risk") \in Classes
                                /\ Nearest(p, tree, n, "confirm") \notin {"odd", "null"}
      BY <1>2, <2>1
    <3> QED BY <2>2, <3>1, <3>2, <3>3, <3>4, <3>5, <3>6 DEF Malformed
  <2>4. ~U
    <3>1. ~(node.op \in Typing /\ node.text = "challenge")
      BY <1>2, <1>11
    <3> QED BY <1>2, <2>1, <3>1 DEF Unsafe, Consequential
  <2>5. ~B /\ ~F
    BY <1>2, <1>11, <2>2
  <2> QED BY <2>3, <2>4, <2>5
<1>12. /\ M => "bad_arg" \in Faults(p, tree, n)
       /\ U => "needs_attention" \in Faults(p, tree, n)
       /\ B => "blocked" \in Faults(p, tree, n)
       /\ F => "focus_required" \in Faults(p, tree, n)
       /\ ~M /\ ~U /\ ~B /\ ~F => Faults(p, tree, n) = {}
  BY DEF Faults
<1> DEFINE faults == Faults(p, tree, n)
<1> HIDE DEF M, U, B, F, Malformed1, c7, c8, c13, c15, faults
<1>13. \/ issue = "ok" /\ faults = {}
       \/ issue # "ok" /\ issue \in faults
  BY <1>1, <1>6, <1>7, <1>8, <1>9, <1>10, <1>11, <1>12 DEF faults
<1> QED BY <1>13 DEF issue, faults

(* The verdict on a tree is the one it deserves: the first node that the   *)
(* recursion refuses is the first one that has a fault.                    *)
LEMMA PreflightIs ==
  ASSUME NEW p, NEW tree, IsTree(tree)
  PROVE  /\ VerdictRight(p, tree, Preflight(p, tree))
         /\ Preflight(p, tree) = "ok" => \A n \in 1 .. Len(tree) : Faults(p, tree, n) = {}
<1> DEFINE D == DOMAIN tree
           bad == {n \in D : Faults(p, tree, n) # {}}
           issue == [n \in D |-> OwnIssue(p, tree, n)]
           faulty == {n \in D : issue[n] # "ok"}
<1>1. Len(tree) \in Nat /\ D = 1 .. Len(tree)
  BY TreeFacts
<1>2. \A S \in SUBSET D : S \in SUBSET Int /\ IsFiniteSet(S)
  <2>1. IsFiniteSet(D) /\ D \in SUBSET Int
    BY <1>1, FS_Interval
  <2> HIDE DEF D
  <2> QED BY <2>1, FS_Subset
<1>3. ASSUME NEW n \in D, \A m \in 1 .. n - 1 : Faults(p, tree, m) = {}
      PROVE  \/ n \notin faulty /\ Faults(p, tree, n) = {}
             \/ n \in faulty /\ issue[n] \in Faults(p, tree, n)
  BY <1>1, <1>3, OwnIssueIs
<1>4. Preflight(p, tree) = IF faulty = {} THEN "ok" ELSE issue[Min(faulty)]
  BY DEF Preflight
<1>5. CASE bad = {}
  <2>1. faulty = {}
    BY <1>1, <1>3, <1>5
  <2> QED BY <1>1, <1>4, <1>5, <2>1 DEF VerdictRight
<1>6. CASE bad # {}
  <2> DEFINE f == Min(bad)
  <2>1. f \in D /\ Faults(p, tree, f) # {} /\ \A m \in bad : f <= m
    <3>1. bad \in SUBSET D
      OBVIOUS
    <3> QED BY <1>2, <1>6, <3>1, MinIsLeast
  <2> HIDE DEF f
  <2>2. \A m \in 1 .. f - 1 : m \in D /\ Faults(p, tree, m) = {}
    BY <1>1, <2>1
  <2>3. f \in faulty /\ issue[f] \in Faults(p, tree, f)
    BY <1>3, <2>1, <2>2
  <2>4. \A m \in 1 .. f - 1 : m \notin faulty
    BY <1>1, <1>3, <2>1, <2>2
  <2>5. Min(faulty) = f
    <3>1. faulty \in SUBSET D /\ faulty # {}
      BY <2>3
    <3>2. Min(faulty) \in faulty /\ Min(faulty) <= f
      BY <1>2, <2>3, <3>1, MinIsLeast
    <3>3. \A q \in D : q <= f /\ q \notin 1 .. f - 1 => q = f
      BY <1>1, <2>1
    <3> QED BY <2>4, <3>1, <3>2, <3>3
  <2>6. Preflight(p, tree) # "ok" /\ Preflight(p, tree) \in Faults(p, tree, f)
    BY <1>4, <2>3, <2>5
  <2> QED BY <1>6, <2>6 DEF VerdictRight, f
<1> QED BY <1>5, <1>6

(* The chord that is posted is the chord that was asked for.               *)
LEMMA OneChordHolds ==
  ASSUME NEW p, NEW tree, IsTree(tree), \A n \in 1 .. Len(tree) : Faults(p, tree, n) = {}
  PROVE  OneChord(tree)
<1> SUFFICES ASSUME NEW n \in DOMAIN tree, tree[n].op \in Chords
             PROVE  \/ PostedChord(tree[n].keys) = Chord(tree[n].keys)
                    \/ /\ "win" \in Held(tree[n].keys)
                       /\ PostedChord(tree[n].keys).key = "unsupported"
  BY DEF OneChord
<1>1. Faults(p, tree, n) = {} /\ IsSequence(tree[n].keys)
  BY TreeFacts DEF IsTree
<1>2. ~Malformed(p, tree, n)
  BY <1>1 DEF Faults
<1>3. ChordComplete(tree[n].op, tree[n].keys)
  BY <1>2 DEF Malformed
<1> QED BY <1>1, <1>3, PostedIs DEF ChordComplete

-----------------------------------------------------------------------------
(* What is admitted, and what is refused, is what the policy said of the   *)
(* plan that the command still has.                                        *)
PlanInv ==
  /\ mpc = "words" => request.args # <<>>
  /\ mpc = "admitted" => Preflight(port, plan) = "ok"
  /\ mpc = "answered" /\ answer \in Codes /\ request.args = <<>> /\ op # "observe"
       => answer = Preflight(port, plan)

LEMMA KeepsPlan ==
  ASSUME PlanInv, UNCHANGED <<request, plan, mpc, answer>>
  PROVE  PlanInv'
BY DEF PlanInv, op, port

LEMMA NextKeepsPlan == FocusInv /\ PlanInv /\ [Next]_vars => PlanInv'
<1> SUFFICES ASSUME FocusInv, PlanInv, [Next]_vars PROVE PlanInv'
  OBVIOUS
<1>1. ASSUME Prepare PROVE PlanInv'
  <2>1. CASE ParseWords
    <3>1. request' = request /\ mpc' \in {"policy", "answered"} /\ request.args # <<>>
      BY <2>1 DEF ParseWords, Goes, Answers, PlanInv
    <3> QED BY <3>1 DEF PlanInv
  <2>2. CASE ApplyPolicy
    <3>1. UNCHANGED call
      BY <2>2 DEF ApplyPolicy
    <3>2. CASE Preflight(port, plan) = "ok"
      BY <2>2, <3>1, <3>2 DEF ApplyPolicy, Judge, Goes, PlanInv, call, port
    <3>3. CASE Preflight(port, plan) # "ok"
      BY <2>2, <3>1, <3>3 DEF ApplyPolicy, Judge, Answers, PlanInv, call, port, op
    <3> QED BY <3>2, <3>3
  <2>3. CASE AnswerAtOnce
    <3>1. mpc' = "answered" /\ answer' \notin Codes
      BY <2>3 DEF AnswerAtOnce, Answers, Codes
    <3> QED BY <3>1 DEF PlanInv
  <2>4. CASE Observe
    <3>1. op = "observe" /\ UNCHANGED call /\ mpc' = "answered"
      BY <2>4 DEF Observe, Answers
    <3> QED BY <3>1 DEF PlanInv, call, op
  <2>5. CASE Dispatch
    <3>1. mpc' \in {"jxa", "list"}
      BY <2>5 DEF Dispatch, Starts, Goes
    <3> QED BY <3>1 DEF PlanInv
  <2> QED BY <1>1, <2>1, <2>2, <2>3, <2>4, <2>5 DEF Prepare
<1>2. ASSUME GoOn PROVE PlanInv'
  <2>1. mpc' \notin {"words", "admitted"} /\ (mpc' = "answered" => answer' \notin Codes)
    <3>1. CASE ActivationEnds
      BY <3>1 DEF ActivationEnds, Starts, Goes, Answers, Codes
    <3> QED BY <1>2, <3>1 DEF GoOn, ListEnds, ScriptSaysNothing, ActiveWindow, FocusShown,
            Activate, LookAgain, NotYet, GiveUp, Starts, Goes, Answers, Codes, LookCodes
  <2> QED BY <2>1 DEF PlanInv
<1>3. ASSUME ChildGoesOn \/ (Hang /\ Others) \/ RunnerGoesOn \/ (TimeIsUp /\ Others)
             \/ FiveSeconds \/ UNCHANGED vars
      PROVE  PlanInv'
  <2>1. UNCHANGED <<request, plan, mpc, answer>>
    BY <1>3 DEF ChildGoesOn, See, Work, RunnerGoesOn, Others, FiveSeconds, vars, call
  <2> QED BY <2>1, KeepsPlan
<1> QED BY <1>1, <1>2, <1>3 DEF Next

(* What is admitted has no fault, however deep an action is nested and     *)
(* wherever it takes its risk, confirmation and app from, and is run with  *)
(* the app and the chord it was admitted with; what is refused is refused  *)
(* for a fault of its first faulty action: for trees of every size and     *)
(* depth and chords of every length (validation.rs preflight_batch,        *)
(* controller.rs dynamic_preflight and batch).                             *)
THEOREM PlanIsRight == Spec => []PlanRight
<1> DEFINE All == FocusAll /\ TypeOK /\ RequestInv /\ PlanInv
<1>1. Init => All
  <2>1. Init => PlanInv
    BY DEF Init, PlanInv, Codes
  <2> QED BY <2>1, InitReadInv, InitFocus, TypeInit DEF FocusAll
<1>2. All /\ [Next]_vars => All'
  BY NextKeepsFocus, TypeNext, NextKeepsPlan DEF FocusAll
<1>3. All => PlanRight
  <2> SUFFICES ASSUME RequestInv, PlanInv PROVE PlanRight
    OBVIOUS
  <2>1. /\ VerdictRight(port, plan, Preflight(port, plan))
        /\ OneTarget(port, plan)
        /\ Preflight(port, plan) = "ok" => OneChord(plan)
    BY PreflightIs, OneTargetHolds, OneChordHolds DEF RequestInv
  <2> QED BY <2>1 DEF PlanInv, PlanRight
<1> QED BY <1>1, <1>2, <1>3, PTL DEF Spec
=============================================================================
