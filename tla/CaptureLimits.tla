---------------------------- MODULE CaptureLimits ----------------------------
(***************************************************************************)
(* What an observation may capture: the region must lie inside the         *)
(* reported layout, the layout must be made of its displays, and the       *)
(* worst-case bytes of the capture must fit the store's limit.             *)
(*   rust    src/desktop/rust/src/frames.rs, and observe of controller.rs: *)
(*           machine integers, checked or saturating                       *)
(*   python  src/desktop/frames.py, and _observe of controller.py:         *)
(*           unbounded integers                                            *)
(* The widths and the byte constants are parameters, so that every sum and *)
(* product of the code overflows in a small instance.                      *)
(***************************************************************************)
EXTENDS Integers, FiniteSets, FiniteSetsExt

CONSTANTS
  MaxInt,    \* i64::MAX; i64::MIN is -MaxInt - 1
  MaxSize,   \* usize::MAX
  Limit,     \* max_bytes of the store
  Metadata,  \* bytes of the result beside the image
  HeadDiv,   \* PNG overhead: one byte in HeadDiv (100), ...
  HeadBytes, \* ... and a constant (65,536)
  PathBytes  \* bytes set aside for a path

ASSUME CaptureAssumption ==
  /\ MaxInt \in Nat /\ MaxSize \in Nat /\ MaxInt <= MaxSize
  /\ Limit \in 1 .. MaxSize
  /\ Metadata \in Nat /\ HeadBytes \in Nat /\ PathBytes \in Nat
  /\ HeadDiv \in Nat \ {0}

Int64 == -MaxInt - 1 .. MaxInt
Deliveries == {"base64", "metadata", "path"}

(* A rectangle of the screen: of a display, a layout or a region.          *)
Right(r)  == r.x + r.w
Bottom(r) == r.y + r.h
Inside(r, s) ==
  /\ s.x <= r.x /\ s.y <= r.y
  /\ Right(r) <= Right(s) /\ Bottom(r) <= Bottom(s)

(* What the two ports hold in a coordinate, and what a caller's region is  *)
(* when its words were validated.                                          *)
Coordinates(port) == IF port = "rust" THEN Int64 ELSE Int
RectTyped(port, r) == \A v \in {r.x, r.y, r.w, r.h} : v \in Coordinates(port)
LayoutTyped(port, layout) ==
  /\ RectTyped(port, layout.bounds)
  /\ IsFiniteSet(layout.displays)
  /\ \A d \in layout.displays : RectTyped(port, d)
RegionTyped(port, r) == RectTyped(port, r) /\ r.w > 0 /\ r.h > 0

-----------------------------------------------------------------------------
(* Arithmetic of the machine.                                              *)

(* checked_add and checked_sub on i64 have a result.                       *)
FitsInt(n) == n \in Int64

Saturating(n) == IF n > MaxInt THEN MaxInt
                 ELSE IF n < -MaxInt - 1 THEN -MaxInt - 1 ELSE n

(* checked operations on usize; one that goes wrong ends the computation.  *)
Overflow == -1
Size(n) == IF n \in 0 .. MaxSize THEN n ELSE Overflow
Add(n, m) == IF Overflow \in {n, m} THEN Overflow ELSE Size(n + m)
Times(n, k) == IF n = Overflow THEN Overflow ELSE Size(n * k)
Over(n, k) == IF n = Overflow THEN Overflow ELSE n \div k

-----------------------------------------------------------------------------
(* DisplayLayout::validate.  A layout is its bounds and its displays.      *)

Lefts(layout)   == {d.x : d \in layout.displays}
Tops(layout)    == {d.y : d \in layout.displays}
Rights(layout)  == {Right(d) : d \in layout.displays}
Bottoms(layout) == {Bottom(d) : d \in layout.displays}

(* The smallest rectangle around the displays.                             *)
Hull(layout) ==
  [x |-> Min(Lefts(layout)), y |-> Min(Tops(layout)),
   w |-> Max(Rights(layout)) - Min(Lefts(layout)),
   h |-> Max(Bottoms(layout)) - Min(Tops(layout))]

PositiveBounds(layout) ==
  /\ layout.bounds.w > 0 /\ layout.bounds.h > 0
  /\ layout.displays # {}
  /\ \A d \in layout.displays : d.w > 0 /\ d.h > 0

LayoutFits(layout) ==
  /\ \A d \in layout.displays : FitsInt(Right(d)) /\ FitsInt(Bottom(d))
  /\ FitsInt(Hull(layout).w) /\ FitsInt(Hull(layout).h)

ValidLayout(port, layout) ==
  /\ PositiveBounds(layout)
  /\ port = "rust" => LayoutFits(layout)
  /\ layout.bounds = Hull(layout)

-----------------------------------------------------------------------------
(* The region.                                                             *)

(* observe, before anything is captured: Rust's sums saturate, on a layout *)
(* that is not validated yet.                                              *)
RoughlyInside(port, r, bounds) ==
  IF port = "python" THEN Inside(r, bounds)
  ELSE /\ bounds.x <= r.x /\ bounds.y <= r.y
       /\ Saturating(Right(r)) <= Saturating(Right(bounds))
       /\ Saturating(Bottom(r)) <= Saturating(Bottom(bounds))

(* contains_region, after the capture: a sum that overflows is outside.    *)
ContainsRegion(layout, r) ==
  /\ r.w > 0 /\ r.h > 0
  /\ FitsInt(Right(r)) /\ FitsInt(Right(layout.bounds))
  /\ FitsInt(Bottom(r)) /\ FitsInt(Bottom(layout.bounds))
  /\ Inside(r, layout.bounds)

-----------------------------------------------------------------------------
(* The bytes: preflight_capture's chain of checked operations.             *)

(* Mutant: the product wraps.                                              *)
PixelsWrap(w, h) == (w * h) % (MaxSize + 1)

Pixels(w, h) == Size(w * h)

PngBound(raw) == Add(Add(raw, Over(raw, HeadDiv)), HeadBytes)

Base64(png) == Times(Over(Add(png, 2), 3), 4)

RustTotal(w, h, delivery) ==
  LET raw == Times(Pixels(w, h), 4)
      png == PngBound(raw)
      base64 == IF delivery = "base64" THEN Base64(png) ELSE 0
  IN  Add(Add(Add(raw, png), base64), Metadata)

(* capture_budget: the raw capture, its packed copy, and the encoded image *)
(* three times while it is made.                                           *)
PythonPng(w, h) == LET lines == h * (1 + w * 3) IN lines + lines \div HeadDiv + HeadBytes

PythonTotal(w, h, delivery) ==
  LET png == IF delivery = "metadata" THEN 0 ELSE PythonPng(w, h)
      base64 == IF delivery = "base64" THEN ((png + 2) \div 3) * 4 ELSE 0
  IN  w * h * 4 + w * h * 3 + png + png * 2 + base64
        + Metadata + base64 + (IF delivery = "path" THEN PathBytes ELSE 0)

Fits(port, w, h, delivery) ==
  LET total == IF port = "rust" THEN RustTotal(w, h, delivery) ELSE PythonTotal(w, h, delivery)
  IN  w > 0 /\ h > 0 /\ total # Overflow /\ total <= Limit

-----------------------------------------------------------------------------
(* What observe answers, when every read of the desktop succeeds.  Python  *)
(* validates the layout first.                                             *)
RustObservation(layout, r, delivery) ==
  IF layout.bounds.w <= 0 \/ layout.bounds.h <= 0 THEN "exec_failed"
  ELSE IF ~RoughlyInside("rust", r, layout.bounds) THEN "bad_arg"
  ELSE IF /\ ValidLayout("rust", layout)
          /\ Fits("rust", r.w, r.h, delivery)
          /\ ContainsRegion(layout, r)
       THEN "ok" ELSE "exec_failed"

PythonObservation(layout, r, delivery) ==
  IF ~ValidLayout("python", layout) THEN "exec_failed"
  ELSE IF ~RoughlyInside("python", r, layout.bounds) THEN "bad_arg"
  ELSE IF Fits("python", r.w, r.h, delivery) THEN "ok" ELSE "exec_failed"

Observation(port, layout, r, delivery) ==
  IF port = "rust" THEN RustObservation(layout, r, delivery)
  ELSE PythonObservation(layout, r, delivery)

-----------------------------------------------------------------------------
(* The exact arithmetic the code must agree with.                          *)

ExactRust(w, h, delivery) ==
  LET raw == w * h * 4
      png == raw + raw \div HeadDiv + HeadBytes
      base64 == IF delivery = "base64" THEN ((png + 2) \div 3) * 4 ELSE 0
  IN  raw + png + base64 + Metadata

(* A pixel of the region is on the screen as its displays bound it.        *)
OnScreen(layout, r) ==
  \A x \in r.x .. Right(r) - 1, y \in r.y .. Bottom(r) - 1 :
    /\ \E d \in layout.displays : d.x <= x
    /\ \E d \in layout.displays : x < Right(d)
    /\ \E d \in layout.displays : d.y <= y
    /\ \E d \in layout.displays : y < Bottom(d)
=============================================================================
