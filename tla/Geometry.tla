------------------------------ MODULE Geometry -------------------------------
(***************************************************************************)
(* Where and how large the window is (core/geometry.rs, app/ui_manager.rs, *)
(* ADR-22).  At start the program asks the window system for what was      *)
(* saved, twice, and the window system does it when it likes and as it     *)
(* likes; every tick reads how the window is, and a reading that the       *)
(* program has not caused counts as the user's, which starts the deadline  *)
(* of writing.                                                             *)
(***************************************************************************)
EXTENDS Integers

CONSTANTS Sizes,     \* sizes of a window that is neither maximized nor full
          Tiny,      \* those of them outside 200..8000
          Positions

Unset == "unset"
FirstSize == "first"      \* 1200 x 760, when nothing is saved
Screen == "screen"        \* of a window that is maximized or full

ASSUME GeometryAssumption == Tiny \subseteq Sizes /\ Screen \notin Sizes

VARIABLES
  kept,       \* the window of the session state: [size, pos, max, full]
  restored,   \*   as it was at start
  wayland,    \* whether the position is unknown to the program
  real,       \* the window: [shown, size, normal, pos, max, full]
  asked,      \* what the window system has still to do
  remembered, awaiting,   \* GeometryTracker
  due,        \* whether a change of the window has started the deadline
  acted, late,   \* for the properties: the user has done something; the first
                 \* reading came before the window system was done
  stage       \* "built", "shown" or "left"

geoVars == <<kept, restored, wayland, real, asked, remembered, awaiting, due, acted, late, stage>>

Geometries == [size : Sizes \cup {Unset}, pos : Positions \cup {Unset}, max : BOOLEAN, full : BOOLEAN]

\* apply_window_geometry.
Asked ==
  {[what |-> "size", to |-> IF kept.size = Unset THEN FirstSize ELSE kept.size] :
     x \in IF kept.size \in Tiny THEN {} ELSE {0}}
  \cup {[what |-> "pos", to |-> kept.pos] : x \in IF kept.pos = Unset \/ wayland THEN {} ELSE {0}}
  \cup {[what |-> "max", to |-> "on"] : x \in IF kept.max THEN {0} ELSE {}}
  \cup {[what |-> "full", to |-> "on"] : x \in IF kept.full THEN {0} ELSE {}}

\* ui.show(), window_shown and the second application.
Show ==
  /\ stage = "built" /\ stage' = "shown"
  /\ awaiting' = TRUE
  /\ real' = [real EXCEPT !.shown = TRUE]
  /\ asked' = Asked
  /\ UNCHANGED <<kept, restored, wayland, remembered, due, acted, late>>

\* How the window is once its ordinary size, place and state are these.
Window(normal, pos, max, full) ==
  [shown |-> real.shown, normal |-> normal, pos |-> pos, max |-> max, full |-> full,
   size |-> IF max \/ full THEN Screen ELSE normal]

\* The window system does one of the things it was asked, sizes and places as
\* it likes.
SystemDoes ==
  stage # "left" /\
  \E a \in asked :
    /\ asked' = asked \ {a}
    /\ \/ a.what = "size" /\ \E s \in Sizes \cup {FirstSize} :
                               real' = Window(s, real.pos, real.max, real.full)
       \/ a.what = "pos" /\ \E p \in Positions : real' = Window(real.normal, p, real.max, real.full)
       \/ a.what = "max" /\ real' = Window(real.normal, real.pos, TRUE, real.full)
       \/ a.what = "full" /\ real' = Window(real.normal, real.pos, real.max, TRUE)
    /\ UNCHANGED <<kept, restored, wayland, remembered, awaiting, due, acted, late, stage>>

UserActs ==
  /\ stage = "shown"
  /\ \/ /\ ~real.max /\ ~real.full
        /\ \E s \in Sizes, p \in Positions : real' = Window(s, p, FALSE, FALSE)
     \/ real' = Window(real.normal, real.pos, ~real.max, real.full)
     \/ real' = Window(real.normal, real.pos, real.max, ~real.full)
     \/ real' = [real EXCEPT !.shown = ~@]
  /\ acted' = TRUE
  /\ UNCHANGED <<kept, restored, wayland, asked, remembered, awaiting, due, late, stage>>

\* Mutant: the size is read whatever state the window is in.
ReadingAlways ==
  [kept EXCEPT !.full = real.full, !.max = real.max,
               !.size = real.size,
               !.pos = IF wayland THEN @ ELSE real.pos]

\* window_geometry: in an ordinary window the size and, if there is one, the
\* place; in any other what was kept.
Reading ==
  LET ordinary == ~real.full /\ ~real.max
  IN [kept EXCEPT !.full = real.full, !.max = real.max,
                  !.size = IF ordinary THEN real.size ELSE @,
                  !.pos = IF ordinary /\ ~wayland THEN real.pos ELSE @]

\* tick: observe, and StateChange::Window under the origin it says.
GeometryTick ==
  /\ stage = "shown" /\ real.shown
  /\ late' = (late \/ (awaiting /\ asked # {}))
  /\ awaiting' = FALSE
  /\ remembered' = Reading
  /\ kept' = IF ~awaiting /\ remembered = Reading THEN kept ELSE Reading
  /\ due' = (due \/ (~awaiting /\ remembered # Reading))
  /\ UNCHANGED <<restored, wayland, real, asked, acted, stage>>

\* exit: the last reading, before the last snapshots.
Leave ==
  /\ stage = "shown" /\ stage' = "left"
  /\ kept' = IF real.shown THEN Reading ELSE kept
  /\ due' = (due \/ kept' # kept)
  /\ UNCHANGED <<restored, wayland, real, asked, remembered, awaiting, acted, late>>

GeometryInit ==
  /\ restored \in Geometries /\ kept = restored /\ remembered = restored
  /\ wayland \in BOOLEAN /\ awaiting = FALSE /\ stage = "built"
  /\ asked = {} /\ due = FALSE /\ acted = FALSE /\ late = FALSE
  /\ \E s \in Sizes, p \in Positions :
       real = [shown |-> FALSE, size |-> s, normal |-> s, pos |-> p, max |-> FALSE, full |-> FALSE]

GeometryNext == Show \/ SystemDoes \/ UserActs \/ GeometryTick \/ Leave

GeometrySpec == GeometryInit /\ [][GeometryNext]_geoVars

-----------------------------------------------------------------------------

\* The size of a maximized or full window is never kept as its ordinary one; and
\* as long as the user has done nothing, what was restored costs no writing and
\* is not lost: neither that the window was maximized nor the size under it.
\* Known exception: a window system that does what it was asked after the first
\* reading, or not before the exit.
GeometryIsTheUsers ==
  /\ kept.size # Screen
  /\ ~acted /\ ~late /\ (stage = "left" => asked = {}) =>
       /\ stage # "left" => ~due
       /\ kept.max = restored.max /\ kept.full = restored.full
       /\ kept.max \/ kept.full => kept.size = restored.size /\ kept.pos = restored.pos
=============================================================================
