-------------------------------- MODULE Wheel --------------------------------
(***************************************************************************)
(* From the scrolling of a wheel, a touchpad or the tray icon to steps of  *)
(* the volume (platform/input, core/volume.rs).  The window system reports *)
(* a scrolling twice: the filter of the window puts it aside, and then the *)
(* slider, if the pointer is over it, is told an offset and looks for the  *)
(* event it belongs to.  On macOS a monitor sees every scrolling of the    *)
(* program first and leaves a mark that says whether it is inertia.        *)
(*                                                                         *)
(* Offsets are in logical pixels of Slint: a line is 60, and a step of the *)
(* touchpad is 30 or half a line, the same.  Ages are in units of 100 ms.  *)
(* wheel_table.toml gives each class of device its default rule in every   *)
(* row, so the rule depends on the class alone.                            *)
(***************************************************************************)
EXTENDS Integers, Sequences

CONSTANTS Offsets,    \* of the window's events and of the slider's
          TrayDeltas, \* of the tray's events
          Desktops,   \* windows, macos or another one
          StartVolumes

ASSUME WheelAssumption == Offsets \subseteq Int /\ TrayDeltas \subseteq Int
                          /\ StartVolumes \subseteq 0..100

Line == 60          \* SLINT_WHEEL_CLICK_PX
StepPx == 30        \* threshold_px, and threshold_lines of a Line
MaxSteps == 5       \* max_steps
SwipeGap == 3       \* swipe_gap_ms
IntegerAfter == 2   \* integer_after_fraction_ms
Long == 4           \* ages from here on are one
MarkCap == 64       \* MOMENTUM_QUEUE_CAP
VolumeStep == 2     \* VOLUME_STEP_PCT
Never == Long
NoAge == -1         \* there was no event
Abs(n) == IF n < 0 THEN -n ELSE n
Clamp(n, lo, hi) == IF n < lo THEN lo ELSE IF n > hi THEN hi ELSE n

\* Division of whole numbers towards zero.
Quotient(n, d) == IF n < 0 THEN -((-n) \div d) ELSE n \div d

VARIABLES
  desktop,    \* current_desktop
  attached,   \* whether the filter is registered
  pending,    \* WheelMatcher: the event without its pair, if there is one
  marks,      \* WheelMatcher: marks of the monitor
  touch,      \* TouchState: [acc, steps, age], and whether there was an event
  fraction,   \* age of the last fractional line event
  direction,  \* touch_direction: 1, or -1 for UpNegative
  system,     \* what the system's setting says now
  tray,       \* TrayState and host: [acc, first, host]
  volume, blocked,   \* of the active mode; whether volume_block or bit_perfect hold it
  moved, cut,        \* for the properties: pixels of this swipe; limit reached
  scrolled, clean,   \*   units over the tray icon, and whether they are of one host
  coasted, astray    \*   inertia that did something; a mark that nobody took

matchVars == <<pending, marks, astray>>
swipeVars == <<touch, fraction, direction, moved, cut, coasted>>
trayVars  == <<tray, scrolled, clean>>
wheelVars == <<desktop, attached, matchVars, swipeVars, system, trayVars, volume, blocked>>

NoTouch == [acc |-> 0, steps |-> 0, age |-> NoAge]

-----------------------------------------------------------------------------
(* The events of the window                                                 *)

MarkOf(precise, dy, inertia) == [precise |-> precise, abs |-> Abs(dy), inertia |-> inertia]

\* push_mark, on macOS.
Marked(precise, dy, inertia) ==
  IF desktop # "macos" THEN marks
  ELSE LET room == IF Len(marks) >= MarkCap THEN Tail(marks) ELSE marks
       IN Append(room, MarkOf(precise, dy, inertia))

\* push_winit_marked: the mark in front, if it agrees with the event.
InertiaOf(queue, precise, dy) ==
  /\ queue # <<>>
  /\ Head(queue).precise = precise /\ Head(queue).abs = Abs(dy)
  /\ Head(queue).inertia

\* The filter of the window: what waits for its pair is replaced.
WindowEvent(precise, dy, inertia) ==
  /\ attached
  /\ inertia => desktop = "macos"
  /\ LET queue == Marked(precise, dy, inertia)
     IN /\ pending' = <<[precise |-> precise, dy |-> dy, really |-> inertia,
                        inertia |-> desktop = "macos" /\ InertiaOf(queue, precise, dy)]>>
        /\ marks' = IF queue = <<>> THEN queue ELSE Tail(queue)
  /\ UNCHANGED <<desktop, attached, astray, swipeVars, system, trayVars, volume, blocked>>

\* An event that the monitor sees and the filter does not: over a panel of
\* the system, or pixels under a scale that is not valid.
EventElsewhere(precise, dy, inertia) ==
  /\ attached /\ desktop = "macos"
  /\ marks' = Marked(precise, dy, inertia) /\ astray' = TRUE
  /\ UNCHANGED <<desktop, attached, pending, swipeVars, system, trayVars, volume, blocked>>

-----------------------------------------------------------------------------
(* The slider                                                               *)

\* apply_volume.
Stepped(clicks) == IF blocked THEN volume
                   ELSE Clamp(volume + VolumeStep * clicks, 0, 100)

\* touch_idle.
TouchIdle == touch.age = NoAge \/ touch.age > SwipeGap

\* Mutant: the limit counts the steps up only.
StepLimitUpwards(steps) == IF steps > MaxSteps THEN 0 ELSE MaxSteps - steps

\* What is left of the steps of a swipe.
StepLimit(steps) == IF Abs(steps) > MaxSteps THEN 0 ELSE MaxSteps - Abs(steps)

\* touch_step, under the direction dir.
TouchStep(dy, dir) ==
  LET new   == touch.age # NoAge /\ touch.age > SwipeGap
      acc   == IF new THEN 0 ELSE touch.acc
      steps == IF new THEN 0 ELSE touch.steps
      sum   == acc + dir * dy
      whole == Quotient(sum, StepPx)
      limit == StepLimit(steps)
      k     == Clamp(whole, -limit, limit)
  IN /\ touch' = [acc |-> sum - StepPx * whole, steps |-> steps + k, age |-> 0]
     /\ moved' = (IF new THEN 0 ELSE moved) + dir * dy
     /\ cut' = ((cut /\ ~new) \/ k # whole)
     /\ volume' = Stepped(k)

\* A wheel ends the swipe.
Division(dy) == /\ touch' = NoTouch /\ moved' = 0 /\ cut' = FALSE
                /\ volume' = Stepped(Quotient(dy, Line))

\* classify.
Fractional(ev) == ~ev.precise /\ ev.dy % Line # 0
IsTouchpad(ev) == \/ ev.precise
                  \/ Fractional(ev)
                  \/ desktop = "windows" /\ fraction <= IntegerAfter

\* slider, for an event with its pair.
Paired(ev, dir) ==
  IF ev.inertia THEN UNCHANGED <<touch, fraction, moved, cut, volume>>
  ELSE /\ fraction' = IF Fractional(ev) THEN 0 ELSE fraction
       /\ IF IsTouchpad(ev) THEN TouchStep(ev.dy, dir) ELSE Division(ev.dy)

\* slider_unpaired.
Unpaired(dy, dir) ==
  /\ UNCHANGED fraction
  /\ CASE dy = 0 -> UNCHANGED <<touch, moved, cut, volume>>
       [] dy # 0 /\ dy % Line = 0 -> Division(dy)
       [] OTHER -> TouchStep(dy, dir)

\* volume-scroll and slider_scroll: what waits is taken even if it does not
\* match, and the direction is read anew when no swipe goes on.
SliderScroll(dy) ==
  LET dir  == IF TouchIdle THEN system ELSE direction
      pair == pending # <<>> /\ pending[1].dy = dy
  IN /\ direction' = dir
     /\ IF pair THEN Paired(pending[1], dir) ELSE Unpaired(dy, dir)
     /\ coasted' = (coasted \/ (pair /\ pending[1].really /\ <<touch', volume'>> # <<touch, volume>>))
     /\ pending' = <<>>
     /\ UNCHANGED <<desktop, attached, marks, astray, system, trayVars, blocked>>

-----------------------------------------------------------------------------
(* The tray icon                                                            *)

\* Whole clicks of a host; 0 is the first event's own size.
TrayDivision(host) == CASE host = "kde" -> 120 [] host = "gnome" -> 1 [] OTHER -> 0
TraySign(host) == IF host = "gnome" THEN -1 ELSE 1

TrayScroll(delta) ==
  /\ delta # 0
  /\ LET first == IF TrayDivision(tray.host) = 0 /\ tray.first = 0 THEN Abs(delta)
                  ELSE tray.first
         div == IF TrayDivision(tray.host) = 0 THEN first ELSE TrayDivision(tray.host)
         acc == tray.acc + TraySign(tray.host) * delta
         k == Quotient(acc, div)
     IN /\ tray' = [tray EXCEPT !.acc = acc - div * k, !.first = first]
        /\ volume' = Stepped(k)
        /\ scrolled' = [px |-> scrolled.px + TraySign(tray.host) * delta,
                        clicks |-> scrolled.clicks + k]
  /\ UNCHANGED <<desktop, attached, matchVars, swipeVars, system, clean, blocked>>

\* set_tray_host, once: the thread of the tray has found out.
HostFound(host) ==
  /\ tray.host = "unknown"
  /\ tray' = [tray EXCEPT !.host = host]
  /\ clean' = (clean /\ tray.acc = 0)
  /\ scrolled' = [px |-> 0, clicks |-> 0]
  /\ UNCHANGED <<desktop, attached, matchVars, swipeVars, system, volume, blocked>>

-----------------------------------------------------------------------------

Older(age) == IF age = NoAge THEN NoAge ELSE Clamp(age + 1, 0, Long)

\* end_tick: what waits for its pair is dropped; time passes.
TickEnds ==
  /\ pending' = <<>>
  /\ touch' = [touch EXCEPT !.age = Older(touch.age)]
  /\ fraction' = Older(fraction)
  /\ UNCHANGED <<desktop, attached, marks, astray, direction, moved, cut, coasted,
                 system, trayVars, volume, blocked>>

\* The user turns the setting of the system, or another mode or its lock.
SystemTurns ==
  /\ desktop = "windows" /\ system' = -system
  /\ UNCHANGED <<desktop, attached, matchVars, swipeVars, trayVars, volume, blocked>>

ModeTurns ==
  /\ blocked' = ~blocked
  /\ UNCHANGED <<desktop, attached, matchVars, swipeVars, system, trayVars, volume>>

WheelInit ==
  /\ desktop \in Desktops /\ attached \in BOOLEAN
  /\ pending = <<>> /\ marks = <<>> /\ astray = FALSE
  /\ touch = NoTouch /\ fraction = Never
  /\ system \in {1} \cup (IF desktop = "windows" THEN {-1} ELSE {}) /\ direction = system
  /\ moved = 0 /\ cut = FALSE /\ coasted = FALSE
  /\ tray = [acc |-> 0, first |-> 0, host |-> "unknown"]
  /\ scrolled = [px |-> 0, clicks |-> 0] /\ clean = TRUE
  /\ volume \in StartVolumes /\ blocked = FALSE

WheelInput ==
  \/ \E precise, inertia \in BOOLEAN, dy \in Offsets :
       \/ WindowEvent(precise, dy, inertia)
       \/ EventElsewhere(precise, dy, inertia)
  \/ \E dy \in Offsets : SliderScroll(dy)
  \/ \E delta \in TrayDeltas : TrayScroll(delta)
  \/ \E host \in {"kde", "gnome"} : HostFound(host)
  \/ SystemTurns \/ ModeTurns

WheelNext == WheelInput \/ TickEnds

WheelSpec == WheelInit /\ [][WheelNext]_wheelVars

-----------------------------------------------------------------------------

\* Within a swipe the steps follow the fingers and never get further than five
\* from where it began; a swipe that was never cut short loses nothing, whatever
\* turns, pauses and wheels come between its events.
SwipeIsFollowed ==
  /\ Abs(touch.steps) <= MaxSteps /\ Abs(touch.acc) < StepPx
  /\ ~cut => StepPx * touch.steps + touch.acc = moved

\* The tray icon loses nothing either, if its host was known before anything of
\* a click was left over.
TrayIsFollowed ==
  LET div == IF TrayDivision(tray.host) = 0 THEN tray.first ELSE TrayDivision(tray.host)
  IN clean => /\ div # 0 => Abs(tray.acc) < div
              /\ div * scrolled.clicks + tray.acc = scrolled.px

\* Inertia moves nothing (И-Р19), as long as the filter has seen every event
\* that the monitor has seen: a mark that nobody took shifts the queue.
InertiaIsIgnored == coasted => astray

ScrollingIsFollowed == SwipeIsFollowed /\ TrayIsFollowed /\ InertiaIsIgnored
=============================================================================
