------------------------------ MODULE MCShell -------------------------------
(***************************************************************************)
(* What the window does, for TLC, in parts that do not meet: a behaviour   *)
(* is of one of them and the others stand still.  Messages, dialog and     *)
(* loads are in three scopes of MCWindows; the others have a bound on what *)
(* comes from outside.                                                     *)
(***************************************************************************)
EXTENDS MCWindows, FullTrack, Wheel, Geometry

CONSTANTS Parts,
          MaxInputs,    \* bound, per part: inputs from outside
          MaxRequests,  \* bound: pictures asked for
          MaxClock      \* bound: changes of files

VARIABLES part, inputs

shellVars == <<part, inputs, mcVars, fullVars, wheelVars, geoVars>>

Outside == inputs < MaxInputs[part] /\ inputs' = inputs + 1
Inside == UNCHANGED inputs

\* Pictures of two tracks in two modes; or of one, over changes of its file and
\* runs of the program.  The first choice of a track is free, and a change of
\* the view is one change.
OneFile == part = "cache" => /\ view' = view
                             /\ current' \in {Nothing, "a"} /\ files'["d"] = files["d"]
Requests == ui'.id <= IF part = "cache" THEN MaxRequests - 1 ELSE MaxRequests

PicturesNext ==
  \/ PictureTick /\ Requests /\ Inside
  \/ (WorkerTakes \/ Builder) /\ Inside
  \/ current = Nothing /\ TrackChanges /\ OneFile /\ Inside
  \/ UserOrFiles /\ clock' <= MaxClock /\ OneFile /\ Outside
     /\ Cardinality({f \in DOMAIN view : view'[f] # view[f]}) <= 1

\* What the slider is told of an event of the window is no input of its own.
WheelPart == \/ WheelInput /\ IF pending # <<>> /\ pending' = <<>> THEN Inside ELSE Outside
             \/ TickEnds /\ Inside

GeometryPart ==
  \/ (Show \/ SystemDoes \/ GeometryTick \/ Leave) /\ Inside
  \/ UserActs /\ Outside

\* The parts that stand still begin in one way.
MCShellInit ==
  /\ part \in Parts /\ inputs = 0
  /\ MCInit /\ FullInit /\ WheelInit /\ GeometryInit
  /\ part # "messages" => scope = "messages" /\ inForce.mode = "Compatible"
  /\ part # "pictures" => view = [mode |-> "osc", look |-> "plain", skip |-> FALSE,
                                  inMem |-> TRUE, onDisk |-> TRUE]
  /\ part # "wheel" => desktop = "other" /\ attached
  /\ part # "geometry" => /\ restored = [size |-> Unset, pos |-> Unset, max |-> FALSE, full |-> FALSE]
                          /\ wayland
                          /\ real.size = "s" /\ real.pos = "here"

MCShellNext ==
  \/ part = "messages" /\ MCNext /\ UNCHANGED <<part, inputs, fullVars, wheelVars, geoVars>>
  \/ part \in {"pictures", "cache"} /\ PicturesNext /\ UNCHANGED <<part, mcVars, wheelVars, geoVars>>
  \/ part = "wheel" /\ WheelPart /\ UNCHANGED <<part, mcVars, fullVars, geoVars>>
  \/ part = "geometry" /\ GeometryPart /\ UNCHANGED <<part, mcVars, fullVars, wheelVars>>

MCShellSpec == MCShellInit /\ [][MCShellNext]_shellVars

MCMaxInputs == [pictures |-> 2, cache |-> 4, wheel |-> 3, geometry |-> 2]
MCOffsets == {-60, -20, 45, 170}
MCTrayDeltas == {-15, 1, 120}
=============================================================================
