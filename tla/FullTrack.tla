------------------------------ MODULE FullTrack ------------------------------
(***************************************************************************)
(* The pictures of a whole track, oscillogram and spectrogram              *)
(* (app/fulltrack_manager.rs, audio/fulltrack.rs).  On every tick the UI   *)
(* compares what should be shown with its target and asks apap-fulltrack   *)
(* for a new picture; that thread starts a builder of its own per picture  *)
(* and tells the one before to give up.  Builders read the file while it   *)
(* may change, share a directory of pictures that outlives the program and *)
(* that apap-io clears, and answer when they are done, late ones as well.  *)
(*                                                                         *)
(* A picture is what it was made from; a hash has no collisions.           *)
(***************************************************************************)
EXTENDS Integers, SequencesExt

CONSTANTS Tracks,    \* paths
          DsdTracks, \* those that are DSD
          Kinds,     \* osc, spec: the modes that need a picture
          Looks,     \* values of all parameters that the key contains
          RamCap,    \* entries of fulltrack_cache
          DiskCap    \* pictures for which the budget of the directory suffices

ASSUME FullTrackAssumption == RamCap \in Nat \ {0} /\ DiskCap \in Nat

Nothing == "none"
NoFile == 0        \* the time of a file that is not there (UNIX_EPOCH)

VARIABLES
  clock,     \* the last time at which a file changed
  files,     \* its mtime per track, or NoFile
  current,   \* the current track or Nothing
  view,      \* what settings and state say: [mode, look, skip, inMem, onDisk]
  ui,        \* MusicApp.fulltrack_*: [mode, target, id, meta]
  screen,    \* the picture, whether it is shown, and for which id it was set
  ram,       \* fulltrack_cache, the entry used last in front
  failed,    \* for the properties: the last id that was answered with Failed
  cmds,      \* on their way to the thread
  recent,    \* id whose flag the thread holds, or 0
  builders,  \* the threads of run_build
  events,    \* on their way to the UI
  disk       \* pairs of PNG and sidecar, the one written last at the end

uiVars == <<ui, screen, ram, failed>>
fullVars == <<clock, files, current, view, uiVars, cmds, recent, builders, events, disk>>

Key(p, time, kind, look) == [path |-> p, time |-> time, kind |-> kind, look |-> look]
NoKey == Key(Nothing, NoFile, Nothing, Nothing)   \* of a file without a time: the empty key
Torn == [NoKey EXCEPT !.kind = "torn"]   \* a PNG that is not written to its end
NoTarget == [path |-> Nothing, key |-> NoKey]
NoMeta == [path |-> Nothing, time |-> NoFile]
Blank == [pic |-> NoKey, ready |-> FALSE, id |-> 0]

\* The one entry that memory or disk has for a key, and the others.
HasKey(entries, key) == \E i \in DOMAIN entries : entries[i].key = key
PlaceOf(entries, key) == CHOOSE i \in DOMAIN entries : entries[i].key = key
WithKey(entries, key) == entries[PlaceOf(entries, key)]
Excluding(entries, key) == IF HasKey(entries, key) THEN RemoveAt(entries, PlaceOf(entries, key))
                           ELSE entries

-----------------------------------------------------------------------------
(* The tick of the UI                                                       *)

\* fulltrack_meta_of: the file is looked at only when the path is another one.
Meta == IF current = ui.meta.path THEN ui.meta
        ELSE [path |-> current, time |-> files[current]]

Wanted == /\ view.mode \in Kinds /\ current # Nothing
          /\ ~(view.skip /\ current \in DsdTracks)

\* The key of a file whose time is unknown is the empty one.
Target ==
  IF ~Wanted THEN NoTarget
  ELSE [path |-> current,
        key |-> IF Meta.time = NoFile THEN NoKey
                ELSE Key(current, Meta.time, view.mode, view.look)]

Build(id) == [type |-> "Build", id |-> id, path |-> current, kind |-> view.mode,
              look |-> view.look, onDisk |-> view.onDisk]
Cancel == [type |-> "Cancel"]

\* Mutant: the new request is sent before the old one is given up.
AppliedSwapped(s) ==
  LET hit == WithKey(s.ram, Target.key)
      next == s.ui.id + 1
  IN IF Target = NoTarget
     THEN [s EXCEPT !.sent = <<Cancel>>, !.screen.ready = FALSE]
     ELSE IF HasKey(s.ram, Target.key)
     THEN [s EXCEPT !.sent = <<Cancel>>, !.ui.id = next, !.ram = <<hit>> \o Excluding(s.ram, Target.key),
                    !.screen = [pic |-> hit.pic, ready |-> TRUE, id |-> next]]
     ELSE [s EXCEPT !.sent = <<Build(next), Cancel>>, !.ui.id = next]

\* apply_fulltrack: what is built is given up, and what is not in memory is
\* asked for; until it comes the picture before stays.
Applied(s) ==
  LET hit == WithKey(s.ram, Target.key)
      next == s.ui.id + 1
  IN IF Target = NoTarget
     THEN [s EXCEPT !.sent = <<Cancel>>, !.screen.ready = FALSE]
     ELSE IF HasKey(s.ram, Target.key)
     THEN [s EXCEPT !.sent = <<Cancel>>, !.ui.id = next, !.ram = <<hit>> \o Excluding(s.ram, Target.key),
                    !.screen = [pic |-> hit.pic, ready |-> TRUE, id |-> next]]
     ELSE [s EXCEPT !.sent = <<Cancel, Build(next)>>, !.ui.id = next]

\* CLruCache::put.
Put(entries, e) ==
  LET all == <<e>> \o Excluding(entries, e.key)
  IN SubSeq(all, 1, IF Len(all) < RamCap THEN Len(all) ELSE RamCap)

\* Mutant: whatever is ready is shown.
TakenAnyway(s, ev) ==
  CASE ev.type = "Ready" ->
         [s EXCEPT !.ram = IF view.inMem THEN Put(@, [key |-> ev.key, pic |-> ev.pic]) ELSE @,
                   !.screen = [pic |-> ev.pic, ready |-> TRUE, id |-> s.ui.id]]
    [] OTHER -> [s EXCEPT !.failed = ev.id]

\* drain_fulltrack_events, for one event.
Taken(s, ev) ==
  IF ev.id # s.ui.id THEN s
  ELSE IF ev.type = "Failed" THEN [s EXCEPT !.failed = ev.id]
  ELSE IF ev.key # s.ui.target.key THEN s
  ELSE [s EXCEPT !.ram = IF view.inMem THEN Put(@, [key |-> ev.key, pic |-> ev.pic]) ELSE @,
                 !.screen = [pic |-> ev.pic, ready |-> TRUE, id |-> ev.id]]

\* drain_fulltrack_events.
Drained(s) ==
  LET after[n \in 0 .. Len(events)] == IF n = 0 THEN s ELSE Taken(after[n - 1], events[n])
  IN after[Len(events)]

\* drain_fulltrack.
PictureTick ==
  LET seen == [ui EXCEPT !.meta = IF Wanted THEN Meta ELSE @]
      s0 == [ui |-> seen, screen |-> screen, ram |-> ram, failed |-> failed, sent |-> <<>>]
      s1 == IF Target = ui.target /\ view.mode = ui.mode THEN s0
            ELSE Applied([s0 EXCEPT !.ui.target = Target, !.ui.mode = view.mode])
      s2 == Drained(s1)
  IN /\ ui' = s2.ui /\ screen' = s2.screen /\ ram' = s2.ram /\ failed' = s2.failed
     /\ cmds' = cmds \o s2.sent
     /\ events' = <<>>
     /\ UNCHANGED <<clock, files, current, view, recent, builders, disk>>

-----------------------------------------------------------------------------
(* apap-fulltrack and its builders                                          *)

Told(id) == {IF b.id = id THEN [b EXCEPT !.off = TRUE] ELSE b : b \in builders}

\* start_worker, one command.
WorkerTakes ==
  /\ cmds # <<>>
  /\ cmds' = Tail(cmds)
  /\ LET c == Head(cmds)
     IN IF c.type = "Cancel" THEN builders' = Told(recent) /\ UNCHANGED recent
        ELSE /\ builders' = Told(recent) \cup
                  {[id |-> c.id, path |-> c.path, kind |-> c.kind, look |-> c.look,
                    onDisk |-> c.onDisk, key |-> NoKey, at |-> "new", off |-> FALSE,
                    pic |-> NoKey]}
             /\ recent' = c.id
  /\ UNCHANGED <<clock, files, current, view, uiVars, events, disk>>

Moves(b, new) == builders' = (builders \ {b}) \cup {new}
Ends(b) == builders' = builders \ {b}
Answer(ev) == events' = Append(events, ev)
IsReady(b, pic) == Answer([type |-> "Ready", id |-> b.id, key |-> b.key, pic |-> pic])
Failed(b) == Answer([type |-> "Failed", id |-> b.id])

\* The flag is looked at before every step until the picture is drawn.
GivesUp(b) == /\ b.off /\ b.at \in {"new", "keyed", "open", "drawn"}
              /\ Ends(b) /\ UNCHANGED <<events, disk>>

\* The metadata of the file make the key.
MakesKey(b) ==
  /\ b.at = "new"
  /\ Moves(b, [b EXCEPT !.at = "keyed",
                        !.key = Key(b.path, files[b.path], b.kind, b.look)])
  /\ UNCHANGED <<events, disk>>

\* Mutant: any picture that can be read is good.
CachedAnyhow(key) == { e.pic : e \in { x \in ToSet(disk) : x.key.path = key.path /\ x.pic # Torn } }

\* cache_meta_valid and load_cached_png: the sidecar is not older than the
\* file, and the PNG can be read.
Cached(key) == { e.pic : e \in { x \in ToSet(disk) :
                   /\ x.key = key /\ x.stamp # NoFile /\ files[key.path] # NoFile
                   /\ files[key.path] <= x.stamp /\ x.pic # Torn } }

FindsCached(b) ==
  /\ b.at = "keyed" /\ ~b.off /\ b.onDisk
  /\ \E pic \in Cached(b.key) : IsReady(b, pic)
  /\ Ends(b) /\ UNCHANGED disk

\* The file is opened: from here on it is this version of it.
Opens(b) ==
  /\ b.at = "keyed" /\ ~b.off /\ ~(b.onDisk /\ Cached(b.key) # {})
  /\ files[b.path] # NoFile
  /\ Moves(b, [b EXCEPT !.at = "open",
                        !.pic = Key(b.path, files[b.path], b.kind, b.look)])
  /\ UNCHANGED <<events, disk>>

\* The file cannot be opened, or not be decoded, or has no length.
Fails(b) ==
  /\ ~b.off
  /\ \/ b.at = "keyed" /\ ~(b.onDisk /\ Cached(b.key) # {})
     \/ b.at = "open"
  /\ Failed(b) /\ Ends(b) /\ UNCHANGED disk

Draws(b) ==
  /\ b.at = "open" /\ ~b.off
  /\ Moves(b, [b EXCEPT !.at = "drawn"])
  /\ UNCHANGED <<events, disk>>

\* save_png begins: File::create leaves an empty PNG under the sidecar that may
\* be there; or nothing is to be saved, or it cannot be.
Saves(b) ==
  /\ b.at = "drawn" /\ ~b.off /\ b.onDisk
  /\ disk' = Append(Excluding(disk, b.key),
                    [key |-> b.key, pic |-> Torn,
                     stamp |-> IF HasKey(disk, b.key) THEN WithKey(disk, b.key).stamp ELSE NoFile])
  /\ Moves(b, [b EXCEPT !.at = "saving"])
  /\ UNCHANGED events

\* The PNG and then the sidecar are written, and the oldest pictures go until
\* the budget is kept.  What was cleared in between comes as a sidecar alone.
Saved(b) ==
  /\ b.at = "saving"
  /\ LET rest == Excluding(disk, b.key)
         all == IF HasKey(disk, b.key)
                THEN Append(rest, [key |-> b.key, pic |-> b.pic, stamp |-> clock])
                ELSE rest
         over == IF Len(all) > DiskCap THEN Len(all) - DiskCap ELSE 0
     IN disk' = SubSeq(all, over + 1, Len(all))
  /\ IsReady(b, b.pic) /\ Ends(b)

AnswersUnsaved(b) ==
  /\ b.at = "drawn" /\ ~b.off
  /\ IsReady(b, b.pic) /\ Ends(b) /\ UNCHANGED disk

BuilderSteps(b) ==
  /\ \/ GivesUp(b) \/ MakesKey(b) \/ FindsCached(b) \/ Opens(b) \/ Fails(b)
     \/ Draws(b) \/ Saves(b) \/ Saved(b) \/ AnswersUnsaved(b)
  /\ UNCHANGED <<clock, files, current, view, uiVars, cmds, recent>>

Builder == \E b \in builders : BuilderSteps(b)

-----------------------------------------------------------------------------
(* What happens around them                                                 *)

Others == <<ui, screen, failed, cmds, recent, builders, events>>

\* Another track, or none, and settings that have been saved.
TrackChanges == \E t \in Tracks \cup {Nothing} : /\ current' = t
                                             /\ UNCHANGED <<clock, files, view, ram, disk, Others>>
ViewChanges ==
  /\ view' \in [mode : Kinds \cup {"off"}, look : Looks, skip : BOOLEAN,
                inMem : BOOLEAN, onDisk : BOOLEAN]
  /\ UNCHANGED <<clock, files, current, ram, disk, Others>>

\* settings_clear_viz_cache: memory at once, the directory by apap-io.
ClearsMemory == ram' = <<>> /\ UNCHANGED <<clock, files, current, view, disk, Others>>
ClearsDisk == disk' = <<>> /\ UNCHANGED <<clock, files, current, view, ram, Others>>

\* Somebody writes or removes a file of music.
FileChanges ==
  /\ clock' = clock + 1
  /\ \E t \in Tracks : files' = [files EXCEPT ![t] = IF @ = NoFile THEN clock' ELSE @]
                       \/ files' = [files EXCEPT ![t] = clock']
                       \/ files' = [files EXCEPT ![t] = NoFile]
  /\ UNCHANGED <<current, view, ram, disk, Others>>

NoRequest == [mode |-> Nothing, target |-> NoTarget, id |-> 0, meta |-> NoMeta]

\* The program ends anywhere, or is killed, and is started again.
Restarts == /\ ui' = NoRequest /\ screen' = Blank /\ ram' = <<>> /\ failed' = 0
            /\ cmds' = <<>> /\ recent' = 0 /\ builders' = {} /\ events' = <<>>
            /\ current' = Nothing
            /\ UNCHANGED <<clock, files, view, disk>>

FullInit == /\ ui = NoRequest /\ screen = Blank /\ ram = <<>> /\ failed = 0
            /\ cmds = <<>> /\ recent = 0 /\ builders = {} /\ events = <<>>
            /\ current = Nothing /\ disk = <<>> /\ clock = 1
            /\ files = [t \in Tracks |-> 1]
            /\ view \in [mode : Kinds, look : Looks, skip : BOOLEAN,
                         inMem : BOOLEAN, onDisk : BOOLEAN]

UserOrFiles == TrackChanges \/ ViewChanges \/ ClearsMemory \/ ClearsDisk \/ FileChanges \/ Restarts

FullNext == PictureTick \/ WorkerTakes \/ Builder \/ UserOrFiles

FullSpec == FullInit /\ [][FullNext]_fullVars

-----------------------------------------------------------------------------

IsOf(pic, path, kind, look) ==
  pic.path = path /\ pic.kind = kind /\ pic.look = look

\* A picture that was set for the request that is the last one is of the track,
\* the mode and the parameters that are wanted, whatever late builders answer,
\* and what either cache would give for a key is of that key and not of an
\* older file: through cancelling, clearing, files that change under the
\* builder and a program that dies while it writes a picture.
PictureIsOfTarget ==
  /\ screen.ready /\ screen.id = ui.id /\ ui.target.key # NoKey =>
       IsOf(screen.pic, ui.target.path, ui.target.key.kind, ui.target.key.look)
  /\ \A e \in ToSet(ram) : /\ IsOf(e.pic, e.key.path, e.key.kind, e.key.look)
                           /\ e.pic.time >= e.key.time
  /\ \A e \in ToSet(disk) :
       e.pic # Torn /\ e.stamp # NoFile => /\ IsOf(e.pic, e.key.path, e.key.kind, e.key.look)
                                         /\ e.pic.time >= e.key.time
                                         /\ e.pic.time <= e.stamp

\* What is asked for and not there yet is being worked on under its number: the
\* request is on its way, or its builder has not been told to give up, or its
\* answer is on its way.  Known exception: a file that has changed since the UI
\* looked at it; its builder makes another key, and the answer is dropped.
Resolved == (screen.ready /\ screen.id = ui.id) \/ failed = ui.id
FileIsOther == ui.target.key = NoKey \/ ui.meta.time # files[ui.target.path]

PictureIsOnItsWay ==
  ui.target # NoTarget /\ ~Resolved /\ ~FileIsOther =>
    \/ \E i \in DOMAIN cmds : /\ cmds[i].type = "Build" /\ cmds[i].id = ui.id
                             /\ \A j \in i + 1 .. Len(cmds) : cmds[j].type # "Cancel"
    \/ \E b \in builders : /\ b.id = ui.id /\ ~b.off
                          /\ \A i \in DOMAIN cmds : cmds[i].type # "Cancel"
    \/ \E i \in DOMAIN events : events[i].id = ui.id

PicturesAreRight == PictureIsOfTarget /\ PictureIsOnItsWay
=============================================================================
