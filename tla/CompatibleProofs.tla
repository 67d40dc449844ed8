-------------------------- MODULE CompatibleProofs --------------------------
(***************************************************************************)
(* The Compatible mode for every set of tracks, devices, rates and volumes, *)
(* any number of openings and any failures of them: the stream is what the  *)
(* settings say, and what sounds goes on or the queue is told.              *)
(***************************************************************************)
EXTENDS Compatible, TLAPS

-----------------------------------------------------------------------------
(* Types                                                                    *)

Fixed == Rates \cup {0}

\* The outputs there are: one of a device for a track with a fixed rate.
Destinations == {ChooseOutput(d, t.rate, t.channels, f) :
              d \in Outputs \cup {Fallback}, t \in Tracks, f \in Fixed}

Sessions == [track : Tracks \cup {NoTrack}, pos : 0 .. Length, playing : BOOLEAN,
             ended : BOOLEAN, seeking : BOOLEAN, gain : Volumes \cup {0}]
Streams == [to : Destinations \cup {Nothing}, dither : BOOLEAN, runs : BOOLEAN]
Players == [fixed : Fixed, dither : BOOLEAN, volume : Volumes,
            session : Sessions, stream : Streams, ack : BOOLEAN,
            news : {"none", "failed"}]
Engines == [current : Tracks \cup {NoTrack}, stopped : BOOLEAN, failed : BOOLEAN,
            opens : 0 .. MaxOpens]
Settings == [device : {System, "pipewire"} \cup Sinks, fixed : Rates, dither : BOOLEAN]

\* What a step may report.
Events == {<<>>} \cup {<<e>> : e \in {"Opened", "OpenFailed", "Skipped", "Ended", "Notice"}}

TypeOK ==
  /\ host \in SUBSET Outputs
  /\ catalog \in [sinks : SUBSET Sinks, known : BOOLEAN]
  /\ settings \in Settings
  /\ volume \in Volumes
  /\ eng \in Engines
  /\ player \in Players
  /\ out \in Events
  /\ behind \in {"start", "stopped", "no"}

-----------------------------------------------------------------------------
(* The inductive invariant                                                  *)

\* A Player: a stream has a session, which has a track; the stream goes to an
\* output that is no hardware, the gain is the Player's volume.
Sane(p) ==
  /\ p \in Players
  /\ p.session # NoSession => p.session.track \in Tracks /\ p.session.gain = p.volume
  /\ p.stream # NoStream => /\ p.session # NoSession
                            /\ p.stream.to \in Destinations /\ p.stream.to.kind # "hw"

\* The stream of a Player is the one its fields ask for.
UpToDate(p) ==
  p.stream # NoStream =>
    /\ p.stream.dither = p.dither
    /\ \E d : p.stream.to = ChooseOutput(d, p.session.track.rate,
                                         p.session.track.channels, p.fixed)

\* The engine knows the track of the session; what it calls stopped does not
\* play.
EngineKnows ==
  /\ player.session # NoSession => player.session.track = eng.current
  /\ eng.stopped => player.stream = NoStream \/ ~player.session.playing

\* The Player has been told what the settings are.
Told ==
  /\ player.volume = volume
  /\ behind # "start" => player.fixed = settings.fixed /\ player.dither = settings.dither
  /\ behind = "no" => UpToDate(player)

CompatibleInv == TypeOK /\ Sane(player) /\ EngineKnows /\ Told

-----------------------------------------------------------------------------
(* Outputs                                                                  *)

\* What collapse_to_system_default leaves is no hardware.
LEMMA CollapseFacts ==
  ASSUME NEW L \in SUBSET Outputs
  PROVE  LET d == Collapse(L, Fallback)
         IN d = Nothing \/ (d \in Outputs \cup {Fallback} /\ d.kind # "hw")
<1>. DEFINE fixed == {d \in L : d.kind \in DOMAIN Aliases}
            Best(d) == \A e \in fixed : Aliases[d.kind] <= Aliases[e.kind]
<1>0. /\ DOMAIN Aliases = {"pipewire", "pulse", "default"}
      /\ Aliases["pipewire"] = 1 /\ Aliases["pulse"] = 2 /\ Aliases["default"] = 3
  BY DEF Aliases
<1>1. ASSUME fixed # {}  PROVE  \E d \in fixed : Best(d)
  <2>1. CASE \E d \in fixed : d.kind = "pipewire"
    BY <1>0, <2>1
  <2>2. CASE (~\E d \in fixed : d.kind = "pipewire") /\ \E d \in fixed : d.kind = "pulse"
    BY <1>0, <2>2
  <2>3. CASE ~\E d \in fixed : d.kind \in {"pipewire", "pulse"}
    BY <1>0, <1>1, <2>3
  <2>. QED  BY <2>1, <2>2, <2>3
<1>2. CASE fixed # {}
  <2>1. (CHOOSE d \in fixed : Best(d)) \in fixed
    BY <1>1, <1>2
  <2>2. Collapse(L, Fallback) = CHOOSE d \in fixed : Best(d)
    BY <1>2 DEF Collapse
  <2>. QED  BY <1>0, <2>1, <2>2
<1>3. CASE fixed = {}
  BY <1>3 DEF Collapse
<1>. QED  BY <1>2, <1>3

\* Nothing is no destination.
LEMMA NothingFacts == \A d, r, c, f : ChooseOutput(d, r, c, f) # Nothing
<1>1. \A d, r, c, f : "rate" \in DOMAIN ChooseOutput(d, r, c, f)
  BY DEF ChooseOutput
<1>2. "rate" \notin DOMAIN Nothing
  BY DEF Nothing
<1>. QED  BY <1>1, <1>2

\* The output for a track is one of the destinations, by the fixed rate of the
\* Player, and no hardware.
LEMMA ChosenFacts ==
  ASSUME NEW p \in Players, NEW t \in Tracks, host \in SUBSET Outputs,
         Chosen(p, t) # Nothing
  PROVE  /\ Chosen(p, t) \in Destinations /\ Chosen(p, t).kind # "hw"
         /\ \E d : Chosen(p, t) = ChooseOutput(d, t.rate, t.channels, p.fixed)
<1>. DEFINE d == Collapse(host, Fallback)
<1>1. d # Nothing /\ Chosen(p, t) = ChooseOutput(d, t.rate, t.channels, p.fixed)
  BY DEF Chosen
<1>2. d \in Outputs \cup {Fallback} /\ d.kind # "hw"
  BY <1>1, CollapseFacts
<1>3. p.fixed \in Fixed
  BY DEF Players
<1>4. ChooseOutput(d, t.rate, t.channels, p.fixed).kind = d.kind
  BY DEF ChooseOutput
<1>. HIDE DEF d
<1>. QED  BY <1>1, <1>2, <1>3, <1>4 DEF Destinations

-----------------------------------------------------------------------------
(* Players                                                                  *)

\* A track is not the track of no session.
LEMMA NoTrackFacts == /\ NoTrack \notin Tracks /\ NoSession \in Sessions
                      /\ NoStream \in Streams /\ NoSession.track = NoTrack
                      /\ ~NoSession.playing /\ ~NoStream.runs /\ NoStream.to = Nothing
                      /\ NoSession.gain = 0
<1>1. NoTrack \notin Tracks
  BY CompatibleAssumption DEF NoTrack
<1>2. NoSession \in Sessions
  BY CompatibleAssumption DEF NoSession, Sessions
<1>. QED  BY <1>1, <1>2 DEF NoSession, NoStream, Streams

\* What has been told to a Player, and the stream it has.
Kept(p, q) == q.fixed = p.fixed /\ q.dither = p.dither /\ q.volume = p.volume
KeptStream(p, q) == Kept(p, q) /\ q.stream = p.stream
                    /\ q.session.track = p.session.track
                    /\ (q.session = NoSession <=> p.session = NoSession)

\* Any change of the session's place and flags, of ack and of news.
LEMMA SessionChange ==
  ASSUME NEW p, NEW q \in Players, Sane(p), p.session # NoSession,
         Kept(p, q), q.stream = p.stream, q.session.track = p.session.track,
         q.session.gain = p.session.gain
  PROVE  Sane(q) /\ KeptStream(p, q)
BY NoTrackFacts DEF Sane, KeptStream, Kept

\* seek.
LEMMA SeekFacts ==
  ASSUME NEW p, Sane(p), NEW pos \in 0 .. Length
  PROVE  LET q == SeekTo(p, pos)
         IN /\ Sane(q) /\ KeptStream(p, q)
            /\ q.session.playing = p.session.playing
            /\ p.session = NoSession => q = p
            /\ p.session # NoSession => q.session.pos = pos /\ ~AtEnd(q)
<1>1. CASE p.session = NoSession
  BY <1>1 DEF SeekTo, KeptStream, Kept
<1>2. CASE p.session # NoSession
  <2>. DEFINE q == SeekTo(p, pos)
  <2>0. p \in Players /\ p.session \in Sessions
    BY DEF Sane, Players
  <2>. DEFINE moved == [p.session EXCEPT !.pos = pos, !.seeking = TRUE]
  <2>1. q = [p EXCEPT !.session = moved, !.ack = FALSE]
    BY <1>2, <2>0 DEF SeekTo, Players, Sessions
  <2>2. /\ moved \in Sessions
        /\ moved.track = p.session.track /\ moved.gain = p.session.gain
        /\ moved.playing = p.session.playing /\ moved.pos = pos /\ moved.seeking
    BY <2>0 DEF Sessions
  <2>. HIDE DEF moved, q
  <2>3. /\ q \in Players /\ Kept(p, q) /\ q.stream = p.stream
        /\ q.session = moved
    BY <2>0, <2>1, <2>2 DEF Players, Kept
  <2>4. Sane(q) /\ KeptStream(p, q)
    BY <1>2, <2>2, <2>3, SessionChange
  <2>. QED  BY <1>2, <2>2, <2>3, <2>4 DEF AtEnd, q
<1>. QED  BY <1>1, <1>2

\* play.
LEMMA StartedFacts ==
  ASSUME NEW p, Sane(p)
  PROVE  LET q == Started(p)
         IN /\ Sane(q) /\ KeptStream(p, q)
            /\ p.session = NoSession => q = p
            /\ p.session # NoSession => q.session.playing
            /\ ~AtEnd(p) => q.session.pos = p.session.pos
<1>1. CASE p.session = NoSession
  BY <1>1 DEF Started, KeptStream, Kept
<1>2. CASE p.session # NoSession
  <2>. DEFINE w == IF AtEnd(p) THEN SeekTo(p, 0) ELSE p
              q == Started(p)
  <2>0. 0 \in 0 .. Length
    BY CompatibleAssumption
  <2>1. Sane(w) /\ KeptStream(p, w) /\ w.session # NoSession
        /\ (~AtEnd(p) => w.session.pos = p.session.pos)
    BY <1>2, <2>0, SeekFacts DEF KeptStream, Kept
  <2>2. w \in Players /\ w.session \in Sessions
    BY <2>1 DEF Sane, Players
  <2>3. q = [w EXCEPT !.session.playing = TRUE, !.ack = FALSE]
    BY <1>2 DEF Started
  <2>. HIDE DEF w, q
  <2>4. q = [w EXCEPT !.session = [w.session EXCEPT !.playing = TRUE], !.ack = FALSE]
    BY <2>2, <2>3 DEF Players, Sessions
  <2>5. /\ q \in Players /\ Kept(w, q) /\ q.stream = w.stream
        /\ q.session = [w.session EXCEPT !.playing = TRUE]
    BY <2>2, <2>4 DEF Players, Sessions, Kept
  <2>6. /\ q.session.track = w.session.track /\ q.session.gain = w.session.gain
        /\ q.session.playing /\ q.session.pos = w.session.pos
    BY <2>2, <2>5 DEF Sessions
  <2>7. Sane(q) /\ KeptStream(w, q)
    BY <2>1, <2>5, <2>6, SessionChange
  <2>. QED  BY <1>2, <2>1, <2>6, <2>7 DEF KeptStream, Kept, q
<1>. QED  BY <1>1, <1>2

\* Player::stop.
LEMMA HaltedFacts ==
  ASSUME NEW p, Sane(p)
  PROVE  LET q == Halted(p)
         IN Sane(q) /\ KeptStream(p, q) /\ ~q.session.playing
<1>1. CASE p.session = NoSession
  BY <1>1, NoTrackFacts DEF Halted, KeptStream, Kept
<1>2. CASE p.session # NoSession
  <2>. DEFINE w == SeekTo(p, 0)
              q == Halted(p)
  <2>0. 0 \in 0 .. Length
    BY CompatibleAssumption
  <2>1. Sane(w) /\ KeptStream(p, w) /\ w.session # NoSession
    BY <1>2, <2>0, SeekFacts DEF KeptStream, Kept
  <2>2. w \in Players /\ w.session \in Sessions
    BY <2>1 DEF Sane, Players
  <2>3. q = [w EXCEPT !.session.playing = FALSE]
    BY <1>2 DEF Halted
  <2>. HIDE DEF w, q
  <2>4. q = [w EXCEPT !.session = [w.session EXCEPT !.playing = FALSE]]
    BY <2>2, <2>3 DEF Players, Sessions
  <2>5. /\ q \in Players /\ Kept(w, q) /\ q.stream = w.stream
        /\ q.session = [w.session EXCEPT !.playing = FALSE]
    BY <2>2, <2>4 DEF Players, Sessions, Kept
  <2>6. /\ q.session.track = w.session.track /\ q.session.gain = w.session.gain
        /\ ~q.session.playing
    BY <2>2, <2>5 DEF Sessions
  <2>7. Sane(q) /\ KeptStream(w, q)
    BY <2>1, <2>5, <2>6, SessionChange
  <2>. QED  BY <2>1, <2>6, <2>7 DEF KeptStream, Kept, q
<1>. QED  BY <1>1, <1>2

\* teardown and release_engine.
LEMMA TornDownFacts ==
  ASSUME NEW p, Sane(p)
  PROVE  /\ Sane(TornDown(p)) /\ Kept(p, TornDown(p))
         /\ TornDown(p).session = NoSession /\ TornDown(p).stream = NoStream
         /\ Sane(Released(p)) /\ Kept(p, Released(p))
         /\ Released(p).session = p.session /\ Released(p).stream = NoStream
<1>0. p \in Players
  BY DEF Sane
<1>1. /\ TornDown(p) \in Players /\ Kept(p, TornDown(p))
      /\ TornDown(p).session = NoSession /\ TornDown(p).stream = NoStream
  BY <1>0, NoTrackFacts DEF TornDown, Players, Kept
<1>2. /\ Released(p) \in Players /\ Kept(p, Released(p))
      /\ Released(p).session = p.session /\ Released(p).stream = NoStream
  BY <1>0, NoTrackFacts DEF Released, Players, Kept
<1>. QED  BY <1>1, <1>2 DEF Sane, Kept

\* What open_pcm leaves: the old Player, one without a session, or the new
\* session on a stream that is what the Player's fields ask for.
LEMMA OpenAtFacts ==
  ASSUME NEW p, Sane(p), NEW t \in Tracks, NEW pos \in 0 .. Length,
         host \in SUBSET Outputs, NEW r \in OpenAt(p, t, pos)
  PROVE  /\ Sane(r.p) /\ Kept(p, r.p)
         /\ r.err \in {"file", "output", "fault", "none"}
         /\ r.err = "file" => r.p = p
         /\ r.err \in {"output", "fault"} =>
              r.p.session = NoSession /\ r.p.stream = NoStream
         /\ r.err = "none" =>
              /\ UpToDate(r.p) /\ r.p.session.track = t /\ r.p.session.pos = pos
              /\ ~r.p.session.playing /\ ~AtEnd(r.p)
<1>0. p \in Players
  BY DEF Sane
<1>1. \/ r = [p |-> p, err |-> "file"]
      \/ \E x \in {"output", "fault"} : r = [p |-> TornDown(p), err |-> x]
      \/ /\ Chosen(p, t) # Nothing
         /\ \E b \in BOOLEAN : r = [p |-> Opened(p, t, pos, b), err |-> "none"]
  BY DEF OpenAt
<1>2. CASE r = [p |-> p, err |-> "file"]
  BY <1>2 DEF Kept
<1>3. ASSUME NEW x \in {"output", "fault"}, r = [p |-> TornDown(p), err |-> x]
      PROVE  /\ Sane(r.p) /\ Kept(p, r.p) /\ r.err \in {"output", "fault"}
             /\ r.p.session = NoSession /\ r.p.stream = NoStream
  BY <1>3, TornDownFacts
<1>4. ASSUME Chosen(p, t) # Nothing, NEW b \in BOOLEAN,
             r = [p |-> Opened(p, t, pos, b), err |-> "none"]
      PROVE  /\ Sane(r.p) /\ Kept(p, r.p) /\ r.err = "none"
             /\ UpToDate(r.p) /\ r.p.session.track = t /\ r.p.session.pos = pos
             /\ ~r.p.session.playing /\ ~AtEnd(r.p)
  <2>. DEFINE q == Opened(p, t, pos, b)
              fresh == [track |-> t, pos |-> pos, playing |-> FALSE,
                        ended |-> FALSE, seeking |-> FALSE, gain |-> p.volume]
              open == [to |-> Chosen(p, t), dither |-> p.dither, runs |-> b]
  <2>1. /\ Chosen(p, t) \in Destinations /\ Chosen(p, t).kind # "hw"
        /\ \E d : Chosen(p, t) = ChooseOutput(d, t.rate, t.channels, p.fixed)
    BY <1>0, <1>4, ChosenFacts
  <2>2. q = [p EXCEPT !.session = fresh, !.stream = open, !.ack = FALSE, !.news = "none"]
    BY DEF Opened
  <2>3. /\ fresh \in Sessions /\ fresh.track = t /\ fresh.pos = pos
        /\ fresh.gain = p.volume /\ ~fresh.playing /\ ~fresh.ended
        /\ fresh # NoSession
    BY <1>0, NoTrackFacts DEF Sessions, Players
  <2>4. /\ open \in Streams /\ open.to = Chosen(p, t) /\ open.dither = p.dither
    BY <1>0, <2>1 DEF Streams, Players
  <2>5. r.p = q /\ r.err = "none"
    BY <1>4
  <2>. HIDE DEF q, fresh, open
  <2>6. q \in Players /\ q.session = fresh /\ q.stream = open /\ Kept(p, q)
    BY <1>0, <2>2, <2>3, <2>4 DEF Players, Kept
  <2>7. Sane(q)
    BY <2>1, <2>3, <2>4, <2>6 DEF Sane, Kept
  <2>8. UpToDate(q)
    BY <2>1, <2>3, <2>4, <2>6 DEF UpToDate, Kept
  <2>. QED  BY <2>3, <2>5, <2>6, <2>7, <2>8 DEF AtEnd
<1>. QED  BY <1>1, <1>2, <1>3, <1>4

\* apply_legacy_fields: the Player is told; only where there is a stream is a
\* track opened again, and that does not make it play.
LEMMA AppliedFacts ==
  ASSUME NEW p, Sane(p), NEW s \in Settings, host \in SUBSET Outputs,
         NEW q \in Applied(p, s)
  PROVE  /\ Sane(q) /\ q.volume = p.volume
         /\ q.fixed = s.fixed /\ q.dither = s.dither
         /\ p.stream = NoStream => q.stream = NoStream /\ q.session = p.session
         /\ q.session # NoSession => /\ p.session # NoSession
                                     /\ q.session.track = p.session.track
         /\ ~p.session.playing => ~q.session.playing
<1>. DEFINE w == [p EXCEPT !.fixed = s.fixed]
            z == [w EXCEPT !.dither = s.dither]
            pos == IF AtEnd(w) THEN 0 ELSE w.session.pos
<1>0. p \in Players /\ s.fixed \in Fixed /\ s.dither \in BOOLEAN
  BY DEF Sane, Settings, Fixed
<1>1. /\ z \in Players /\ z.session = p.session /\ z.stream = p.stream
      /\ z.volume = p.volume /\ z.fixed = s.fixed /\ z.dither = s.dither
      /\ w.session = p.session /\ w.stream = p.stream
  BY <1>0 DEF Players
<1>2. Sane(z)
  BY <1>1 DEF Sane
<1>3. \/ q = z
      \/ /\ p.stream # NoStream
         /\ \E r \in OpenAt(z, p.session.track, pos) :
              q = IF r.err = "none" /\ IsPlaying(w) THEN Started(r.p) ELSE r.p
  <2>1. q \in WithDither(w, s.dither)
    BY DEF Applied
  <2>. QED  BY <1>1, <2>1 DEF WithDither
<1>4. CASE q = z
  BY <1>1, <1>2, <1>4
<1>5. ASSUME p.stream # NoStream, NEW r \in OpenAt(z, p.session.track, pos),
             q = IF r.err = "none" /\ IsPlaying(w) THEN Started(r.p) ELSE r.p
      PROVE  /\ Sane(q) /\ Kept(z, q)
             /\ q.session # NoSession => /\ p.session # NoSession
                                         /\ q.session.track = p.session.track
             /\ ~p.session.playing => ~q.session.playing
  <2>1. pos \in 0 .. Length /\ p.session \in Sessions
    BY <1>0, <1>1, CompatibleAssumption DEF Players, Sessions
  <2>2. p.session # NoSession /\ p.session.track \in Tracks
    BY <1>5 DEF Sane
  <2>. HIDE DEF w, z, pos
  <2>3. /\ Sane(r.p) /\ Kept(z, r.p)
        /\ r.p.session = NoSession \/ r.p.session.track = p.session.track
        /\ ~p.session.playing => ~r.p.session.playing
    BY <1>1, <1>2, <1>5, <2>1, <2>2, OpenAtFacts, NoTrackFacts
  <2>4. CASE r.err = "none" /\ IsPlaying(w)
    <3>1. p.session.playing
      BY <1>1, <2>4 DEF IsPlaying
    <3>2. q = Started(r.p)
      BY <1>5, <2>4
    <3>3. Sane(q) /\ KeptStream(r.p, q)
      BY <2>3, <3>2, StartedFacts
    <3>. QED  BY <2>2, <2>3, <3>1, <3>3 DEF KeptStream, Kept
  <2>5. CASE ~(r.err = "none" /\ IsPlaying(w))
    <3>1. q = r.p
      BY <1>5, <2>5
    <3>. QED  BY <2>2, <2>3, <3>1
  <2>. QED  BY <2>4, <2>5
<1>. HIDE DEF w, z, pos
<1>. QED  BY <1>1, <1>3, <1>4, <1>5 DEF Kept

-----------------------------------------------------------------------------
(* Steps                                                                    *)

\* At the start nothing is open.
LEMMA CompatibleInit == Init => CompatibleInv
<1>. SUFFICES ASSUME Init  PROVE  CompatibleInv
  OBVIOUS
<1>0. /\ NoTrack \notin Tracks /\ NoSession \in Sessions /\ NoStream \in Streams
      /\ ~NoSession.playing /\ 0 \in 0 .. MaxOpens
  BY NoTrackFacts, CompatibleAssumption
<1>1. player \in Players /\ player.session = NoSession /\ player.stream = NoStream
      /\ player.volume = volume
  BY <1>0 DEF Init, Players, Fixed
<1>2. eng \in Engines
  BY <1>0 DEF Init, Engines
<1>3. TypeOK
  BY <1>1, <1>2 DEF Init, TypeOK, Settings, Events
<1>. QED  BY <1>1, <1>3 DEF CompatibleInv, Sane, EngineKnows, Told, Init

\* A step that leaves the stream and what the Player was told.
LEMMA StreamKept ==
  ASSUME CompatibleInv, Sane(player'), KeptStream(player, player'),
         eng' \in Engines, eng'.current = eng.current,
         eng'.stopped => player.stream = NoStream \/ ~player'.session.playing,
         UNCHANGED <<host, catalog, settings, volume, behind>>, out' \in Events
  PROVE  CompatibleInv'
<1>1. player' \in Players
  BY DEF Sane
<1>2. TypeOK'
  BY <1>1 DEF CompatibleInv, TypeOK, Events
<1>3. EngineKnows'
  BY DEF CompatibleInv, EngineKnows, KeptStream
<1>4. Told'
  BY DEF CompatibleInv, Told, UpToDate, KeptStream, Kept
<1>. QED  BY <1>2, <1>3, <1>4 DEF CompatibleInv

\* A step that changes the session's place and flags, ack or news.
LEMMA SessionStep ==
  ASSUME CompatibleInv, player' \in Players, Kept(player, player'),
         player'.stream = player.stream,
         player'.session = player.session
           \/ /\ player.session # NoSession
              /\ player'.session.track = player.session.track
              /\ player'.session.gain = player.session.gain
              /\ player'.session.playing => player.session.playing,
         eng' \in Engines, eng'.current = eng.current, eng'.stopped = eng.stopped,
         UNCHANGED <<host, catalog, settings, volume, behind>>, out' \in Events
  PROVE  CompatibleInv'
<1>0. Sane(player) /\ EngineKnows
  BY DEF CompatibleInv
<1>1. Sane(player') /\ KeptStream(player, player')
  <2>1. CASE player'.session = player.session
    BY <1>0, <2>1 DEF Sane, KeptStream, Kept
  <2>2. CASE player'.session # player.session
    BY <1>0, <2>2, SessionChange
  <2>. QED  BY <2>1, <2>2
<1>2. eng'.stopped => player.stream = NoStream \/ ~player'.session.playing
  BY <1>0 DEF EngineKnows
<1>. QED  BY <1>1, <1>2, StreamKept

\* The shape of the state, for the leaves.
LEMMA Shape ==
  ASSUME CompatibleInv
  PROVE  /\ Sane(player) /\ player \in Players /\ player.session \in Sessions
         /\ player.stream \in Streams /\ eng \in Engines /\ settings \in Settings
         /\ host \in SUBSET Outputs /\ out \in Events
         /\ 0 \in 0 .. Length /\ 1 \in 0 .. Length /\ Length \in Nat
BY CompatibleAssumption DEF CompatibleInv, TypeOK, Players, Events, Sane

LEMMA PlayStep == CompatibleInv /\ Play => CompatibleInv'
<1>. SUFFICES ASSUME CompatibleInv, Play  PROVE  CompatibleInv'
  OBVIOUS
<1>1. Sane(player') /\ KeptStream(player, player')
  BY Shape, StartedFacts DEF Play
<1>2. eng' \in Engines /\ eng'.current = eng.current /\ ~eng'.stopped
  BY Shape DEF Play, Engines
<1>. QED  BY <1>1, <1>2, StreamKept DEF Play, PlayerOnly, Events

LEMMA StopStep == CompatibleInv /\ Stop => CompatibleInv'
<1>. SUFFICES ASSUME CompatibleInv, Stop  PROVE  CompatibleInv'
  OBVIOUS
<1>1. Sane(player') /\ KeptStream(player, player') /\ ~player'.session.playing
  BY Shape, HaltedFacts DEF Stop
<1>2. eng' \in Engines /\ eng'.current = eng.current
  BY Shape DEF Stop, Engines
<1>. QED  BY <1>1, <1>2, StreamKept DEF Stop, PlayerOnly, Events

LEMMA SeekStep == CompatibleInv /\ Seek => CompatibleInv'
<1>. SUFFICES ASSUME CompatibleInv, NEW pos \in 0 .. Length,
                     player' = SeekTo(player, pos), UNCHANGED eng, PlayerOnly
              PROVE  CompatibleInv'
  BY DEF Seek
<1>1. /\ Sane(player') /\ KeptStream(player, player')
      /\ player'.session.playing = player.session.playing
  BY Shape, SeekFacts
<1>. QED  BY <1>1, Shape, StreamKept DEF PlayerOnly, Events, CompatibleInv, EngineKnows

LEMMA PauseStep == CompatibleInv /\ Pause => CompatibleInv'
<1>. SUFFICES ASSUME CompatibleInv, Pause  PROVE  CompatibleInv'
  OBVIOUS
<1>. DEFINE paused == [player.session EXCEPT !.playing = FALSE]
<1>1. player.session.playing /\ player.session # NoSession
  BY NoTrackFacts DEF Pause, IsPlaying
<1>2. /\ paused \in Sessions /\ paused.track = player.session.track
      /\ paused.gain = player.session.gain /\ ~paused.playing
  BY Shape DEF Sessions
<1>3. player' = [player EXCEPT !.session = paused]
  BY Shape DEF Pause, Players, Sessions
<1>. HIDE DEF paused
<1>4. /\ player' \in Players /\ Kept(player, player')
      /\ player'.stream = player.stream /\ player'.session = paused
  BY <1>2, <1>3, Shape DEF Players, Kept
<1>. QED  BY <1>1, <1>2, <1>4, Shape, SessionStep DEF Pause, PlayerOnly, Events

LEMMA CallbackStep == CompatibleInv /\ Callback => CompatibleInv'
<1>. SUFFICES ASSUME CompatibleInv, Callback  PROVE  CompatibleInv'
  OBVIOUS
<1>. DEFINE taken == [player.session EXCEPT !.seeking = FALSE, !.ended = FALSE]
            pos == player.session.pos
            next == IF pos < Length THEN pos + 1 ELSE pos
            last == pos = Length
            further == [player.session EXCEPT !.pos = next, !.ended = last]
<1>1. player.stream.runs /\ player.session # NoSession
  BY Shape, NoTrackFacts DEF Callback, Sane
<1>2. /\ taken \in Sessions /\ taken.track = player.session.track
      /\ taken.gain = player.session.gain /\ taken.playing = player.session.playing
  BY Shape DEF Sessions
<1>3. /\ further \in Sessions /\ further.track = player.session.track
      /\ further.gain = player.session.gain /\ further.playing = player.session.playing
  <2>1. next \in 0 .. Length
    <3>1. pos \in 0 .. Length
      BY Shape DEF Sessions
    <3>. HIDE DEF pos
    <3>. QED  BY <3>1, Shape
  <2>2. last \in BOOLEAN
    OBVIOUS
  <2>. HIDE DEF next, last
  <2>. QED  BY <2>1, <2>2, Shape DEF Sessions
<1>4. \/ player' = [player EXCEPT !.session = taken]
      \/ player' = [player EXCEPT !.session = further]
  BY Shape DEF Callback, Players, Sessions
<1>. HIDE DEF taken, further
<1>5. /\ player' \in Players /\ Kept(player, player')
      /\ player'.stream = player.stream /\ player'.session \in {taken, further}
  BY <1>2, <1>3, <1>4, Shape DEF Players, Kept
<1>. QED  BY <1>1, <1>2, <1>3, <1>5, Shape, SessionStep DEF Callback, PlayerOnly, Events

\* The reports of the session, and a decoder that fails.
LEMMA PollStep ==
  CompatibleInv /\ (PollFailure \/ PollEnd \/ DecoderFails) => CompatibleInv'
<1>. SUFFICES ASSUME CompatibleInv, PollFailure \/ PollEnd \/ DecoderFails
              PROVE  CompatibleInv'
  OBVIOUS
<1>1. /\ player' \in Players /\ Kept(player, player')
      /\ player'.stream = player.stream /\ player'.session = player.session
  BY Shape DEF PollFailure, PollEnd, DecoderFails, Players, Kept
<1>2. eng' \in Engines /\ eng'.current = eng.current /\ eng'.stopped = eng.stopped
  BY Shape DEF PollFailure, PollEnd, DecoderFails, Engines, PlayerOnly
<1>3. out' \in Events /\ UNCHANGED <<host, catalog, settings, volume, behind>>
  BY DEF PollFailure, PollEnd, DecoderFails, PlayerOnly, Events
<1>. QED  BY <1>1, <1>2, <1>3, SessionStep

\* Settings with another device.
LEMMA MigratedFacts ==
  ASSUME NEW s \in Settings, NEW c
  PROVE  /\ Migrated(s, c) \in Settings
         /\ Migrated(s, c).fixed = s.fixed /\ Migrated(s, c).dither = s.dither
BY DEF Migrated, Settings

LEMMA DevicesStep == CompatibleInv /\ (HostChanges \/ Enumerated) => CompatibleInv'
<1>. SUFFICES ASSUME CompatibleInv, HostChanges \/ Enumerated  PROVE  CompatibleInv'
  OBVIOUS
<1>1. UNCHANGED <<player, eng, volume, behind>>
  BY DEF HostChanges, Enumerated
<1>2. /\ settings' \in Settings
      /\ settings'.fixed = settings.fixed /\ settings'.dither = settings.dither
  BY Shape, MigratedFacts DEF HostChanges, Enumerated
<1>3. host' \in SUBSET Outputs /\ catalog' \in [sinks : SUBSET Sinks, known : BOOLEAN]
  <2>1. CASE HostChanges
    BY <2>1, Shape DEF HostChanges, CompatibleInv, TypeOK
  <2>2. CASE Enumerated
    <3>1. \A S \in SUBSET Sinks, k \in BOOLEAN :
            [sinks |-> S, known |-> k] \in [sinks : SUBSET Sinks, known : BOOLEAN]
      OBVIOUS
    <3>2. host' = host
      BY <2>2 DEF Enumerated
    <3>. QED  BY <2>2, <3>1, <3>2, Shape DEF Enumerated
  <2>. QED  BY <2>1, <2>2
<1>4. out' \in Events
  BY DEF HostChanges, Enumerated, Events
<1>5. TypeOK'
  BY <1>1, <1>2, <1>3, <1>4 DEF CompatibleInv, TypeOK, Events
<1>6. Sane(player') /\ EngineKnows'
  BY <1>1 DEF CompatibleInv, EngineKnows
<1>7. Told'
  BY <1>1, <1>2 DEF CompatibleInv, Told
<1>. QED  BY <1>5, <1>6, <1>7 DEF CompatibleInv

LEMMA SetVolumeStep == CompatibleInv /\ SetVolume => CompatibleInv'
<1>. SUFFICES ASSUME CompatibleInv, NEW v \in Volumes,
                     volume' = v,
                     player' = [player EXCEPT
                                  !.volume = v,
                                  !.session.gain = IF player.session = NoSession
                                                   THEN 0 ELSE v],
                     out' = <<>>, UNCHANGED <<host, catalog, settings, eng, behind>>
              PROVE  CompatibleInv'
  BY DEF SetVolume
<1>. DEFINE gain == IF player.session = NoSession THEN 0 ELSE v
            s == [player.session EXCEPT !.gain = gain]
<1>1. player' = [player EXCEPT !.volume = v, !.session = s]
  BY Shape DEF Players, Sessions
<1>2. /\ s \in Sessions /\ s.track = player.session.track /\ s.gain = gain
      /\ s.playing = player.session.playing
  BY Shape DEF Sessions
<1>3. s = NoSession <=> player.session = NoSession
  <2>1. CASE player.session = NoSession
    <3>1. gain = 0 /\ s = [NoSession EXCEPT !.gain = 0]
      BY <2>1
    <3>2. [NoSession EXCEPT !.gain = 0] = NoSession
      <4>. DEFINE n == [NoSession EXCEPT !.gain = 0]
      <4>1. n \in Sessions /\ NoSession \in Sessions
        BY NoTrackFacts DEF Sessions
      <4>2. /\ n.track = NoSession.track /\ n.pos = NoSession.pos
            /\ n.playing = NoSession.playing /\ n.ended = NoSession.ended
            /\ n.seeking = NoSession.seeking /\ n.gain = NoSession.gain
        BY <4>1, NoTrackFacts DEF Sessions
      <4>. HIDE DEF n
      <4>3. n = NoSession
        BY <4>1, <4>2 DEF Sessions
      <4>. QED  BY <4>3 DEF n
    <3>. HIDE DEF gain, s
    <3>. QED  BY <2>1, <3>1, <3>2
  <2>2. CASE player.session # NoSession
    BY <1>2, <2>2, Shape, NoTrackFacts DEF Sane
  <2>. QED  BY <2>1, <2>2
<1>. HIDE DEF s
<1>4. /\ player' \in Players /\ player'.session = s /\ player'.volume = v
      /\ player'.stream = player.stream /\ player'.fixed = player.fixed
      /\ player'.dither = player.dither
  BY <1>1, <1>2, Shape DEF Players
<1>5. Sane(player')
  BY <1>2, <1>3, <1>4, Shape DEF Sane
<1>6. TypeOK'
  BY <1>4 DEF CompatibleInv, TypeOK, Events
<1>7. EngineKnows'
  BY <1>2, <1>3, <1>4 DEF CompatibleInv, EngineKnows
<1>8. Told'
  BY <1>2, <1>4 DEF CompatibleInv, Told, UpToDate
<1>. QED  BY <1>5, <1>6, <1>7, <1>8 DEF CompatibleInv

LEMMA OpenStep == CompatibleInv /\ Open => CompatibleInv'
<1>. SUFFICES ASSUME CompatibleInv, Open  PROVE  CompatibleInv'
  OBVIOUS
<1>. USE Shape
<1>0. UNCHANGED <<host, catalog, settings, volume>>
  BY DEF Open
<1>1. [eng EXCEPT !.opens = @ + 1] \in Engines /\ eng.opens + 1 \in 0 .. MaxOpens
  BY CompatibleAssumption DEF Open, Engines
<1>2. \/ /\ out' = <<"Skipped">> /\ UNCHANGED <<player, behind>>
         /\ eng' = [eng EXCEPT !.opens = @ + 1]
      \/ \E t \in Tracks, start \in {0, 1}, autoplay \in BOOLEAN :
           \E r \in OpenAt(player, t, 0) :
             IF r.err = "none"
             THEN LET q == IF start = 0 THEN r.p ELSE SeekTo(r.p, start)
                  IN /\ player' = IF autoplay THEN Started(q) ELSE q
                     /\ eng' = [current |-> t, stopped |-> FALSE, failed |-> FALSE,
                                opens |-> eng.opens + 1]
                     /\ out' = <<"Opened">>
                     /\ behind' = IF behind = "stopped" THEN "no" ELSE behind
             ELSE /\ player' = r.p
                  /\ eng' = [eng EXCEPT !.opens = @ + 1]
                  /\ out' = <<IF r.err = "fault" THEN "OpenFailed" ELSE "Skipped">>
                  /\ UNCHANGED behind
  BY DEF Open
<1>3. CASE UNCHANGED <<player, behind>> /\ out' = <<"Skipped">>
           /\ eng' = [eng EXCEPT !.opens = @ + 1]
  <2>1. eng' \in Engines /\ eng'.current = eng.current /\ eng'.stopped = eng.stopped
    BY <1>1, <1>3 DEF Engines
  <2>. QED  BY <1>0, <1>3, <2>1, SessionStep DEF Kept, Events
<1>4. ASSUME NEW t \in Tracks, NEW start \in {0, 1}, NEW autoplay \in BOOLEAN,
             NEW r \in OpenAt(player, t, 0), r.err = "none",
             player' = LET q == IF start = 0 THEN r.p ELSE SeekTo(r.p, start)
                       IN IF autoplay THEN Started(q) ELSE q,
             eng' = [current |-> t, stopped |-> FALSE, failed |-> FALSE,
                     opens |-> eng.opens + 1],
             out' = <<"Opened">>,
             behind' = IF behind = "stopped" THEN "no" ELSE behind
      PROVE  CompatibleInv'
  <2>. DEFINE q == IF start = 0 THEN r.p ELSE SeekTo(r.p, start)
  <2>1. /\ Sane(r.p) /\ Kept(player, r.p) /\ UpToDate(r.p)
        /\ r.p.session.track = t
    BY <1>4, OpenAtFacts
  <2>2. Sane(q) /\ KeptStream(r.p, q)
    <3>1. CASE start = 0
      BY <2>1, <3>1 DEF KeptStream, Kept
    <3>2. CASE start = 1
      BY <2>1, <3>2, SeekFacts
    <3>. QED  BY <3>1, <3>2
  <2>3. player' = IF autoplay THEN Started(q) ELSE q
    BY <1>4
  <2>. HIDE DEF q
  <2>4. Sane(player') /\ KeptStream(q, player')
    BY <2>2, <2>3, StartedFacts DEF KeptStream, Kept
  <2>5. Kept(player, player') /\ UpToDate(player') /\ player'.session.track = t
    BY <2>1, <2>2, <2>4 DEF KeptStream, Kept, UpToDate
  <2>6. eng' \in Engines /\ eng'.current = t /\ ~eng'.stopped
    BY <1>1, <1>4 DEF Engines
  <2>7. TypeOK'
    BY <1>0, <1>4, <2>4, <2>6 DEF CompatibleInv, TypeOK, Sane, Events
  <2>8. EngineKnows'
    BY <2>5, <2>6 DEF EngineKnows
  <2>9. Told'
    BY <1>0, <1>4, <2>5 DEF CompatibleInv, Told, Kept, TypeOK
  <2>. QED  BY <2>4, <2>7, <2>8, <2>9 DEF CompatibleInv
<1>5. ASSUME NEW t \in Tracks, NEW r \in OpenAt(player, t, 0), r.err # "none",
             player' = r.p, eng' = [eng EXCEPT !.opens = @ + 1],
             out' = <<IF r.err = "fault" THEN "OpenFailed" ELSE "Skipped">>,
             UNCHANGED behind
      PROVE  CompatibleInv'
  <2>1. /\ Sane(player') /\ Kept(player, player')
        /\ player' = player \/ (player'.session = NoSession /\ player'.stream = NoStream)
    BY <1>5, OpenAtFacts
  <2>2. eng' \in Engines /\ eng'.current = eng.current /\ eng'.stopped = eng.stopped
    BY <1>1, <1>5 DEF Engines
  <2>3. TypeOK'
    BY <1>0, <1>5, <2>1, <2>2 DEF CompatibleInv, TypeOK, Sane, Events
  <2>4. EngineKnows'
    BY <2>1, <2>2, NoTrackFacts DEF CompatibleInv, EngineKnows
  <2>5. Told'
    BY <1>0, <1>5, <2>1 DEF CompatibleInv, Told, Kept, UpToDate
  <2>. QED  BY <2>1, <2>3, <2>4, <2>5 DEF CompatibleInv
<1>. QED  BY <1>2, <1>3, <1>4, <1>5

\* reopen_with_legacy of a track that is open: the new stream is what the
\* settings say, at the position, and plays if it played; or there is none.
LEMMA ReopenFacts ==
  ASSUME CompatibleInv, NEW s \in Settings, Reopen(s), ~eng.stopped
  PROVE  /\ Sane(player') /\ UpToDate(player') /\ player'.volume = player.volume
         /\ player'.fixed = s.fixed /\ player'.dither = s.dither
         /\ player'.session # NoSession => player'.session.track = eng.current
         /\ eng' \in Engines /\ eng'.current = eng.current
         /\ eng'.stopped => player'.stream = NoStream \/ ~player'.session.playing
         /\ out' \in Events
         /\ \/ UNCHANGED eng
            \/ out' = <<"OpenFailed">>
         /\ Sounding /\ out' # <<"OpenFailed">> =>
              /\ player'.session.playing
              /\ player'.session.track = player.session.track
              /\ player'.session.pos = player.session.pos
<1>. USE Shape
<1>0. EngineKnows
  BY DEF CompatibleInv
<1>1. CASE eng.current = NoTrack
  <2>1. player' \in Applied(player, s) /\ out' = <<>> /\ UNCHANGED eng
    BY <1>1 DEF Reopen
  <2>2. player.session = NoSession /\ player.stream = NoStream
    BY <1>0, <1>1, NoTrackFacts DEF EngineKnows, Sane
  <2>3. /\ Sane(player') /\ player'.volume = player.volume
        /\ player'.fixed = s.fixed /\ player'.dither = s.dither
        /\ player'.stream = NoStream /\ player'.session = NoSession
    BY <2>1, <2>2, AppliedFacts
  <2>4. ~Sounding /\ UpToDate(player')
    BY <2>2, <2>3, NoTrackFacts DEF Sounding, UpToDate
  <2>. QED  BY <2>1, <2>3, <2>4 DEF Events
<1>2. CASE eng.current # NoTrack
  <2>0. eng.current \in Tracks
    BY <1>2 DEF Engines
  <2>. DEFINE pos == player.session.pos
  <2>. PICK q \in Applied(Released(player), s) : \E r \in OpenAt(q, eng.current, 0) :
          IF r.err = "none"
          THEN LET w == IF pos > 0 THEN SeekTo(r.p, pos) ELSE r.p
               IN /\ player' = IF IsPlaying(player) THEN Started(w) ELSE w
                  /\ out' = <<>>
                  /\ UNCHANGED eng
          ELSE /\ player' = r.p
               /\ eng' = [eng EXCEPT !.stopped = TRUE]
               /\ out' = <<"OpenFailed">>
    BY <1>2 DEF Reopen
  <2>1. PICK r \in OpenAt(q, eng.current, 0) :
          IF r.err = "none"
          THEN LET w == IF pos > 0 THEN SeekTo(r.p, pos) ELSE r.p
               IN /\ player' = IF IsPlaying(player) THEN Started(w) ELSE w
                  /\ out' = <<>>
                  /\ UNCHANGED eng
          ELSE /\ player' = r.p
               /\ eng' = [eng EXCEPT !.stopped = TRUE]
               /\ out' = <<"OpenFailed">>
    OBVIOUS
  <2>2. /\ Sane(q) /\ q.volume = player.volume /\ q.fixed = s.fixed
        /\ q.dither = s.dither /\ q.stream = NoStream /\ q.session = player.session
    BY TornDownFacts, AppliedFacts DEF Kept
  <2>3. /\ Sane(r.p) /\ Kept(q, r.p)
        /\ r.err # "none" => r.p = q \/ (r.p.session = NoSession /\ r.p.stream = NoStream)
        /\ r.err = "none" =>
             /\ UpToDate(r.p) /\ r.p.session.track = eng.current /\ r.p.session.pos = 0
             /\ ~AtEnd(r.p)
    BY <2>0, <2>2, OpenAtFacts
  <2>4. CASE r.err # "none"
    <3>1. /\ player' = r.p /\ eng' = [eng EXCEPT !.stopped = TRUE]
          /\ out' = <<"OpenFailed">>
      BY <2>1, <2>4
    <3>2. player'.stream = NoStream /\ UpToDate(player')
      BY <2>2, <2>3, <2>4, <3>1 DEF UpToDate
    <3>3. player'.session # NoSession => player'.session.track = eng.current
      BY <1>0, <2>2, <2>3, <2>4, <3>1 DEF EngineKnows
    <3>4. eng' \in Engines /\ eng'.current = eng.current
      BY <3>1 DEF Engines
    <3>. QED  BY <2>2, <2>3, <3>1, <3>2, <3>3, <3>4 DEF Kept, Events
  <2>5. CASE r.err = "none"
    <3>. DEFINE w == IF pos > 0 THEN SeekTo(r.p, pos) ELSE r.p
    <3>1. /\ player' = IF IsPlaying(player) THEN Started(w) ELSE w
          /\ out' = <<>> /\ UNCHANGED eng
      BY <2>1, <2>5
    <3>2. pos \in 0 .. Length /\ pos \in Nat
      BY DEF Sessions
    <3>3. r.p.session # NoSession
      BY <2>0, <2>3, <2>5, NoTrackFacts
    <3>. HIDE DEF pos
    <3>4. /\ Sane(w) /\ KeptStream(r.p, w) /\ ~AtEnd(w) /\ w.session.pos = pos
      <4>1. CASE pos > 0
        BY <2>3, <3>2, <3>3, <4>1, SeekFacts
      <4>2. CASE ~(pos > 0)
        BY <2>3, <2>5, <3>2, <4>2 DEF KeptStream, Kept
      <4>. QED  BY <4>1, <4>2
    <3>. HIDE DEF w
    <3>5. /\ Sane(player') /\ KeptStream(w, player') /\ player'.session.pos = pos
          /\ IsPlaying(player) => player'.session.playing
      <4>1. CASE IsPlaying(player)
        BY <3>1, <3>3, <3>4, <4>1, StartedFacts DEF KeptStream
      <4>2. CASE ~IsPlaying(player)
        BY <3>1, <3>4, <4>2 DEF KeptStream, Kept
      <4>. QED  BY <4>1, <4>2
    <3>6. /\ player'.session.track = eng.current /\ Kept(q, player')
          /\ UpToDate(player') /\ player'.session # NoSession
      BY <2>3, <2>5, <3>3, <3>4, <3>5 DEF KeptStream, Kept, UpToDate
    <3>7. Sounding => IsPlaying(player) /\ player.session.track = eng.current
      BY <1>0, NoTrackFacts DEF Sounding, IsPlaying, EngineKnows
    <3>. QED  BY <2>2, <3>1, <3>5, <3>6, <3>7 DEF Kept, Events, pos
  <2>. QED  BY <2>4, <2>5
<1>. QED  BY <1>1, <1>2

LEMMA SetModeSettingsStep == CompatibleInv /\ SetModeSettings => CompatibleInv'
<1>. SUFFICES ASSUME CompatibleInv, SetModeSettings  PROVE  CompatibleInv'
  OBVIOUS
<1>. USE Shape
<1>1. PICK dev \in {System, "pipewire", settings.device} \cup catalog.sinks,
           f \in Rates, d \in BOOLEAN :
        LET new == [device |-> dev, fixed |-> f, dither |-> d]
            s == Migrated(new, catalog)
        IN /\ settings' = s
           /\ IF eng.stopped
              THEN player' \in Applied(player, s) /\ out' = <<>> /\ UNCHANGED eng
              ELSE Reopen(s)
           /\ behind' = IF eng.stopped THEN "stopped" ELSE "no"
  BY DEF SetModeSettings
<1>. DEFINE new == [device |-> dev, fixed |-> f, dither |-> d]
<1>2. new \in Settings
  BY DEF Settings, CompatibleInv, TypeOK
<1>3. settings' \in Settings /\ settings' = Migrated(new, catalog)
  BY <1>1, <1>2, MigratedFacts
<1>4. UNCHANGED <<host, catalog, volume>>
  BY DEF SetModeSettings
<1>. HIDE DEF new
<1>5. CASE eng.stopped
  <2>1. player' \in Applied(player, settings') /\ out' = <<>> /\ UNCHANGED eng
        /\ behind' = "stopped"
    BY <1>1, <1>3, <1>5 DEF new
  <2>2. /\ Sane(player') /\ player'.volume = player.volume
        /\ player'.fixed = settings'.fixed /\ player'.dither = settings'.dither
        /\ player.stream = NoStream => player'.stream = NoStream
        /\ player'.session # NoSession => /\ player.session # NoSession
                                          /\ player'.session.track = player.session.track
        /\ ~player.session.playing => ~player'.session.playing
    BY <1>3, <2>1, AppliedFacts
  <2>3. TypeOK'
    BY <1>3, <1>4, <2>1, <2>2 DEF CompatibleInv, TypeOK, Sane, Events
  <2>4. EngineKnows'
    BY <2>1, <2>2 DEF CompatibleInv, EngineKnows
  <2>5. Told'
    BY <1>4, <2>1, <2>2 DEF CompatibleInv, Told
  <2>. QED  BY <2>2, <2>3, <2>4, <2>5 DEF CompatibleInv
<1>6. CASE ~eng.stopped
  <2>1. Reopen(settings') /\ behind' = "no"
    BY <1>1, <1>3, <1>6 DEF new
  <2>2. /\ Sane(player') /\ UpToDate(player') /\ player'.volume = player.volume
        /\ player'.fixed = settings'.fixed /\ player'.dither = settings'.dither
        /\ player'.session # NoSession => player'.session.track = eng.current
        /\ eng' \in Engines /\ eng'.current = eng.current
        /\ eng'.stopped => player'.stream = NoStream \/ ~player'.session.playing
        /\ out' \in Events
    BY <1>3, <1>6, <2>1, ReopenFacts
  <2>3. TypeOK'
    BY <1>3, <1>4, <2>1, <2>2 DEF CompatibleInv, TypeOK, Sane, Events
  <2>4. EngineKnows'
    BY <2>2 DEF EngineKnows
  <2>5. Told'
    BY <1>4, <2>2 DEF CompatibleInv, Told
  <2>. QED  BY <2>2, <2>3, <2>4, <2>5 DEF CompatibleInv
<1>. QED  BY <1>5, <1>6

LEMMA CompatibleStep == CompatibleInv /\ [Next]_vars => CompatibleInv'
<1>1. CompatibleInv /\ UNCHANGED vars => CompatibleInv'
  BY DEF vars, CompatibleInv, TypeOK, EngineKnows, Told
<1>. QED
  BY <1>1, OpenStep, PlayStep, PauseStep, StopStep, SeekStep, SetVolumeStep,
     SetModeSettingsStep, DevicesStep, PollStep, CallbackStep DEF Next, Command

-----------------------------------------------------------------------------
(* Theorems                                                                 *)

\* The types, and what ties stream, session, engine and settings together, for
\* any tracks, devices, rates and volumes and any number of openings.
THEOREM CompatibleInvariant == Spec => []CompatibleInv
BY CompatibleInit, CompatibleStep, PTL DEF Spec

\* Of an output that was chosen: its rate is the one wished for or the report
\* says it is not, and it is said when it is not what the track has.
LEMMA ReasonFacts ==
  ASSUME NEW d, NEW rate, NEW channels, NEW fixed, NEW o,
         o = ChooseOutput(d, rate, channels, fixed), o.reason # "rate"
  PROVE  /\ o.rate = IF fixed # 0 THEN fixed ELSE rate
         /\ o.reason = "none" <=> (o.rate = rate /\ o.ch = channels)
BY DEF ChooseOutput

\* StreamIsAsSet: what is open is what the settings and the volume say, through
\* every reopening, failure and change of device (the reopening of
\* set_mode_settings, reopen_current, choose_output).
THEOREM StreamFollowsSettings == Spec => []StreamIsAsSet
<1>1. ASSUME CompatibleInv, player.stream # NoStream, behind = "no"
      PROVE  LET t == player.session.track
                 o == player.stream.to
             IN /\ player.stream.dither = settings.dither
                /\ player.session.gain = volume
                /\ o.reason # "rate" =>
                     /\ o.rate = Wanted(t)
                     /\ o.reason = "none" <=> o.rate = t.rate /\ o.ch = t.channels
                /\ o.kind # "hw"
  <2>1. Sane(player) /\ Told
    BY <1>1 DEF CompatibleInv
  <2>2. player.session.gain = volume /\ player.stream.to.kind # "hw"
    BY <1>1, <2>1 DEF Sane, Told
  <2>3. player.stream.dither = settings.dither /\ player.fixed = settings.fixed
    BY <1>1, <2>1 DEF Told, UpToDate
  <2>4. PICK d : player.stream.to = ChooseOutput(d, player.session.track.rate,
                                                 player.session.track.channels,
                                                 player.fixed)
    BY <1>1, <2>1 DEF Told, UpToDate
  <2>. DEFINE t == player.session.track
              o == player.stream.to
  <2>5. o.reason # "rate" =>
          /\ o.rate = IF player.fixed # 0 THEN player.fixed ELSE t.rate
          /\ o.reason = "none" <=> (o.rate = t.rate /\ o.ch = t.channels)
    BY <2>4, ReasonFacts
  <2>6. o.reason # "rate" => o.rate = Wanted(t)
    BY <2>3, <2>5 DEF Wanted
  <2>. QED  BY <2>2, <2>3, <2>5, <2>6
<1>2. CompatibleInv => StreamIsAsSet
  BY <1>1 DEF StreamIsAsSet
<1>. QED  BY <1>2, CompatibleInvariant, PTL

\* GoesOnOrIsTold: a change of settings, of the devices or of the volume, a
\* report and a period of the callback keep what sounds at its place, or the
\* queue gets an event (reopen_with_legacy, mode_apply_action).
THEOREM SoundGoesOn == Spec => GoesOnOrIsTold
<1>. DEFINE GoesOn == /\ player'.session.playing
                      /\ player'.session.track = player.session.track
                      /\ player'.session.pos \in {player.session.pos, player.session.pos + 1}
            Reported == ToSet(out') \cap {"Skipped", "OpenFailed"} # {}
            Good == Sounding => GoesOn \/ Reported \/ Open \/ Stop \/ Pause \/ Seek
<1>1. ASSUME CompatibleInv, Next, Sounding, ~(Open \/ Stop \/ Pause \/ Seek)
      PROVE  GoesOn \/ Reported
  <2>. USE Shape, <1>1
  <2>0. /\ player.stream.runs /\ player.session.playing /\ ~AtEnd(player)
        /\ player.session # NoSession /\ player.stream # NoStream
    BY NoTrackFacts DEF Sounding, IsPlaying
  <2>1. CASE player'.session = player.session
    BY <2>0, <2>1
  <2>2. CASE Play
    BY <2>0, <2>2, StartedFacts DEF Play, KeptStream
  <2>3. CASE SetVolume
    BY <2>0, <2>3 DEF SetVolume, Players, Sessions
  <2>4. CASE Callback
    <3>. DEFINE pos == player.session.pos
                next == IF pos < Length THEN pos + 1 ELSE pos
                last == pos = Length
    <3>1. next \in {pos, pos + 1}
      OBVIOUS
    <3>. DEFINE taken == [player.session EXCEPT !.seeking = FALSE, !.ended = FALSE]
                further == [player.session EXCEPT !.pos = next, !.ended = last]
    <3>2. player' \in {[player EXCEPT !.session = taken], [player EXCEPT !.session = further]}
      BY <2>4 DEF Callback, Players, Sessions
    <3>. HIDE DEF next, last
    <3>3. \A s \in {taken, further} : /\ s.playing = player.session.playing
                                     /\ s.track = player.session.track
                                     /\ s.pos \in {pos, next}
      BY DEF Sessions
    <3>. HIDE DEF taken, further
    <3>4. player'.session \in {taken, further}
      BY <3>2 DEF Players
    <3>. QED  BY <2>0, <3>1, <3>3, <3>4
  <2>5. CASE SetModeSettings
    <3>1. ~eng.stopped
      BY <2>0 DEF CompatibleInv, EngineKnows
    <3>2. PICK s \in Settings : Reopen(s)
      <4>1. PICK dev \in {System, "pipewire", settings.device} \cup catalog.sinks,
                 f \in Rates, d \in BOOLEAN :
              Reopen(Migrated([device |-> dev, fixed |-> f, dither |-> d], catalog))
        BY <2>5, <3>1 DEF SetModeSettings
      <4>2. [device |-> dev, fixed |-> f, dither |-> d] \in Settings
        BY DEF Settings, CompatibleInv, TypeOK
      <4>. QED  BY <4>1, <4>2, MigratedFacts
    <3>3. CASE out' # <<"OpenFailed">>
      BY <3>1, <3>2, <3>3, ReopenFacts
    <3>4. CASE out' = <<"OpenFailed">>
      <4>1. ToSet(out') = {"OpenFailed"}
        BY <3>4 DEF ToSet
      <4>. QED  BY <4>1
    <3>. QED  BY <3>3, <3>4
  <2>6. CASE HostChanges \/ Enumerated \/ PollFailure \/ PollEnd \/ DecoderFails
    <3>1. player'.session = player.session
      BY <2>6 DEF HostChanges, Enumerated, PollFailure, PollEnd, DecoderFails, Players
    <3>. QED  BY <2>1, <3>1
  <2>. QED  BY <2>2, <2>3, <2>4, <2>5, <2>6 DEF Next, Command
<1>2. ASSUME CompatibleInv, UNCHANGED vars, Sounding
      PROVE  GoesOn
  BY <1>2 DEF vars, Sounding, IsPlaying
<1>3. CompatibleInv /\ [Next]_vars => [Good]_vars
  BY <1>1, <1>2
<1>. QED  BY <1>3, CompatibleInvariant, PTL DEF Spec, GoesOnOrIsTold
=============================================================================
