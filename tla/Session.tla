------------------------------ MODULE Session ------------------------------
(***************************************************************************)
(* One session of an exclusive path: the engine that owns it, the thread   *)
(* apap-decode that fills the ring (audio/worker.rs), the output thread    *)
(* that empties it (audio/render, backend/alsa_out.rs), and the atomics    *)
(* they share (audio/session.rs).                                          *)
(*                                                                         *)
(* Every step reads or writes one shared variable, or several in the order *)
(* of the code where nothing can come between that the others would see.   *)
(* Generations are counted from 1, the opening being the first; a frame in *)
(* the ring carries the generation that wrote it, and its number in what   *)
(* the source yields, which is not the position that is shown for it.      *)
(***************************************************************************)
EXTENDS Integers, Sequences, FiniteSetsExt

CONSTANTS Length,     \* frames of the track
          Capacity,   \* of the ring
          Packet,     \* frames of one refill
          Period,     \* frames of one period of the device
          PrimeFrames, \* prime_frames
          StartFill,  \* start_fill_frames
          Align       \* how far before its target a seek may land

ASSUME SessionAssumption ==
  /\ {Length, Capacity, Packet, Period} \subseteq Nat \ {0}
  /\ PrimeFrames \in 0 .. Capacity \div 2 /\ StartFill \in 0 .. Capacity \div 2
  /\ Align \in Nat

VARIABLES
  \* SessionShared
  target, requested, stopped, acked, playing, pos, eof, ended, fault,
  ring,
  \* DecodeLoop, where it is, and what it has read
  dpc, seen, aim, myGen, waitAck, base, written, done, failed, published,
  tail,      \* frames of PendingTail
  source,    \* the frame the source decodes next
  ready,     \* ready_sent
  \* RenderCore, where the output thread is, and what it has read
  cpc, req, priming,
  \* the engine: state of the path, and whether it is within request_seek
  phase, asking,
  \* history: Listener's variables, the frame the source stood at after the
  \* last seek, and whether ended was set too late
  asked, refused, broke, given, landed, late

shared == <<target, requested, stopped, acked, playing, pos, eof, ended, fault>>
decoder == <<dpc, seen, aim, myGen, waitAck, base, written, done, failed,
             published, tail, source, ready>>
output == <<cpc, req, priming>>
engine == <<phase, asking>>
history == <<asked, refused, broke, given, landed, late>>
vars == <<shared, ring, decoder, output, engine, history>>

NoEof == -1     \* u64::MAX: the end of the track is not known

\* A seek finds the block or the packet its target is in, and what is before
\* the target in it is not thrown away.
Lands(t) == ((t - Align) .. t) \cap Nat

Frames(g, from, k) == [i \in 1 .. k |-> [g |-> g, n |-> from + i - 1]]

-----------------------------------------------------------------------------
\* apap-decode.

Goes(from, to) == dpc = from /\ dpc' = to

\* Mutant: a decoder that waits for its seek does not look for another.
PollUnlessWaiting ==
  /\ dpc = "poll" /\ phase # "stopping"
  /\ IF requested = myGen \/ waitAck THEN dpc' = "ack" /\ UNCHANGED seen
                                     ELSE dpc' = "aim" /\ seen' = requested
  /\ UNCHANGED <<shared, ring, aim, myGen, waitAck, base, written, done,
                 failed, published, tail, source, ready, output, engine,
                 history>>

\* poll_seek
Poll == /\ dpc = "poll" /\ phase # "stopping"
        /\ IF requested = myGen THEN dpc' = "ack" /\ UNCHANGED seen
                                ELSE dpc' = "aim" /\ seen' = requested
        /\ UNCHANGED <<shared, ring, aim, myGen, waitAck, base, written, done,
                       failed, published, tail, source, ready, output, engine,
                       history>>

Aim == /\ Goes("aim", "again")
       /\ aim' = target
       /\ UNCHANGED <<shared, ring, seen, myGen, waitAck, base, written, done,
                      failed, published, tail, source, ready, output, engine,
                      history>>

Again == /\ dpc = "again"
         /\ IF requested = seen THEN dpc' = "reset" ELSE dpc' = "aim"
         /\ seen' = requested
         /\ UNCHANGED <<shared, ring, aim, myGen, waitAck, base, written, done,
                        failed, published, tail, source, ready, output, engine,
                        history>>

\* The source may refuse: it then goes on where it is, without the tail and
\* without what the feed held of it; once it has failed it has nothing more.
Reset == /\ Goes("reset", "clear")
         /\ \/ source' \in Lands(aim) /\ UNCHANGED refused
            \/ /\ source' \in IF failed THEN {Length} ELSE source .. Length
               /\ refused' = refused \cup {seen}
         /\ landed' = source'
         /\ tail' = 0 /\ base' = aim /\ written' = 0
         /\ done' = FALSE /\ failed' = FALSE /\ published' = FALSE
         /\ eof' = NoEof
         /\ UNCHANGED <<target, requested, stopped, acked, playing, pos, ended,
                        fault, ring, seen, aim, myGen, waitAck, ready, output,
                        engine, asked, broke, given, late>>

\* Mutant: the decoder leaves the flag of the end to the callback.
ClearNothing == /\ Goes("clear", "stop")
                /\ UNCHANGED <<shared, ring, seen, aim, myGen, waitAck, base,
                               written, done, failed, published, tail, source,
                               ready, output, engine, history>>

Clear == /\ Goes("clear", "stop")
         /\ ended' = FALSE /\ late' = FALSE
         /\ UNCHANGED <<target, requested, stopped, acked, playing, pos, eof,
                        fault, ring, seen, aim, myGen, waitAck, base, written,
                        done, failed, published, tail, source, ready, output,
                        engine, asked, refused, broke, given, landed>>

Halt == /\ Goes("stop", "ack")
        /\ stopped' = seen /\ myGen' = seen /\ waitAck' = TRUE
        /\ UNCHANGED <<target, requested, acked, playing, pos, eof, ended,
                       fault, ring, seen, aim, base, written, done, failed,
                       published, tail, source, ready, output, engine, history>>

\* Mutant: the decoder writes as soon as it has stopped the old generation.
WaitNot == /\ Goes("ack", "work")
           /\ waitAck' = FALSE
           /\ UNCHANGED <<shared, ring, seen, aim, myGen, base, written, done,
                          failed, published, tail, source, ready, output,
                          engine, history>>

WaitAck == /\ dpc = "ack"
           /\ IF waitAck /\ acked # myGen
                THEN dpc' = "poll" /\ UNCHANGED waitAck
                ELSE dpc' = "work" /\ waitAck' = FALSE
           /\ UNCHANGED <<shared, ring, seen, aim, myGen, base, written, done,
                          failed, published, tail, source, ready, output,
                          engine, history>>

\* step with t frames in the tail: as many as fit are written.
WriteTail(t) ==
  LET k == Min({t, Capacity - Len(ring)})
  IN /\ ring' = ring \o Frames(myGen, source' - t, k)
     /\ tail' = t - k /\ written' = written + k
     /\ ready' = (ready \/ (k > 0 /\ ~failed' /\ (done' \/ written' >= StartFill)))
     /\ UNCHANGED <<published, eof>>

\* step with nothing left to write: publish_eof and mark_ready.
PublishEof == /\ published' = TRUE
              /\ eof' = IF published THEN eof ELSE base + written
              /\ ready' = (ready \/ ~failed')
              /\ UNCHANGED <<ring, tail, written>>

\* Feed::refill into an empty tail, then the rest of step.  FloatFeed has sized
\* its buffer when the source fails: as many frames of silence are written.
Refill == /\ tail = 0 /\ ~done
          /\ \/ /\ source < Length
                /\ source' = Min({source + Packet, Length})
                /\ UNCHANGED <<done, failed, broke>>
                /\ WriteTail(source' - source)
             \/ /\ source = Length
                /\ done' = TRUE /\ UNCHANGED <<source, failed, broke>>
                /\ PublishEof
             \/ /\ done' = TRUE /\ failed' = TRUE /\ broke' = broke \cup {myGen}
                /\ \/ UNCHANGED source /\ PublishEof
                   \/ source' = source + Packet /\ WriteTail(Packet)

Work == /\ Goes("work", "poll")
        /\ \/ Refill
           \/ tail > 0 /\ UNCHANGED <<source, done, failed, broke>> /\ WriteTail(tail)
           \/ tail = 0 /\ done /\ UNCHANGED <<source, done, failed, broke>> /\ PublishEof
        /\ UNCHANGED <<target, requested, stopped, acked, playing, pos, ended,
                       fault, seen, aim, myGen, waitAck, base, output, engine,
                       asked, refused, given, landed, late>>

\* The thread of DecodeWorker ends between two steps.
Leave == /\ Goes("poll", "off") /\ phase = "stopping"
         /\ UNCHANGED <<shared, ring, seen, aim, myGen, waitAck, base, written,
                        done, failed, published, tail, source, ready, output,
                        engine, history>>

Decode == Poll \/ Aim \/ Again \/ Reset \/ Clear \/ Halt \/ WaitAck \/ Work \/ Leave

-----------------------------------------------------------------------------
\* The output thread: one period of RenderCore and the write of it.

Moves(from, to) == cpc = from /\ cpc' = to

\* begin: is a seek on its way?  (The flag of the thread is looked at first.)
Begin == /\ cpc = "begin" /\ phase = "open"
         /\ req' = requested
         /\ cpc' = IF requested # acked THEN "flush" ELSE "play"
         /\ UNCHANGED <<shared, ring, decoder, priming, engine, history>>

\* Mutant: two phases, the ring is emptied as soon as a seek is asked for.
FlushAtOnce == /\ Moves("flush", "ack")
               /\ ring' = <<>> /\ pos' = target
               /\ UNCHANGED <<target, requested, stopped, acked, playing, eof,
                              ended, fault, decoder, req, priming, engine,
                              history>>

\* Mutant: the position is left to the frames that follow.
FlushOnly == /\ cpc = "flush"
             /\ IF stopped = req THEN cpc' = "ack" /\ ring' = <<>>
                                 ELSE cpc' = "write" /\ UNCHANGED ring
             /\ UNCHANGED <<shared, decoder, req, priming, engine, history>>

\* begin, phase 3: silence until the decoder has stopped.
Flush == /\ cpc = "flush"
         /\ IF stopped = req THEN cpc' = "ack" /\ ring' = <<>> /\ pos' = target
                             ELSE cpc' = "write" /\ UNCHANGED <<ring, pos>>
         /\ UNCHANGED <<target, requested, stopped, acked, playing, eof, ended,
                        fault, decoder, req, priming, engine, history>>

Ack == /\ Moves("ack", "write")
       /\ acked' = req /\ priming' = TRUE
       /\ UNCHANGED <<target, requested, stopped, playing, pos, eof, ended,
                      fault, ring, decoder, req, engine, history>>

\* Mutant: the stock is waited for though no more will come.
StillPrimingToTheEnd == priming /\ Len(ring) < PrimeFrames

StillPriming == priming /\ Len(ring) < PrimeFrames /\ eof = NoEof

\* begin (pause, priming), read and the position of finish.
Play == /\ cpc = "play"
        /\ IF ~playing \/ StillPriming
             THEN cpc' = "write" /\ UNCHANGED <<ring, pos, priming, given>>
             ELSE LET k == Min({Period, Len(ring)})
                  IN /\ cpc' = "end" /\ priming' = FALSE
                     /\ ring' = SubSeq(ring, k + 1, Len(ring))
                     /\ pos' = pos + k
                     /\ given' = IF k = 0 THEN given ELSE ring[k]
        /\ UNCHANGED <<target, requested, stopped, acked, playing, eof, ended,
                       fault, decoder, req, engine, asked, refused, broke,
                       landed, late>>

\* finish: has the position reached the end?
End == /\ cpc = "end"
       /\ cpc' = IF eof # NoEof /\ pos >= eof THEN "mark" ELSE "write"
       /\ UNCHANGED <<shared, ring, decoder, req, priming, engine, history>>

\* finish: ended.  It may have been cleared for a new seek since.
Mark == /\ Moves("mark", "write")
        /\ ended' = TRUE
        /\ late' = (eof = NoEof /\ dpc # "clear")
        /\ UNCHANGED <<target, requested, stopped, acked, playing, pos, eof,
                       fault, ring, decoder, req, priming, engine, asked,
                       refused, broke, given, landed>>

\* writei: written, or lost with an xrun, or the device is gone.
Write == /\ cpc = "write"
         /\ \/ cpc' = "begin" /\ UNCHANGED fault
            \/ cpc' = "off" /\ fault' = TRUE
         /\ UNCHANGED <<target, requested, stopped, acked, playing, pos, eof,
                        ended, ring, decoder, req, priming, engine, history>>

\* The flag is up: the loop ends before the next period.
Quit == /\ Moves("begin", "off") /\ phase = "closing"
        /\ UNCHANGED <<shared, ring, decoder, req, priming, engine, history>>

Output == Begin \/ Flush \/ Ack \/ Play \/ End \/ Mark \/ Write \/ Quit

-----------------------------------------------------------------------------
\* The engine.

\* spawn_decoder has its Ready, and the output thread is started.
Started == /\ phase = "opening" /\ ready
           /\ phase' = "open" /\ cpc' = "begin"
           /\ playing' \in BOOLEAN
           /\ UNCHANGED <<target, requested, stopped, acked, pos, eof, ended,
                          fault, ring, decoder, req, priming, asking, history>>

\* No Ready: the decoder failed, or the ring did not fill in time; or the
\* output thread could not be started.  The worker is dropped.
NotStarted == /\ phase = "opening" /\ phase' = "stopping"
              /\ UNCHANGED <<shared, ring, decoder, output, asking, history>>

PlayPause == /\ phase = "open" /\ ~asking
             /\ playing' = ~playing
             /\ UNCHANGED <<target, requested, stopped, acked, pos, eof, ended,
                            fault, ring, decoder, output, engine, history>>

\* request_seek, its two stores.
StoreTarget(t) == /\ phase = "open" /\ ~asking
                  /\ target' = t /\ asked' = Append(asked, t)
                  /\ asking' = TRUE
                  /\ UNCHANGED <<requested, stopped, acked, playing, pos, eof,
                                 ended, fault, ring, decoder, output, phase,
                                 refused, broke, given, landed, late>>

Request == /\ asking /\ asking' = FALSE
           /\ requested' = requested + 1
           /\ UNCHANGED <<target, stopped, acked, playing, pos, eof, ended,
                          fault, ring, decoder, output, phase, history>>

\* close: the output thread, then the decoder.
Close == /\ phase = "open" /\ ~asking /\ phase' = "closing"
         /\ UNCHANGED <<shared, ring, decoder, output, asking, history>>

StopDecoder == /\ phase = "closing" /\ cpc = "off" /\ phase' = "stopping"
               /\ UNCHANGED <<shared, ring, decoder, output, asking, history>>

Closed == /\ phase = "stopping" /\ dpc = "off" /\ phase' = "closed"
          /\ UNCHANGED <<shared, ring, decoder, output, asking, history>>

Joins == Request \/ StopDecoder \/ Closed
Seek == \E t \in 0 .. Length : StoreTarget(t)
EngineStep == Started \/ NotStarted \/ PlayPause \/ Seek \/ Close \/ Joins

-----------------------------------------------------------------------------
\* open: the session starts at frame s; a source that cannot seek starts at 0.
SessionInit ==
  \E s \in 0 .. Length :
    /\ target = 0 /\ requested = 1 /\ stopped = 1 /\ acked = 1
    /\ playing = FALSE /\ pos = s /\ eof = NoEof /\ ended = FALSE
    /\ fault = FALSE /\ ring = <<>>
    /\ dpc = "poll" /\ seen = 1 /\ aim = 0 /\ myGen = 1 /\ waitAck = FALSE
    /\ base = s /\ written = 0 /\ done = FALSE /\ failed = FALSE
    /\ published = FALSE /\ tail = 0 /\ ready = FALSE
    /\ \/ source \in Lands(s) /\ refused = {}
       \/ source = 0 /\ refused = {1} /\ s # 0
    /\ landed = source /\ broke = {}
    /\ cpc = "off" /\ req = 1 /\ priming = TRUE
    /\ phase = "opening" /\ asking = FALSE
    /\ asked = <<s>> /\ given = [g |-> 0, n |-> -1] /\ late = FALSE

SessionNext == Decode \/ Output \/ EngineStep

SessionSpec == SessionInit /\ [][SessionNext]_vars

\* The threads run, and the engine gets on with what it has begun.
Scheduled == WF_vars(Decode) /\ WF_vars(Output) /\ WF_vars(Joins)
-----------------------------------------------------------------------------

\* The ring never holds a frame of another generation than the one that the
\* callback has acknowledged last, whenever seeks are asked for (I-R5).
RingIsCurrent == \A i \in DOMAIN ring : ring[i].g = acked

\* With no seek on its way the position runs with what is heard: it is the
\* target as long as nothing was handed over, and then as far from the frame
\* after the last one as the target was from where the source stood after the
\* seek, which is Align at most unless it refused.  (pos_frames names the frame
\* that sounds only where the seek was exact: poll_seek takes the target for
\* the place, whatever Decoder::seek and DsdDecoder::seek have found.)
AtRest == requested = acked /\ ~asking

PositionIsTrue ==
  AtRest =>
    /\ pos = IF given.g = acked THEN given.n + 1 + (asked[acked] - landed)
                                ELSE asked[acked]
    /\ acked \notin refused => landed \in Lands(asked[acked])

\* When the engine is told of an end (poll_session), whatever the source has
\* yielded since the seek was heard to the last frame, and it has no more: it
\* is at the end of the track, or it failed.  (The exclusive path takes the
\* failure for the end, nobody reads its DecodeEvent; late: the flag was set by
\* a period that began before the seek.)
EndedIsComplete ==
  AtRest /\ ended /\ ~late =>
    /\ done /\ ring = <<>> /\ tail = 0
    /\ failed \/ source = Length
    /\ source = IF given.g = acked THEN given.n + 1 ELSE landed

\* What is handed to the device is what the listener was promised.
Heard == INSTANCE Listener WITH Silence <- Packet
ImplementsListener == Heard!Spec

\* Nobody waits for ever: a seek is answered, unless the path is closed or
\* the device is gone; close returns, which waits for two threads that may be
\* waiting for each other, for room in the ring or for a seek; and a track that
\* is left to play comes to its end.
WaitsEnd ==
  /\ requested # acked ~> requested = acked \/ cpc = "off"
  /\ phase = "closing" ~> phase = "closed"
  /\ <>[](phase = "open" /\ playing /\ ~fault) => <>(phase = "open" /\ ended)

=============================================================================
