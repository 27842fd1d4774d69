------------------------------- MODULE Playback -------------------------------
(***************************************************************************)
(* How one browser follows and steers its room: the messages of playback.js*)
(* and its handlers of the player's events.  The room is open: it may send *)
(* any state at any time (RoomClock has what it does send).                *)
(*                                                                         *)
(* The player is Plyr around a YouTube frame or a media element.  The      *)
(* frame's wrapper reports play, pause and seeking within the call, and    *)
(* what the frame reports comes later; every event of a media element      *)
(* comes later, and its play() returns a promise.  An event still to come  *)
(* is a member of a set: their order is open and repetitions are one.      *)
(* Positions are left out: a state may find the player adrift or not.      *)
(* Nothing reconnects, so the page is followed until its connection closes.*)
(***************************************************************************)
EXTENDS Naturals

CONSTANTS
  Source, Speed,  \* videos and playback speeds
  Provider,       \* what plays a video: YouTube's frame or a media element
  State,          \* the states the room may send
  None,           \* the state of a room without a video (source "")
  MaxPlays,       \* bound: play() promises pending at once
  MaxHandlers     \* bound: no step adds a handler beside so many of 'playing'

ASSUME PlaybackAssumption ==
  /\ Provider \in [Source -> {"youtube", "html5"}]
  /\ State \subseteq [src : Source, status : {"stopped", "playing", "paused"}, speed : Speed]
  /\ 1 \in Speed /\ MaxPlays \in Nat /\ MaxHandlers \in Nat

Event == {"play", "playing", "pause", "seeking", "ratechange"}

VARIABLE b  \* the browser: the player, the handlers and the script's variables

\* The default video is one of YouTube's; the speed is the user's last.
Init ==
  \E s \in Source, v \in Speed :
    /\ Provider[s] = "youtube"
    /\ b =
        [src |-> s, mode |-> "paused", speed |-> v,  \* the player
         seeking |-> FALSE, events |-> {},
         plays |-> 0,                                \* pending play() promises
         attached |-> FALSE,                         \* the named handlers
         anon |-> 0,                                 \* handlers of 'playing'
         role |-> "none", listen |-> TRUE, open |-> TRUE,
         latest |-> None,                            \* latestStateUpdate
         syncSeeking |-> FALSE, firstClick |-> FALSE,
         stable_pause |-> FALSE, pauseTimer |-> FALSE,
         sent |-> 0]                                 \* updates sent by the last step

-----------------------------------------------------------------------------
\* What the update says is left out; the duration is taken to be known.
stateChanged(c) ==
  IF c.syncSeeking THEN [c EXCEPT !.syncSeeking = FALSE]
  ELSE IF c.firstClick /\ c.latest # None /\ c.latest.status = "playing"
       THEN [c EXCEPT !.firstClick = FALSE]
  ELSE [c EXCEPT !.firstClick = FALSE,
                 !.sent = IF c.role = "master" THEN @ + 1 ELSE @]

\* The handlers of an event.  'playing' has the anonymous ones only, and each
\* of them calls stateChanged: after two calls no flag is left to swallow one.
Playing(c) ==
  LET p == [c EXCEPT !.stable_pause = FALSE]
      q == stateChanged(stateChanged(p))
  IN CASE c.anon = 0 -> c
       [] c.anon = 1 -> stateChanged(p)
       [] OTHER -> [q EXCEPT !.sent = IF c.role = "master" THEN @ + (c.anon - 2) ELSE @]

Named(c, e) ==
  CASE e = "play"       -> [c EXCEPT !.pauseTimer = FALSE]
    [] e = "pause"      -> [c EXCEPT !.pauseTimer = TRUE]
    [] e = "ratechange" -> stateChanged(c)
    [] e = "seeking"    -> LET p == [c EXCEPT !.pauseTimer = FALSE]
                           IN IF c.stable_pause THEN stateChanged(p) ELSE p

Handle(c, e) ==
  IF e = "playing" THEN Playing(c) ELSE IF c.attached THEN Named(c, e) ELSE c

\* The player raises an event, within the call or later.
Raise(c, e) ==
  IF Provider[c.src] = "youtube" /\ e \in {"play", "pause", "seeking"}
  THEN Handle(c, e)
  ELSE [c EXCEPT !.events = @ \cup {e}]

\* The player's operations.  A seek while playing ends in 'playing' again.
Play(c) == Raise(Raise([c EXCEPT !.mode = "playing"], "play"), "playing")
Pause(c) == IF c.mode = "playing" THEN Raise([c EXCEPT !.mode = "paused"], "pause") ELSE c
SetSpeed(c, v) == Raise([c EXCEPT !.speed = v], "ratechange")
Seek(c) ==
  LET p == Raise([c EXCEPT !.seeking = TRUE], "seeking")
  IN IF c.mode = "playing" THEN Raise(p, "playing") ELSE p
\* A media element is stopped by a pause and a seek to its start.
Stop(c) ==
  LET p == Pause(c)
  IN [(IF Provider[c.src] = "html5" THEN Seek(p) ELSE p) EXCEPT !.mode = "stopped"]
Load(c, s) ==
  [c EXCEPT !.src = s, !.mode = "paused", !.speed = 1, !.seeking = FALSE, !.events = {}]

removePlyrEventHandlers(c) == [c EXCEPT !.attached = FALSE]

\* Adding a named handler again changes nothing; the anonymous one is new
\* every time and never removed.
addPlyrEventHandlers(c) == [c EXCEPT !.attached = TRUE, !.anon = @ + 1]

\* Do something to the player with the handlers removed.
Quietly(c, Op(_)) == addPlyrEventHandlers(Op(removePlyrEventHandlers(c)))

-----------------------------------------------------------------------------
\* Mutant: syncSeeking is set after the seek.
FlagAfterSeek(c) == [Seek(c) EXCEPT !.syncSeeking = TRUE]

FollowPosition(c) == Seek([c EXCEPT !.syncSeeking = TRUE])

\* A media element's handlers are put back when its play() settles.
PlayElement(c, allowed) ==
  [(IF allowed THEN Play(c) ELSE c) EXCEPT !.plays = @ + 1]

FollowStatus(c, status, allowed) ==
  CASE status = "stopped" /\ c.mode # "stopped" -> Quietly(c, Stop)
    [] status = "playing" /\ c.mode # "playing" ->
         IF Provider[c.src] = "youtube" THEN Quietly(c, Play)
         ELSE PlayElement(removePlyrEventHandlers(c), allowed)
    [] status = "paused" /\ c.mode = "playing" ->
         [Quietly(c, Pause) EXCEPT !.stable_pause = TRUE]
    [] OTHER -> c

FollowSpeed(c, v) == IF c.speed # v THEN Quietly(c, LAMBDA p : SetSpeed(p, v)) ELSE c

\* Whether the player is adrift, and whether a page may start a video.
updateLocalState(c, s, adrift, allowed) ==
  LET there == IF adrift THEN FollowPosition(c) ELSE c
  IN FollowSpeed(FollowStatus(there, s.status, allowed), s.speed)

\* A guest that has stopped following reads no state.
Follows(c) == c.listen \/ c.role = "master"

\* Mutant: a room without a video empties the player too.
EmptiesPlayer(c, s, adrift, allowed) ==
  LET known == [c EXCEPT !.latest = s]
  IN CASE ~Follows(c) -> c
       [] Follows(c) /\ s = None -> Quietly(known, LAMBDA p : Load(p, None))
       [] OTHER -> updateLocalState(known, s, adrift, allowed)

\* Mutant: a state that comes while the client's own seek goes on is dropped.
DropsWhileSyncing(c, s, adrift, allowed) ==
  LET known == [c EXCEPT !.latest = s]
      loaded == IF s = None \/ c.src = s.src THEN known
                ELSE Quietly(known, LAMBDA p : Load(p, s.src))
  IN CASE ~Follows(c) -> c
       [] Follows(c) /\ s = None -> Quietly(known, LAMBDA p : p)
       [] OTHER -> IF loaded.syncSeeking THEN loaded
                   ELSE updateLocalState(loaded, s, adrift, allowed)

\* case 3 of ws.onmessage
OnState(c, s, adrift, allowed) ==
  LET known == [c EXCEPT !.latest = s]
      loaded == IF s = None \/ c.src = s.src THEN known
                ELSE Quietly(known, LAMBDA p : Load(p, s.src))
  IN CASE ~Follows(c) -> c
       [] Follows(c) /\ s = None -> Quietly(known, LAMBDA p : p)
       [] OTHER -> IF loaded.seeking /\ ~loaded.stable_pause THEN loaded
                   ELSE updateLocalState(loaded, s, adrift, allowed)

-----------------------------------------------------------------------------
\* A step from c, the browser with nothing sent yet.
Quiet == [b EXCEPT !.sent = 0]

\* Bound on the steps that add handlers.
FewHandlers == b.anon < MaxHandlers

\* case 0 of ws.onmessage; Hello comes before any state.
ReceivesHello ==
  /\ b.open /\ b.role = "none"
  /\ \E r \in {"master", "guest"} : b' = [Quiet EXCEPT !.role = r, !.listen = TRUE]

Receives(s) ==
  /\ b.open /\ b.role # "none" /\ b.plays < MaxPlays /\ FewHandlers
  /\ \E adrift, allowed \in BOOLEAN : b' = OnState(Quiet, s, adrift, allowed)

ReceivesState == \E s \in State \cup {None} : Receives(s)

\* An event that was to come comes, with the handlers there are by now.
EventComes(e) ==
  /\ b.open /\ e \in b.events
  /\ e = "pause" => ~b.pauseTimer  \* bound: pauses are 10 ms apart
  /\ b' = Handle([Quiet EXCEPT !.events = @ \ {e}], e)

\* The timer that pauseEvtHandler set.
PauseIsStable ==
  /\ b.open /\ b.pauseTimer
  /\ b' = stateChanged([Quiet EXCEPT !.pauseTimer = FALSE, !.stable_pause = TRUE])

\* Mutant: a rejected play() leaves the handlers off.
RejectionStaysDeaf ==
  /\ b.open /\ b.plays > 0 /\ FewHandlers
  /\ LET p == [Quiet EXCEPT !.plays = @ - 1] IN
       \/ b.mode = "playing" /\ b' = addPlyrEventHandlers(p)
       \/ b' = [p EXCEPT !.firstClick = TRUE]

\* A play() promise is fulfilled while the player plays; or it is rejected,
\* because the page may not start a video or the player was paused or given
\* another video, although it may play again by now.
PlaySettles ==
  /\ b.open /\ b.plays > 0 /\ FewHandlers
  /\ LET p == [addPlyrEventHandlers(Quiet) EXCEPT !.plays = @ - 1] IN
       \/ b.mode = "playing" /\ b' = p
       \/ b' = [p EXCEPT !.firstClick = TRUE]

\* The player has reached the position.
Seeked == b.open /\ b.seeking /\ b' = [Quiet EXCEPT !.seeking = FALSE]

\* ws.onclose
Closes == b.open /\ b' = [removePlyrEventHandlers(Quiet) EXCEPT !.open = FALSE]

-----------------------------------------------------------------------------
UserPlays == b.open /\ b.mode # "playing" /\ b' = Play(Quiet)
UserPauses == b.open /\ b.mode = "playing" /\ ~b.pauseTimer /\ b' = Pause(Quiet)
UserSeeks == b.open /\ b' = Seek(Quiet)
UserSetsSpeed == b.open /\ \E v \in Speed \ {b.speed} : b' = SetSpeed(Quiet, v)

\* newUrl: the new video, whose URL tells the provider, and its first update.
newUrl ==
  /\ b.open /\ b.role = "master" /\ FewHandlers
  /\ \E s \in Source : b' = [Quietly(Quiet, LAMBDA p : Load(p, s)) EXCEPT !.sent = 1]

change_listen == b.open /\ b.role = "guest" /\ b' = [Quiet EXCEPT !.listen = ~@]

User == UserPlays \/ UserPauses \/ UserSeeks \/ UserSetsSpeed \/ newUrl \/ change_listen

Next ==
  \/ ReceivesHello \/ ReceivesState \/ PauseIsStable \/ PlaySettles \/ Seeked \/ Closes
  \/ \E e \in Event : EventComes(e)
  \/ User

(***************************************************************************)
(* Fairness.  The room's ticker repeats the state the room is in, promises *)
(* settle and seeks end.  Nothing is assumed of the user, of the player's  *)
(* events, nor of what the states say.                                     *)
(***************************************************************************)
Fairness ==
  WF_b(ReceivesHello) /\ SF_b(Receives(b.latest)) /\ WF_b(PlaySettles) /\ WF_b(Seeked)

Spec == Init /\ [][Next]_b /\ Fairness

-----------------------------------------------------------------------------
(* Types, and playback.js:329 and 342: nothing makes one step send more    *)
(* than one update but the handlers of 'playing' that were left behind,    *)
(* each of which sends one at most.                                        *)
TypeOK ==
  /\ b \in [src : Source, speed : Speed,
            mode : {"stopped", "playing", "paused"}, seeking : BOOLEAN,
            events : SUBSET Event, plays : 0 .. MaxPlays, attached : BOOLEAN, anon : Nat,
            role : {"none", "master", "guest"}, listen : BOOLEAN, open : BOOLEAN,
            latest : State \cup {None},
            syncSeeking : BOOLEAN, firstClick : BOOLEAN, stable_pause : BOOLEAN,
            pauseTimer : BOOLEAN, sent : Nat]
  /\ b.sent <= 1 \/ b.sent <= b.anon

(* playback.js:226-281 and 327-348.  Once it has met its room, an open     *)
(* client listens to its player, or a play() promise is pending whose      *)
(* settling will make it listen: whatever states, user actions, rejections *)
(* and late promises come in between, a client never goes deaf.            *)
NeverDeaf == b.open /\ b.anon > 0 => b.attached \/ b.plays > 0

(* playback.js:226-281.  A state that is followed is not proposed back in  *)
(* the same breath, although following it makes the player seek, pause and *)
(* play, and the player may report that within the call.                   *)
NoImmediateEcho == [][b'.sent > 0 => ~ReceivesState]_b

(* README.md:5, "just follow the video playing".  When all the states that *)
(* a following client still reads are the same and its user keeps off, its *)
(* player comes to match them, unless the page may not start a video (or   *)
(* the bound on handlers is met).                                          *)
Matches(s) ==
  b.src = s.src /\ b.speed = s.speed /\ (b.mode = "playing") = (s.status = "playing")
FollowersFollow ==
  \A s \in State :
    <>[](b.open /\ b.latest = s /\ Follows(b)) /\ <>[][~User]_b =>
      <>[](Matches(s) \/ b.firstClick \/ b.plays > 0 \/ ~FewHandlers)
=============================================================================
