---------------------------- MODULE PlaybackProofs ----------------------------
(***************************************************************************)
(* Theorems about Playback for any videos, speeds and states the room may  *)
(* send, and any number of pending play() promises: no client goes deaf,   *)
(* following is silent, and a browser keeps its type.                      *)
(***************************************************************************)
EXTENDS Playback, TLAPS

\* A browser; how many updates its last step sent does not matter here.
Browser ==
  [src : Source, speed : Speed,
   mode : {"stopped", "playing", "paused"}, seeking : BOOLEAN,
   events : SUBSET Event, plays : Nat, attached : BOOLEAN, anon : Nat,
   role : {"none", "master", "guest"}, listen : BOOLEAN, open : BOOLEAN,
   latest : State \cup {None},
   syncSeeking : BOOLEAN, firstClick : BOOLEAN, stable_pause : BOOLEAN,
   pauseTimer : BOOLEAN, sent : Nat]

\* It hears its player, or a promise is pending that will make it hear.
Hears(c) == c \in Browser /\ (c.open /\ c.anon > 0 => c.attached \/ c.plays > 0)

\* From c to d the handlers, the connection and the promises stay.
Keeps(c, d) ==
  /\ d \in Browser
  /\ d.attached = c.attached /\ d.anon = c.anon /\ d.open = c.open /\ d.plays = c.plays

\* A browser that keeps its handlers hears as it did.
LEMMA KeepsHearing ==
  ASSUME NEW c, NEW d, Hears(c), Keeps(c, d)
  PROVE  Hears(d)
BY DEF Hears, Keeps

\* stateChanged leaves the handlers alone.
LEMMA StateChangedKeeps ==
  ASSUME NEW c \in Browser
  PROVE  Keeps(c, stateChanged(c))
<1>1. CASE c.syncSeeking
  BY <1>1 DEF Browser, Keeps, stateChanged
<1>2. CASE ~c.syncSeeking /\ c.firstClick /\ c.latest # None /\ c.latest.status = "playing"
  BY <1>2 DEF Browser, Keeps, stateChanged
<1>3. CASE ~c.syncSeeking /\ ~(c.firstClick /\ c.latest # None /\ c.latest.status = "playing")
  <2> DEFINE n == IF c.role = "master" THEN c.sent + 1 ELSE c.sent
  <2>1. n \in Nat
    BY DEF Browser
  <2>2. stateChanged(c) = [c EXCEPT !.firstClick = FALSE, !.sent = n]
    BY <1>3 DEF stateChanged
  <2> HIDE DEF n
  <2>3. stateChanged(c) \in Browser
    BY <2>1, <2>2 DEF Browser
  <2>4. /\ stateChanged(c).attached = c.attached /\ stateChanged(c).anon = c.anon
        /\ stateChanged(c).open = c.open /\ stateChanged(c).plays = c.plays
    BY <2>2 DEF Browser
  <2> QED
    BY <2>3, <2>4 DEF Keeps
<1> QED
  BY <1>1, <1>2, <1>3

\* So do the handlers of every event.
LEMMA HandleKeeps ==
  ASSUME NEW c \in Browser, NEW e \in Event
  PROVE  Keeps(c, Handle(c, e))
<1>1. CASE e = "playing"
  <2> DEFINE d == [c EXCEPT !.stable_pause = FALSE]
             q == stateChanged(stateChanged(d))
             n == IF c.role = "master" THEN q.sent + (c.anon - 2) ELSE q.sent
  <2>1. Keeps(c, c) /\ Keeps(c, d)
    BY DEF Browser, Keeps
  <2>2. Keeps(c, stateChanged(d)) /\ Keeps(c, q)
    BY <2>1, StateChangedKeeps DEF Keeps
  <2>3. ASSUME c.anon # 0, c.anon # 1 PROVE Keeps(c, [q EXCEPT !.sent = n])
    <3>1. n \in Nat
      BY <2>2, <2>3 DEF Keeps, Browser
    <3> HIDE DEF q, n
    <3> QED
      BY <2>2, <3>1 DEF Keeps, Browser
  <2>4. Handle(c, e) \in {c, stateChanged(d)} \/
        (c.anon # 0 /\ c.anon # 1 /\ Handle(c, e) = [q EXCEPT !.sent = n])
    BY <1>1 DEF Handle, Playing
  <2> HIDE DEF d, q, n
  <2> QED
    BY <2>1, <2>2, <2>3, <2>4
<1>2. CASE e # "playing"
  <2>1. Keeps(c, c) /\ Keeps(c, [c EXCEPT !.pauseTimer = FALSE])
        /\ Keeps(c, [c EXCEPT !.pauseTimer = TRUE])
    BY DEF Keeps, Browser
  <2>2. Keeps(c, stateChanged(c)) /\ Keeps(c, stateChanged([c EXCEPT !.pauseTimer = FALSE]))
    BY <2>1, StateChangedKeeps DEF Keeps
  <2> QED
    BY <1>2, <2>1, <2>2 DEF Handle, Named, Event
<1> QED
  BY <1>1, <1>2

\* And the player, whether it raises an event within the call or later.
LEMMA RaiseKeeps ==
  ASSUME NEW c \in Browser, NEW e \in Event, NEW d, Keeps(c, d)
  PROVE  Keeps(c, Raise(d, e))
<1>1. Keeps(d, [d EXCEPT !.events = @ \cup {e}])
  BY DEF Keeps, Browser
<1>2. Keeps(d, Raise(d, e))
  BY <1>1, HandleKeeps DEF Raise, Keeps
<1> QED
  BY <1>2 DEF Keeps

\* Playing does not touch the handlers.
LEMMA PlayKeeps ==
  ASSUME NEW c \in Browser
  PROVE  Keeps(c, Play(c))
<1>1. Keeps(c, [c EXCEPT !.mode = "playing"])
  BY DEF Keeps, Browser
<1> QED
  BY <1>1, RaiseKeeps DEF Play, Event

\* Nor does pausing.
LEMMA PauseKeeps ==
  ASSUME NEW c \in Browser
  PROVE  Keeps(c, Pause(c))
<1>1. Keeps(c, c) /\ Keeps(c, [c EXCEPT !.mode = "paused"])
  BY DEF Keeps, Browser
<1> QED
  BY <1>1, RaiseKeeps DEF Pause, Event

\* Nor does a change of speed.
LEMMA SetSpeedKeeps ==
  ASSUME NEW c \in Browser, NEW v \in Speed
  PROVE  Keeps(c, SetSpeed(c, v))
<1>1. Keeps(c, [c EXCEPT !.speed = v])
  BY DEF Keeps, Browser
<1> QED
  BY <1>1, RaiseKeeps DEF SetSpeed, Event

\* Nor does a seek.
LEMMA SeekKeeps ==
  ASSUME NEW c \in Browser
  PROVE  Keeps(c, Seek(c))
<1>1. Keeps(c, [c EXCEPT !.seeking = TRUE])
  BY DEF Keeps, Browser
<1> QED
  BY <1>1, RaiseKeeps DEF Seek, Event

\* Nor does stopping.
LEMMA StopKeeps ==
  ASSUME NEW c \in Browser
  PROVE  Keeps(c, Stop(c))
<1> DEFINE d == IF Provider[c.src] = "html5" THEN Seek(Pause(c)) ELSE Pause(c)
<1>1. Keeps(c, d)
  BY PauseKeeps, SeekKeeps DEF Keeps
<1>2. Stop(c) = [d EXCEPT !.mode = "stopped"]
  BY DEF Stop
<1> HIDE DEF d
<1>3. Keeps(d, [d EXCEPT !.mode = "stopped"])
  BY <1>1 DEF Keeps, Browser
<1> QED
  BY <1>1, <1>2, <1>3 DEF Keeps

\* Nor does a new video.
LEMMA LoadKeeps ==
  ASSUME NEW c \in Browser, NEW s \in Source
  PROVE  Keeps(c, Load(c, s))
BY PlaybackAssumption DEF Load, Keeps, Browser

-----------------------------------------------------------------------------
\* Whatever is done to the player quietly, the browser hears it afterwards.
LEMMA AddHears ==
  ASSUME NEW c \in Browser
  PROVE  Hears(addPlyrEventHandlers(c))
<1>1. c.anon + 1 \in Nat
  BY DEF Browser
<1> QED
  BY <1>1 DEF addPlyrEventHandlers, Hears, Browser

\* Removing the handlers leaves a browser.
LEMMA RemoveTypes ==
  ASSUME NEW c \in Browser
  PROVE  removePlyrEventHandlers(c) \in Browser
BY DEF removePlyrEventHandlers, Browser

\* Following a status.
LEMMA StatusHears ==
  ASSUME NEW c, Hears(c), NEW status, NEW allowed \in BOOLEAN
  PROVE  Hears(FollowStatus(c, status, allowed))
<1> DEFINE r == removePlyrEventHandlers(c)
<1>1. c \in Browser /\ r \in Browser
  BY RemoveTypes DEF Hears
<1>2. Stop(r) \in Browser /\ Play(r) \in Browser /\ Pause(r) \in Browser
  BY <1>1, StopKeeps, PlayKeeps, PauseKeeps DEF Keeps
<1> HIDE DEF r
<1>3. Hears(Quietly(c, Stop)) /\ Hears(Quietly(c, Play)) /\ Hears(Quietly(c, Pause))
  BY <1>2, AddHears DEF Quietly, r
<1>4. Hears([Quietly(c, Pause) EXCEPT !.stable_pause = TRUE])
  BY <1>3 DEF Hears, Browser
<1>5. Hears(PlayElement(r, allowed))
  <2> DEFINE d == IF allowed THEN Play(r) ELSE r
  <2>1. d \in Browser
    BY <1>1, <1>2
  <2> HIDE DEF d
  <2>2. [d EXCEPT !.plays = d.plays + 1] \in Browser /\ d.plays + 1 > 0
    BY <2>1 DEF Browser
  <2>3. Hears([d EXCEPT !.plays = d.plays + 1])
    BY <2>1, <2>2 DEF Hears, Browser
  <2> QED
    BY <2>3 DEF PlayElement, d
<1> QED
  BY <1>3, <1>4, <1>5 DEF FollowStatus, r

\* Following a state.
LEMMA UpdateHears ==
  ASSUME NEW c, Hears(c), NEW s \in State, NEW adrift \in BOOLEAN, NEW allowed \in BOOLEAN
  PROVE  Hears(updateLocalState(c, s, adrift, allowed))
<1>1. c \in Browser /\ s.speed \in Speed
  BY PlaybackAssumption DEF Hears
<1>2. Hears(FollowPosition(c))
  <2>1. Keeps(c, [c EXCEPT !.syncSeeking = TRUE])
    BY <1>1 DEF Keeps, Browser
  <2>2. Keeps(c, FollowPosition(c))
    BY <2>1, SeekKeeps DEF Keeps, FollowPosition
  <2> QED
    BY <2>2, KeepsHearing
<1> DEFINE there == IF adrift THEN FollowPosition(c) ELSE c
<1> DEFINE d == FollowStatus(there, s.status, allowed)
<1>3. Hears(d)
  BY <1>2, StatusHears
<1> HIDE DEF d
<1>4. Hears(FollowSpeed(d, s.speed))
  <2> DEFINE e == SetSpeed(removePlyrEventHandlers(d), s.speed)
  <2>1. e \in Browser
    BY <1>1, <1>3, RemoveTypes, SetSpeedKeeps DEF Hears, Keeps
  <2> HIDE DEF e
  <2>2. Quietly(d, LAMBDA p : SetSpeed(p, s.speed)) = addPlyrEventHandlers(e)
    BY DEF Quietly, e
  <2> QED
    BY <1>3, <2>1, <2>2, AddHears DEF FollowSpeed
<1> QED
  BY <1>4 DEF updateLocalState, d

\* Receiving a state.
LEMMA StateHears ==
  ASSUME NEW c, Hears(c), NEW s \in State \cup {None},
         NEW adrift \in BOOLEAN, NEW allowed \in BOOLEAN
  PROVE  Hears(OnState(c, s, adrift, allowed))
<1> DEFINE known == [c EXCEPT !.latest = s]
<1>1. Hears(known)
  BY DEF Hears, Browser
<1>2. CASE s = None
  <2>1. Hears(Quietly(known, LAMBDA p : p))
    BY <1>1, RemoveTypes, AddHears DEF Quietly, Hears
  <2> HIDE DEF known
  <2>2. OnState(c, s, adrift, allowed) \in {c, Quietly(known, LAMBDA p : p)}
    BY <1>2 DEF OnState, known
  <2> QED
    BY <2>1, <2>2
<1>3. CASE s # None
  <2> DEFINE loaded == IF c.src = s.src THEN known ELSE Quietly(known, LAMBDA p : Load(p, s.src))
  <2>1. s \in State /\ s.src \in Source
    BY <1>3, PlaybackAssumption
  <2>2. Load(removePlyrEventHandlers(known), s.src) \in Browser
    BY <1>1, <2>1, RemoveTypes, LoadKeeps DEF Hears, Keeps
  <2>3. Hears(loaded)
    BY <1>1, <2>2, AddHears DEF Quietly
  <2>4. Hears(updateLocalState(loaded, s, adrift, allowed))
    BY <2>1, <2>3, UpdateHears
  <2> QED
    BY <1>3, <2>3, <2>4 DEF OnState
<1> QED
  BY <1>2, <1>3

-----------------------------------------------------------------------------
\* No step makes a browser deaf.
LEMMA HearsStep == Hears(b) /\ [Next]_b => Hears(b')
<1> SUFFICES ASSUME Hears(b), [Next]_b PROVE Hears(b')
  OBVIOUS
<1>1. b \in Browser /\ Keeps(b, Quiet)
  BY DEF Hears, Keeps, Quiet, Browser
<1>2. Quiet \in Browser /\ Hears(Quiet)
  BY <1>1, KeepsHearing DEF Keeps
<1>3. ASSUME NEW d, Keeps(Quiet, d), b' = d PROVE Hears(b')
  BY <1>2, <1>3, KeepsHearing
<1> HIDE DEF Quiet
<1>4. CASE ReceivesHello
  <2>1. PICK r \in {"master", "guest"} : b' = [Quiet EXCEPT !.role = r, !.listen = TRUE]
    BY <1>4 DEF ReceivesHello
  <2>2. Keeps(Quiet, [Quiet EXCEPT !.role = r, !.listen = TRUE])
    BY <1>2 DEF Keeps, Browser
  <2> QED
    BY <1>3, <2>1, <2>2
<1>5. CASE ReceivesState
  BY <1>2, <1>5, StateHears DEF ReceivesState, Receives
<1>6. ASSUME NEW e \in Event, EventComes(e) PROVE Hears(b')
  <2>1. Keeps(Quiet, [Quiet EXCEPT !.events = @ \ {e}])
    BY <1>2 DEF Keeps, Browser
  <2>2. Keeps(Quiet, Handle([Quiet EXCEPT !.events = @ \ {e}], e))
    BY <2>1, HandleKeeps DEF Keeps
  <2> QED
    BY <1>3, <1>6, <2>2 DEF EventComes
<1>7. CASE PauseIsStable
  <2>1. Keeps(Quiet, [Quiet EXCEPT !.pauseTimer = FALSE, !.stable_pause = TRUE])
    BY <1>2 DEF Keeps, Browser
  <2>2. Keeps(Quiet, stateChanged([Quiet EXCEPT !.pauseTimer = FALSE, !.stable_pause = TRUE]))
    BY <2>1, StateChangedKeeps DEF Keeps
  <2> QED
    BY <1>3, <1>7, <2>2 DEF PauseIsStable
<1>8. CASE PlaySettles
  <2> DEFINE d == addPlyrEventHandlers(Quiet)
  <2>1. d \in Browser /\ d.attached /\ d.plays = b.plays
    <3>1. d \in Browser
      BY <1>2, AddHears DEF Hears
    <3>2. d.attached /\ d.plays = Quiet.plays
      BY <1>2 DEF addPlyrEventHandlers, Browser
    <3> QED
      BY <1>1, <3>1, <3>2 DEF Keeps
  <2> HIDE DEF d
  <2>2. b.plays - 1 \in Nat
    BY <1>1, <1>8 DEF PlaySettles, Browser
  <2> DEFINE p == [d EXCEPT !.plays = b.plays - 1]
  <2>3. p \in Browser /\ p.attached
    BY <2>1, <2>2 DEF Browser
  <2>4. p = [d EXCEPT !.plays = @ - 1]
    BY <2>1
  <2>5. b' \in {p, [p EXCEPT !.firstClick = TRUE]}
    BY <1>8, <2>4 DEF PlaySettles, d
  <2> HIDE DEF p
  <2>6. Hears(p) /\ Hears([p EXCEPT !.firstClick = TRUE])
    BY <2>3 DEF Hears, Browser
  <2> QED
    BY <2>5, <2>6
<1>9. CASE Seeked
  <2>1. Keeps(Quiet, [Quiet EXCEPT !.seeking = FALSE])
    BY <1>2 DEF Keeps, Browser
  <2> QED
    BY <1>3, <1>9, <2>1 DEF Seeked
<1>10. CASE Closes
  <2>1. removePlyrEventHandlers(Quiet) \in Browser
    BY <1>2, RemoveTypes
  <2>2. Hears([removePlyrEventHandlers(Quiet) EXCEPT !.open = FALSE])
    BY <2>1 DEF Hears, Browser
  <2> QED
    BY <1>10, <2>2 DEF Closes
<1>11. CASE UserPlays \/ UserPauses \/ UserSeeks \/ UserSetsSpeed
  BY <1>2, <1>3, <1>11, PlayKeeps, PauseKeeps, SeekKeeps, SetSpeedKeeps
     DEF UserPlays, UserPauses, UserSeeks, UserSetsSpeed
<1>12. CASE newUrl
  <2>1. PICK s \in Source : b' = [Quietly(Quiet, LAMBDA p : Load(p, s)) EXCEPT !.sent = 1]
    BY <1>12 DEF newUrl
  <2>2. Hears(Quietly(Quiet, LAMBDA p : Load(p, s)))
    BY <1>2, RemoveTypes, LoadKeeps, AddHears DEF Quietly, Keeps
  <2> DEFINE d == Quietly(Quiet, LAMBDA p : Load(p, s))
  <2> HIDE DEF d
  <2>3. Hears([d EXCEPT !.sent = 1])
    <3>1. d \in Browser /\ (d.open /\ d.anon > 0 => d.attached \/ d.plays > 0)
      BY <2>2 DEF Hears, d
    <3>2. [d EXCEPT !.sent = 1] \in Browser
      BY <3>1 DEF Browser
    <3>3. /\ [d EXCEPT !.sent = 1].open = d.open /\ [d EXCEPT !.sent = 1].anon = d.anon
          /\ [d EXCEPT !.sent = 1].attached = d.attached
          /\ [d EXCEPT !.sent = 1].plays = d.plays
      BY <3>1 DEF Browser
    <3> QED
      BY <3>1, <3>2, <3>3 DEF Hears
  <2> QED
    BY <2>1, <2>3 DEF d
<1>13. CASE change_listen
  <2>1. Keeps(Quiet, [Quiet EXCEPT !.listen = ~@])
    BY <1>2 DEF Keeps, Browser
  <2> QED
    BY <1>3, <1>13, <2>1 DEF change_listen
<1>14. CASE UNCHANGED b
  BY <1>14
<1> QED
  BY <1>4, <1>5, <1>6, <1>7, <1>8, <1>9, <1>10, <1>11, <1>12, <1>13, <1>14 DEF Next, User

(* For any videos, speeds and states, however many promises are pending: a *)
(* client that has met its room never stops hearing its player for good.   *)
THEOREM ClientsNeverGoDeaf == Spec => []NeverDeaf
<1>1. Init => Hears(b)
  BY PlaybackAssumption DEF Init, Hears, Browser
<1>2. Hears(b) => NeverDeaf
  BY DEF Hears, NeverDeaf
<1>3. Hears(b) /\ [Next]_b => Hears(b)'
  BY HearsStep
<1> QED
  BY <1>1, <1>2, <1>3, PTL DEF Spec

-----------------------------------------------------------------------------
\* From c to d nothing is sent and the handlers stay off.
Silent(c, d) == d \in Browser /\ ~d.attached /\ d.sent = c.sent

\* With the handlers off, no event that is raised within a call is heard:
\* those of the anonymous handlers come later.
LEMMA RaiseSilent ==
  ASSUME NEW c \in Browser, NEW e \in Event, NEW d, Silent(c, d)
  PROVE  Silent(c, Raise(d, e))
<1>1. Raise(d, e) \in Browser /\ ~Raise(d, e).attached
  BY RaiseKeeps DEF Silent, Keeps
<1>2. CASE Provider[d.src] = "youtube" /\ e \in {"play", "pause", "seeking"}
  BY <1>2 DEF Raise, Handle, Silent
<1>3. CASE ~(Provider[d.src] = "youtube" /\ e \in {"play", "pause", "seeking"})
  <2>1. Raise(d, e).sent = d.sent
    BY <1>3 DEF Raise, Silent, Browser
  <2> QED
    BY <1>1, <2>1 DEF Silent
<1> QED
  BY <1>2, <1>3

\* With the handlers off, playing sends nothing.
LEMMA PlaySilent ==
  ASSUME NEW c \in Browser, ~c.attached
  PROVE  Silent(c, Play(c))
<1>1. Silent(c, [c EXCEPT !.mode = "playing"])
  BY DEF Silent, Browser
<1> QED
  BY <1>1, RaiseSilent DEF Play, Event

\* Nor does pausing.
LEMMA PauseSilent ==
  ASSUME NEW c \in Browser, ~c.attached
  PROVE  Silent(c, Pause(c))
<1>1. Silent(c, c) /\ Silent(c, [c EXCEPT !.mode = "paused"])
  BY DEF Silent, Browser
<1> QED
  BY <1>1, RaiseSilent DEF Pause, Event

\* Nor does a seek.
LEMMA SeekSilent ==
  ASSUME NEW c \in Browser, ~c.attached
  PROVE  Silent(c, Seek(c))
<1>1. Silent(c, [c EXCEPT !.seeking = TRUE])
  BY DEF Silent, Browser
<1> QED
  BY <1>1, RaiseSilent DEF Seek, Event

\* Nor does stopping.
LEMMA StopSilent ==
  ASSUME NEW c \in Browser, ~c.attached
  PROVE  Silent(c, Stop(c))
<1> DEFINE d == IF Provider[c.src] = "html5" THEN Seek(Pause(c)) ELSE Pause(c)
<1>1. Silent(c, d)
  BY PauseSilent, SeekSilent DEF Silent
<1>2. Stop(c) = [d EXCEPT !.mode = "stopped"]
  BY DEF Stop
<1> HIDE DEF d
<1>3. Silent(c, [d EXCEPT !.mode = "stopped"])
  BY <1>1 DEF Silent, Browser
<1> QED
  BY <1>2, <1>3

\* Nor does a change of speed.
LEMMA SetSpeedSilent ==
  ASSUME NEW c \in Browser, ~c.attached, NEW v \in Speed
  PROVE  Silent(c, SetSpeed(c, v))
<1>1. Silent(c, [c EXCEPT !.speed = v])
  BY DEF Silent, Browser
<1> QED
  BY <1>1, RaiseSilent DEF SetSpeed, Event

\* The handlers hear the seek that follows a position, and syncSeeking keeps
\* stateChanged from proposing it.
LEMMA FollowPositionSilent ==
  ASSUME NEW c \in Browser
  PROVE  FollowPosition(c) \in Browser /\ FollowPosition(c).sent = c.sent
<1> DEFINE d == [c EXCEPT !.syncSeeking = TRUE]
<1> DEFINE f == [d EXCEPT !.seeking = TRUE]
<1>1. d \in Browser /\ f \in Browser /\ f.syncSeeking /\ f.sent = c.sent
  BY DEF Browser
<1>2. FollowPosition(c) \in Browser
  BY <1>1, SeekKeeps DEF FollowPosition, Keeps
<1> HIDE DEF f
<1>3. Raise(f, "seeking") \in Browser /\ Raise(f, "seeking").sent = c.sent
  <2>1. Raise(f, "seeking") \in Browser
    BY <1>1, RaiseKeeps DEF Keeps, Event, Browser
  <2>2. Handle(f, "seeking").sent = c.sent
    <3> DEFINE p == [f EXCEPT !.pauseTimer = FALSE]
    <3>1. p \in Browser /\ p.syncSeeking /\ p.sent = c.sent
      BY <1>1 DEF Browser
    <3> HIDE DEF p
    <3>2. stateChanged(p).sent = c.sent
      BY <3>1 DEF stateChanged, Browser
    <3>3. Handle(f, "seeking") \in {f, p, stateChanged(p)}
      BY DEF Handle, Named, p
    <3> QED
      BY <1>1, <3>1, <3>2, <3>3
  <2>3. [f EXCEPT !.events = @ \cup {"seeking"}].sent = c.sent
    BY <1>1 DEF Browser
  <2> QED
    BY <2>1, <2>2, <2>3 DEF Raise
<1> DEFINE g == Raise(f, "seeking")
<1> HIDE DEF g
<1>4. Raise(g, "playing").sent = g.sent
  BY <1>3 DEF Raise, Browser, g
<1>5. FollowPosition(c) \in {g, Raise(g, "playing")}
  BY DEF FollowPosition, Seek, f, g
<1> QED
  BY <1>2, <1>3, <1>4, <1>5 DEF g

\* Putting the handlers off and on sends nothing.
LEMMA HandlersSilent ==
  ASSUME NEW c \in Browser
  PROVE  /\ Silent(c, removePlyrEventHandlers(c))
         /\ addPlyrEventHandlers(c) \in Browser /\ addPlyrEventHandlers(c).sent = c.sent
<1>1. addPlyrEventHandlers(c) \in Browser
  BY AddHears DEF Hears
<1> QED
  BY <1>1, RemoveTypes DEF Silent, removePlyrEventHandlers, addPlyrEventHandlers, Browser

\* What is done quietly sends nothing.
LEMMA QuietlySilent ==
  ASSUME NEW c \in Browser, NEW d, Silent(removePlyrEventHandlers(c), d)
  PROVE  addPlyrEventHandlers(d) \in Browser /\ addPlyrEventHandlers(d).sent = c.sent
BY HandlersSilent DEF Silent

\* Following a status sends nothing.
LEMMA StatusSilent ==
  ASSUME NEW c \in Browser, NEW status, NEW allowed \in BOOLEAN
  PROVE  /\ FollowStatus(c, status, allowed) \in Browser
         /\ FollowStatus(c, status, allowed).sent = c.sent
<1> DEFINE r == removePlyrEventHandlers(c)
<1> DEFINE Same(d) == d \in Browser /\ d.sent = c.sent
<1>1. r \in Browser /\ ~r.attached /\ r.sent = c.sent
  BY HandlersSilent DEF Silent
<1>2. Silent(r, Stop(r)) /\ Silent(r, Play(r)) /\ Silent(r, Pause(r))
  BY <1>1, StopSilent, PlaySilent, PauseSilent
<1>3. Same(Quietly(c, Stop)) /\ Same(Quietly(c, Play)) /\ Same(Quietly(c, Pause))
  BY <1>2, QuietlySilent DEF Quietly
<1> HIDE DEF r
<1>4. Same([Quietly(c, Pause) EXCEPT !.stable_pause = TRUE])
  <2> DEFINE d == Quietly(c, Pause)
  <2>1. Same(d)
    BY <1>3
  <2> HIDE DEF d
  <2>2. Same([d EXCEPT !.stable_pause = TRUE])
    BY <2>1 DEF Browser
  <2> QED
    BY <2>2 DEF d
<1>5. Same(PlayElement(r, allowed))
  <2> DEFINE d == IF allowed THEN Play(r) ELSE r
  <2>1. Same(d)
    BY <1>1, <1>2 DEF Silent
  <2> HIDE DEF d
  <2>2. Same([d EXCEPT !.plays = d.plays + 1])
    <3>1. d.plays + 1 \in Nat
      BY <2>1 DEF Browser
    <3> QED
      BY <2>1, <3>1 DEF Browser
  <2> QED
    BY <2>2 DEF PlayElement, d
<1> QED
  BY <1>3, <1>4, <1>5 DEF FollowStatus, r

\* Following a state sends nothing.
LEMMA UpdateSilent ==
  ASSUME NEW c \in Browser, NEW s \in State, NEW adrift \in BOOLEAN, NEW allowed \in BOOLEAN
  PROVE  updateLocalState(c, s, adrift, allowed).sent = c.sent
<1> DEFINE there == IF adrift THEN FollowPosition(c) ELSE c
<1> DEFINE d == FollowStatus(there, s.status, allowed)
<1> DEFINE r == removePlyrEventHandlers(d)
<1>1. d \in Browser /\ d.sent = c.sent
  BY FollowPositionSilent, StatusSilent
<1> HIDE DEF d
<1>2. s.speed \in Speed /\ r \in Browser /\ ~r.attached
  BY <1>1, PlaybackAssumption, HandlersSilent DEF Silent
<1>3. Silent(r, SetSpeed(r, s.speed))
  BY <1>2, SetSpeedSilent
<1>4. Quietly(d, LAMBDA p : SetSpeed(p, s.speed)) = addPlyrEventHandlers(SetSpeed(r, s.speed))
  BY DEF Quietly
<1> HIDE DEF r
<1>5. FollowSpeed(d, s.speed).sent = d.sent
  BY <1>1, <1>3, <1>4, QuietlySilent DEF FollowSpeed, r
<1> QED
  BY <1>1, <1>5 DEF updateLocalState, d

\* Receiving a state sends nothing.
LEMMA StateSilent ==
  ASSUME NEW c \in Browser, NEW s \in State \cup {None},
         NEW adrift \in BOOLEAN, NEW allowed \in BOOLEAN
  PROVE  OnState(c, s, adrift, allowed).sent = c.sent
<1> DEFINE known == [c EXCEPT !.latest = s]
<1>1. known \in Browser /\ known.sent = c.sent
  BY DEF Browser
<1>2. CASE s = None
  <2>1. Quietly(known, LAMBDA p : p).sent = c.sent
    BY <1>1, HandlersSilent, QuietlySilent DEF Quietly, Silent
  <2> HIDE DEF known
  <2>2. OnState(c, s, adrift, allowed) \in {c, Quietly(known, LAMBDA p : p)}
    BY <1>2 DEF OnState, known
  <2> QED
    BY <2>1, <2>2
<1>3. CASE s # None
  <2> DEFINE r == removePlyrEventHandlers(known)
  <2> DEFINE loaded == IF c.src = s.src THEN known ELSE Quietly(known, LAMBDA p : Load(p, s.src))
  <2>1. s \in State /\ s.src \in Source
    BY <1>3, PlaybackAssumption
  <2>2. r \in Browser /\ ~r.attached /\ r.sent = c.sent
    BY <1>1, HandlersSilent DEF Silent
  <2> HIDE DEF known
  <2>3. Silent(r, Load(r, s.src))
    <3> HIDE DEF r
    <3>1. Load(r, s.src) \in Browser /\ ~Load(r, s.src).attached
      BY <2>1, <2>2, LoadKeeps DEF Keeps
    <3>2. Load(r, s.src).sent = r.sent
      BY <2>2 DEF Load, Browser
    <3> QED
      BY <2>2, <3>1, <3>2 DEF Silent
  <2>4. loaded \in Browser /\ loaded.sent = c.sent
    BY <1>1, <2>3, QuietlySilent DEF Quietly
  <2>5. updateLocalState(loaded, s, adrift, allowed).sent = c.sent
    BY <2>1, <2>4, UpdateSilent
  <2> QED
    BY <1>3, <2>4, <2>5 DEF OnState, known
<1> QED
  BY <1>2, <1>3

(* For any videos, speeds and states: a state that is followed is not      *)
(* proposed back in the same breath.                                       *)
THEOREM FollowingIsSilent == Spec => NoImmediateEcho
<1>1. Init => Hears(b)
  BY PlaybackAssumption DEF Init, Hears, Browser
<1>2. Hears(b) /\ [Next]_b => Hears(b)'
  BY HearsStep
<1>3. Hears(b) /\ [Next]_b => [b'.sent > 0 => ~ReceivesState]_b
  <2> SUFFICES ASSUME Hears(b), ReceivesState PROVE b'.sent = 0
    OBVIOUS
  <2>1. Quiet \in Browser /\ Quiet.sent = 0
    BY DEF Hears, Quiet, Browser
  <2> QED
    BY <2>1, StateSilent DEF ReceivesState, Receives
<1> QED
  BY <1>1, <1>2, <1>3, PTL DEF Spec, NoImmediateEcho

-----------------------------------------------------------------------------
\* From c to d at most n updates are sent, and no promise is made.
Sends(c, d, n) == Keeps(c, d) /\ d.sent <= c.sent + n

\* stateChanged sends one update at most.
LEMMA StateChangedSends ==
  ASSUME NEW c \in Browser
  PROVE  Sends(c, stateChanged(c), 1)
<1>1. stateChanged(c).sent \in {c.sent, c.sent + 1}
  BY DEF stateChanged, Browser
<1>2. c.sent \in Nat
  BY DEF Browser
<1> QED
  BY <1>1, <1>2, StateChangedKeeps DEF Sends

\* An event sends one update at most, and 'playing' one for each handler.
LEMMA HandleSends ==
  ASSUME NEW c \in Browser, NEW e \in Event
  PROVE  /\ e = "playing" => Sends(c, Handle(c, e), c.anon)
         /\ e # "playing" => Sends(c, Handle(c, e), 1)
<1>1. c.sent \in Nat
  BY DEF Browser
<1>2. CASE e = "playing"
  <2> DEFINE p == [c EXCEPT !.stable_pause = FALSE]
             q == stateChanged(stateChanged(p))
             n == IF c.role = "master" THEN q.sent + (c.anon - 2) ELSE q.sent
  <2>1. p \in Browser /\ p.sent = c.sent /\ c.anon \in Nat
    BY DEF Browser
  <2> HIDE DEF p
  <2>2. stateChanged(p) \in Browser /\ stateChanged(p).sent \in Nat
        /\ stateChanged(p).sent <= c.sent + 1
    BY <2>1, StateChangedSends DEF Sends, Keeps, Browser
  <2>3. q.sent <= stateChanged(p).sent + 1
    BY <2>2, StateChangedSends DEF Sends
  <2>4. q \in Browser /\ q.sent \in Nat
    BY <2>2, StateChangedKeeps DEF Keeps, Browser
  <2>5. CASE c.anon = 0
    <3>1. Handle(c, e) = c
      BY <1>2, <2>5 DEF Handle, Playing
    <3> QED
      BY <1>1, <1>2, <2>5, <3>1, HandleKeeps DEF Sends
  <2>6. CASE c.anon = 1
    <3>1. Handle(c, e) = stateChanged(p)
      BY <1>2, <2>6 DEF Handle, Playing, p
    <3> QED
      BY <1>2, <2>2, <2>6, <3>1, HandleKeeps DEF Sends
  <2>7. CASE c.anon # 0 /\ c.anon # 1
    <3>1. Handle(c, e) = [q EXCEPT !.sent = n]
      BY <1>2, <2>7 DEF Handle, Playing, p
    <3>2. n <= c.sent + c.anon
      <4> HIDE DEF q
      <4> QED
        BY <1>1, <2>1, <2>2, <2>3, <2>4, <2>7
    <3>3. [q EXCEPT !.sent = n].sent = n
      <4> HIDE DEF q, n
      <4> QED
        BY <2>4 DEF Browser
    <3>4. Handle(c, e).sent <= c.sent + c.anon
      BY <3>1, <3>2, <3>3
    <3> QED
      BY <1>2, <3>4, HandleKeeps DEF Sends
  <2> QED
    BY <1>2, <2>5, <2>6, <2>7
<1>3. CASE e # "playing"
  <2> DEFINE p == [c EXCEPT !.pauseTimer = FALSE]
             q == [c EXCEPT !.pauseTimer = TRUE]
  <2>1. p \in Browser /\ p.sent = c.sent /\ q \in Browser /\ q.sent = c.sent
    BY DEF Browser
  <2>2. Handle(c, e) \in {c, p, q, stateChanged(c), stateChanged(p)}
    BY <1>3 DEF Handle, Named, Event
  <2> HIDE DEF p, q
  <2>3. stateChanged(c).sent <= c.sent + 1 /\ stateChanged(p).sent <= c.sent + 1
    BY <2>1, StateChangedSends DEF Sends
  <2>4. Handle(c, e).sent <= c.sent + 1
    BY <1>1, <2>1, <2>2, <2>3
  <2>5. Handle(c, e).sent \in Nat
    BY HandleKeeps DEF Keeps, Browser
  <2> QED
    BY <1>1, <1>3, <2>4, <2>5, HandleKeeps DEF Sends
<1> QED
  BY <1>2, <1>3

\* Within the call that raises it an event sends one update at most, and
\* 'playing', which always comes later, none.
LEMMA RaiseSends ==
  ASSUME NEW c \in Browser, NEW e \in Event
  PROVE  Sends(c, Raise(c, e), 1) /\ (e = "playing" => Sends(c, Raise(c, e), 0))
<1>1. Keeps(c, Raise(c, e)) /\ c.sent \in Nat
  <2>1. Keeps(c, c)
    BY DEF Keeps
  <2> QED
    BY <2>1, RaiseKeeps DEF Browser
<1>2. CASE Provider[c.src] = "youtube" /\ e \in {"play", "pause", "seeking"}
  BY <1>2, HandleSends DEF Raise
<1>3. CASE ~(Provider[c.src] = "youtube" /\ e \in {"play", "pause", "seeking"})
  <2>1. Raise(c, e).sent = c.sent
    BY <1>3 DEF Raise, Browser
  <2> QED
    BY <1>1, <2>1 DEF Sends
<1> QED
  BY <1>2, <1>3

\* An operation of the player sends one update at most.
LEMMA OperationSends ==
  ASSUME NEW c \in Browser
  PROVE  /\ Sends(c, Play(c), 1) /\ Sends(c, Pause(c), 1) /\ Sends(c, Seek(c), 1)
         /\ \A v \in Speed : Sends(c, SetSpeed(c, v), 1)
<1>1. ASSUME NEW p \in Browser, NEW e \in Event, p.sent = c.sent
      PROVE  /\ Raise(p, e).sent <= c.sent + 1
             /\ Raise(Raise(p, e), "playing").sent <= c.sent + 1
  <2>1. Raise(p, e) \in Browser /\ Raise(p, e).sent <= c.sent + 1
    BY <1>1, RaiseSends DEF Sends, Keeps
  <2>2. Raise(Raise(p, e), "playing").sent <= Raise(p, e).sent + 0
    BY <2>1, RaiseSends DEF Sends, Event
  <2>3. Raise(p, e).sent \in Nat /\ Raise(Raise(p, e), "playing").sent \in Nat /\ c.sent \in Nat
    BY <2>1, RaiseSends DEF Sends, Keeps, Event, Browser
  <2> QED
    BY <2>1, <2>2, <2>3
<1>2. Play(c).sent <= c.sent + 1
  <2>1. [c EXCEPT !.mode = "playing"] \in Browser /\ [c EXCEPT !.mode = "playing"].sent = c.sent
    BY DEF Browser
  <2> QED
    BY <1>1, <2>1 DEF Play, Event
<1>3. Pause(c).sent <= c.sent + 1
  <2>1. [c EXCEPT !.mode = "paused"] \in Browser /\ [c EXCEPT !.mode = "paused"].sent = c.sent
        /\ c.sent <= c.sent + 1
    BY DEF Browser
  <2> QED
    BY <1>1, <2>1 DEF Pause, Event
<1>4. Seek(c).sent <= c.sent + 1
  <2>1. [c EXCEPT !.seeking = TRUE] \in Browser /\ [c EXCEPT !.seeking = TRUE].sent = c.sent
    BY DEF Browser
  <2> QED
    BY <1>1, <2>1 DEF Seek, Event
<1>5. ASSUME NEW v \in Speed PROVE SetSpeed(c, v).sent <= c.sent + 1
  <2>1. [c EXCEPT !.speed = v] \in Browser /\ [c EXCEPT !.speed = v].sent = c.sent
    BY DEF Browser
  <2> QED
    BY <1>1, <2>1 DEF SetSpeed, Event
<1> QED
  BY <1>2, <1>3, <1>4, <1>5, PlayKeeps, PauseKeeps, SeekKeeps, SetSpeedKeeps DEF Sends

\* From c to d the promises stay; from c to d one is made at most.
SamePlays(c, d) == d \in Browser /\ d.plays = c.plays
OnePlay(c, d) == d \in Browser /\ d.plays \in {c.plays, c.plays + 1}

\* The handlers make no promise.
LEMMA HandlersPlays ==
  ASSUME NEW c \in Browser
  PROVE  SamePlays(c, removePlyrEventHandlers(c)) /\ SamePlays(c, addPlyrEventHandlers(c))
<1>1. addPlyrEventHandlers(c) \in Browser
  BY AddHears DEF Hears
<1> QED
  BY <1>1, RemoveTypes DEF SamePlays, removePlyrEventHandlers, addPlyrEventHandlers, Browser

\* Nor does what is done quietly.
LEMMA QuietlyPlays ==
  ASSUME NEW c \in Browser, NEW d, Keeps(removePlyrEventHandlers(c), d)
  PROVE  SamePlays(c, addPlyrEventHandlers(d))
<1>1. d \in Browser /\ d.plays = c.plays
  BY HandlersPlays DEF Keeps, SamePlays
<1> QED
  BY <1>1, HandlersPlays DEF SamePlays

\* Following a status makes one promise at most.
LEMMA StatusPlays ==
  ASSUME NEW c \in Browser, NEW status, NEW allowed \in BOOLEAN
  PROVE  OnePlay(c, FollowStatus(c, status, allowed))
<1> DEFINE r == removePlyrEventHandlers(c)
<1>1. r \in Browser /\ r.plays = c.plays /\ c.plays \in Nat
  BY HandlersPlays DEF SamePlays, Browser
<1>2. Keeps(r, Stop(r)) /\ Keeps(r, Play(r)) /\ Keeps(r, Pause(r))
  BY <1>1, StopKeeps, PlayKeeps, PauseKeeps
<1>3. SamePlays(c, Quietly(c, Stop)) /\ SamePlays(c, Quietly(c, Play))
      /\ SamePlays(c, Quietly(c, Pause))
  BY <1>2, QuietlyPlays DEF Quietly
<1> HIDE DEF r
<1>4. SamePlays(c, [Quietly(c, Pause) EXCEPT !.stable_pause = TRUE])
  <2> DEFINE d == Quietly(c, Pause)
  <2>1. SamePlays(c, d)
    BY <1>3
  <2> HIDE DEF d
  <2>2. SamePlays(c, [d EXCEPT !.stable_pause = TRUE])
    BY <2>1 DEF SamePlays, Browser
  <2> QED
    BY <2>2 DEF d
<1>5. OnePlay(c, PlayElement(r, allowed))
  <2> DEFINE d == IF allowed THEN Play(r) ELSE r
  <2>1. d \in Browser /\ d.plays = c.plays
    BY <1>1, <1>2 DEF Keeps
  <2> HIDE DEF d
  <2>2. OnePlay(c, [d EXCEPT !.plays = d.plays + 1])
    <3>1. d.plays + 1 \in Nat
      BY <2>1 DEF Browser
    <3> QED
      BY <2>1, <3>1 DEF OnePlay, Browser
  <2> QED
    BY <2>2 DEF PlayElement, d
<1>6. OnePlay(c, c)
  BY DEF OnePlay
<1> QED
  BY <1>3, <1>4, <1>5, <1>6 DEF FollowStatus, r, SamePlays, OnePlay

\* So does following a state.
LEMMA UpdatePlays ==
  ASSUME NEW c \in Browser, NEW s \in State, NEW adrift \in BOOLEAN, NEW allowed \in BOOLEAN
  PROVE  OnePlay(c, updateLocalState(c, s, adrift, allowed))
<1> DEFINE there == IF adrift THEN FollowPosition(c) ELSE c
<1> DEFINE d == FollowStatus(there, s.status, allowed)
<1> DEFINE r == removePlyrEventHandlers(d)
<1>1. SamePlays(c, FollowPosition(c))
  <2>1. [c EXCEPT !.syncSeeking = TRUE] \in Browser /\ [c EXCEPT !.syncSeeking = TRUE].plays = c.plays
    BY DEF Browser
  <2> QED
    BY <2>1, SeekKeeps DEF Keeps, SamePlays, FollowPosition
<1>2. SamePlays(c, there)
  BY <1>1 DEF SamePlays
<1> HIDE DEF there
<1>3. OnePlay(c, d)
  BY <1>2, StatusPlays DEF OnePlay, SamePlays
<1> HIDE DEF d
<1>4. s.speed \in Speed /\ r \in Browser
  BY <1>3, PlaybackAssumption, RemoveTypes DEF OnePlay
<1>5. SamePlays(d, addPlyrEventHandlers(SetSpeed(r, s.speed)))
  BY <1>3, <1>4, SetSpeedKeeps, QuietlyPlays DEF OnePlay
<1>6. Quietly(d, LAMBDA p : SetSpeed(p, s.speed)) = addPlyrEventHandlers(SetSpeed(r, s.speed))
  BY DEF Quietly
<1> HIDE DEF r
<1>7. SamePlays(d, FollowSpeed(d, s.speed))
  BY <1>3, <1>5, <1>6 DEF FollowSpeed, SamePlays, OnePlay, r
<1> QED
  BY <1>3, <1>7 DEF updateLocalState, d, there, SamePlays, OnePlay

\* So does receiving one.
LEMMA StatePlays ==
  ASSUME NEW c \in Browser, NEW s \in State \cup {None},
         NEW adrift \in BOOLEAN, NEW allowed \in BOOLEAN
  PROVE  OnePlay(c, OnState(c, s, adrift, allowed))
<1> DEFINE known == [c EXCEPT !.latest = s]
<1>1. SamePlays(c, known)
  BY DEF SamePlays, Browser
<1>2. CASE s = None
  <2>1. Keeps(removePlyrEventHandlers(known), removePlyrEventHandlers(known))
    BY <1>1, RemoveTypes DEF Keeps, SamePlays
  <2>2. SamePlays(known, Quietly(known, LAMBDA p : p))
    BY <1>1, <2>1, QuietlyPlays DEF Quietly, SamePlays
  <2> HIDE DEF known
  <2>3. OnState(c, s, adrift, allowed) \in {c, Quietly(known, LAMBDA p : p)}
    BY <1>2 DEF OnState, known
  <2> QED
    BY <1>1, <2>2, <2>3 DEF SamePlays, OnePlay
<1>3. CASE s # None
  <2> DEFINE r == removePlyrEventHandlers(known)
  <2> DEFINE loaded == IF c.src = s.src THEN known ELSE Quietly(known, LAMBDA p : Load(p, s.src))
  <2>1. s \in State /\ s.src \in Source
    BY <1>3, PlaybackAssumption
  <2> HIDE DEF known
  <2>2. Keeps(r, Load(r, s.src))
    BY <1>1, <2>1, RemoveTypes, LoadKeeps DEF SamePlays
  <2>3. SamePlays(known, Quietly(known, LAMBDA p : Load(p, s.src)))
    BY <1>1, <2>2, QuietlyPlays DEF Quietly, SamePlays
  <2>4. SamePlays(c, loaded)
    BY <1>1, <2>3 DEF SamePlays
  <2>5. OnState(c, s, adrift, allowed) \in {c, loaded, updateLocalState(loaded, s, adrift, allowed)}
    BY <1>3 DEF OnState, known
  <2> HIDE DEF loaded
  <2>6. OnePlay(c, updateLocalState(loaded, s, adrift, allowed))
    BY <2>1, <2>4, UpdatePlays DEF SamePlays, OnePlay
  <2> QED
    BY <2>4, <2>5, <2>6 DEF SamePlays, OnePlay
<1> QED
  BY <1>2, <1>3

\* The bounds of TypeOK.
Few(d) == d.plays <= MaxPlays /\ (d.sent <= 1 \/ d.sent <= d.anon)
Bounded == Few(b)

\* No step sends more than one update or one for each handler of 'playing',
\* nor leaves more promises than MaxPlays.
LEMMA BoundedStep == Hears(b) /\ Bounded /\ [Next]_b => Bounded'
<1> SUFFICES ASSUME Hears(b), Bounded, [Next]_b PROVE Few(b')
  BY DEF Bounded
<1>1. /\ Quiet \in Browser /\ Quiet.sent = 0 /\ Quiet.plays = b.plays /\ Quiet.events = b.events
      /\ b.plays \in Nat /\ b.plays <= MaxPlays /\ MaxPlays \in Nat
  BY PlaybackAssumption DEF Hears, Bounded, Few, Quiet, Browser
<1>2. ASSUME NEW c \in Browser, NEW d, c.sent = 0, c.plays = b.plays,
             Sends(c, d, 1) \/ Sends(c, d, c.anon), b' = d
      PROVE  Few(b')
  <2>1. /\ d.plays = b.plays /\ d.anon = c.anon /\ c.anon \in Nat /\ d.sent \in Nat
        /\ d.sent <= 0 + 1 \/ d.sent <= 0 + c.anon
    BY <1>2 DEF Sends, Keeps, Browser
  <2> QED
    BY <1>1, <1>2, <2>1 DEF Few
<1>15. ASSUME b'.plays <= MaxPlays, b'.sent \in {0, 1} PROVE Few(b')
  BY <1>15 DEF Few
<1> HIDE DEF Quiet
<1>3. CASE ReceivesHello
  <2>1. PICK r \in {"master", "guest"} : b' = [Quiet EXCEPT !.role = r, !.listen = TRUE]
    BY <1>3 DEF ReceivesHello
  <2>2. b'.plays = Quiet.plays /\ b'.sent = Quiet.sent
    BY <1>1, <2>1 DEF Browser
  <2> QED
    BY <1>1, <1>15, <2>2
<1>4. CASE ReceivesState
  <2>1. PICK s \in State \cup {None} : Receives(s)
    BY <1>4 DEF ReceivesState
  <2>2. PICK adrift, allowed \in BOOLEAN : b' = OnState(Quiet, s, adrift, allowed)
    BY <2>1 DEF Receives
  <2>3. b'.sent = 0
    BY <1>1, <2>2, StateSilent
  <2>4. b'.plays \in {b.plays, b.plays + 1} /\ b.plays < MaxPlays
    BY <1>1, <2>1, <2>2, StatePlays DEF OnePlay, Receives
  <2> QED
    BY <1>1, <1>15, <2>3, <2>4
<1>5. ASSUME NEW e \in Event, EventComes(e) PROVE Few(b')
  <2> DEFINE c == [Quiet EXCEPT !.events = @ \ {e}]
  <2>1. c \in Browser /\ c.sent = 0 /\ c.plays = b.plays
    BY <1>1 DEF Browser
  <2>2. b' = Handle(c, e)
    BY <1>5 DEF EventComes
  <2> HIDE DEF c
  <2>3. Sends(c, Handle(c, e), 1) \/ Sends(c, Handle(c, e), c.anon)
    BY <2>1, HandleSends
  <2> QED
    BY <1>2, <2>1, <2>2, <2>3
<1>6. CASE PauseIsStable
  <2> DEFINE c == [Quiet EXCEPT !.pauseTimer = FALSE, !.stable_pause = TRUE]
  <2>1. c \in Browser /\ c.sent = 0 /\ c.plays = b.plays
    BY <1>1 DEF Browser
  <2>2. b' = stateChanged(c)
    BY <1>6 DEF PauseIsStable
  <2> HIDE DEF c
  <2> QED
    BY <1>2, <2>1, <2>2, StateChangedSends
<1>7. CASE PlaySettles
  <2> DEFINE d == addPlyrEventHandlers(Quiet)
             p == [d EXCEPT !.plays = d.plays - 1]
  <2>1. d \in Browser /\ d.sent = 0 /\ d.plays = b.plays
    <3>1. addPlyrEventHandlers(Quiet).sent = Quiet.sent
      BY <1>1, HandlersSilent
    <3> QED
      BY <1>1, <3>1, HandlersPlays DEF SamePlays
  <2>2. b' \in {p, [p EXCEPT !.firstClick = TRUE]}
    BY <1>7 DEF PlaySettles
  <2> HIDE DEF d
  <2>3. p.plays = b.plays - 1 /\ p.sent = 0
        /\ [p EXCEPT !.firstClick = TRUE].plays = b.plays - 1 /\ [p EXCEPT !.firstClick = TRUE].sent = 0
    BY <2>1 DEF Browser
  <2>4. b'.plays = b.plays - 1 /\ b'.sent = 0
    <3> HIDE DEF p
    <3> QED
      BY <2>2, <2>3
  <2> QED
    BY <1>1, <1>15, <2>4
<1>8. CASE Seeked
  <2>1. b'.plays = Quiet.plays /\ b'.sent = Quiet.sent
    BY <1>1, <1>8 DEF Seeked, Browser
  <2> QED
    BY <1>1, <1>15, <2>1
<1>9. CASE Closes
  <2> DEFINE d == removePlyrEventHandlers(Quiet)
  <2>1. d \in Browser /\ d.plays = b.plays /\ d.sent = 0
    BY <1>1, HandlersSilent, HandlersPlays DEF Silent, SamePlays
  <2> HIDE DEF d
  <2>2. b' = [d EXCEPT !.open = FALSE]
    BY <1>9 DEF Closes, d
  <2>3. b'.plays = b.plays /\ b'.sent = 0
    BY <2>1, <2>2 DEF Browser
  <2> QED
    BY <1>1, <1>15, <2>3
<1>10. CASE UserPlays \/ UserPauses \/ UserSeeks
  <2>1. b' \in {Play(Quiet), Pause(Quiet), Seek(Quiet)}
    BY <1>10 DEF UserPlays, UserPauses, UserSeeks
  <2>2. Sends(Quiet, b', 1)
    BY <1>1, <2>1, OperationSends
  <2> QED
    BY <1>1, <1>2, <2>2
<1>11. CASE UserSetsSpeed
  <2>1. PICK v \in Speed : b' = SetSpeed(Quiet, v)
    BY <1>11 DEF UserSetsSpeed
  <2>2. Sends(Quiet, b', 1)
    BY <1>1, <2>1, OperationSends
  <2> QED
    BY <1>1, <1>2, <2>2
<1>12. CASE newUrl
  <2>1. PICK s \in Source : b' = [Quietly(Quiet, LAMBDA p : Load(p, s)) EXCEPT !.sent = 1]
    BY <1>12 DEF newUrl
  <2> DEFINE d == Quietly(Quiet, LAMBDA p : Load(p, s))
  <2>2. SamePlays(Quiet, d)
    <3>1. Keeps(removePlyrEventHandlers(Quiet), Load(removePlyrEventHandlers(Quiet), s))
      BY <1>1, RemoveTypes, LoadKeeps
    <3> QED
      BY <1>1, <3>1, QuietlyPlays DEF Quietly
  <2> HIDE DEF d
  <2>3. b'.plays = b.plays /\ b'.sent = 1
    BY <1>1, <2>1, <2>2 DEF SamePlays, Browser, d
  <2> QED
    BY <1>1, <1>15, <2>3
<1>13. CASE change_listen
  <2>1. b'.plays = Quiet.plays /\ b'.sent = Quiet.sent
    BY <1>1, <1>13 DEF change_listen, Browser
  <2> QED
    BY <1>1, <1>15, <2>1
<1>14. CASE UNCHANGED b
  BY <1>14 DEF Bounded, Few
<1> QED
  BY <1>3, <1>4, <1>5, <1>6, <1>7, <1>8, <1>9, <1>10, <1>11, <1>12, <1>13, <1>14 DEF Next, User

(* For any videos, providers, speeds, states and bounds: a browser stays   *)
(* well-typed, and however many handlers of 'playing' have been left       *)
(* behind (playback.js:329, 342), one step sends one update at most, or    *)
(* one for each of them.                                                   *)
THEOREM BrowserTypes == Spec => []TypeOK
<1>1. Init => Hears(b) /\ Bounded
  BY PlaybackAssumption DEF Init, Hears, Browser, Bounded, Few
<1>2. Hears(b) /\ [Next]_b => Hears(b)'
  BY HearsStep
<1>3. Hears(b) /\ Bounded => TypeOK
  <2> SUFFICES ASSUME Hears(b), Bounded PROVE TypeOK
    OBVIOUS
  <2>1. b.plays \in 0 .. MaxPlays /\ (b.sent <= 1 \/ b.sent <= b.anon)
    BY PlaybackAssumption DEF Hears, Bounded, Few, Browser
  <2> QED
    BY <2>1 DEF Hears, Browser, TypeOK
<1> QED
  BY <1>1, <1>2, <1>3, BoundedStep, PTL DEF Spec
=============================================================================
