------------------------------ MODULE ReplayLab ------------------------------
(***************************************************************************)
(* The Replay Lab: the pickers, cursor and playback of replay-lab.tsx over *)
(* the state live-dashboard.tsx keeps for it.  Every reply is applied to   *)
(* whatever is selected when it comes, in whatever order the replies come. *)
(* A capture is its underlying, expiry, day and number in the day.         *)
(***************************************************************************)
EXTENDS Naturals, SequencesExt, FiniteSets, FiniteSetsExt

CONSTANTS
  ReplayDays,     \* the days stored of each underlying and expiry listed
  DayCaptures,    \* captures stored of a day
  MaxReplayActs   \* bound: what the user does and requests that fail

ASSUME ReplayConstants == DayCaptures \in Nat \ {0} /\ MaxReplayActs \in Nat

VARIABLES
  replay,      \* what is selected: the page's underlying, the expiry, the
               \* day and the days offered
  reel,        \* replaySnapshots, replayIndex, the start id and the picture
  labOpen,     \* the tab is the replay's
  playing,     \* isReplayPlaying
  replayError,
  asks,        \* requests in flight
  calm,        \* for the property: see ReplayAgrees
  replayUsed   \* acts and failures so far

replayVars == <<replay, reel, labOpen, playing, replayError, asks, calm, replayUsed>>

AnyDay == 0
NoCapture == <<>>
EmptyReel == [list |-> <<>>, at |-> 0, start |-> NoCapture, picture |-> NoCapture]

-----------------------------------------------------------------------------
(* listReplayTradingDates; an expiry the underlying does not have has none.*)
DaysOf(u, e) == IF <<u, e>> \in DOMAIN ReplayDays THEN ReplayDays[u, e] ELSE {}

(* listReplaySnapshots, newest first, and fetchReplayTimeline's reverse.   *)
IsLater(a, b) == a[3] > b[3] \/ (a[3] = b[3] /\ a[4] > b[4])
NewestFirst(u, e, d) ==
  SetToSortSeq({<<u, e, x, k>> : x \in {y \in DaysOf(u, e) : d \in {AnyDay, y}}, k \in 1..DayCaptures}, IsLater)
ReplayTimeline(u, e, d) == Reverse(NewestFirst(u, e, d))

(* nth tells equal requests in flight apart; alone: the request began with *)
(* no other in flight, and nothing has been done since.                    *)
SendAsk(others, a) ==
  LET equal == {b.nth : b \in {c \in others : [c EXCEPT !.nth = 0] = a}}
  IN others \cup {[a EXCEPT !.nth = Min((0..Cardinality(equal)) \ equal)]}
LabRequest(kind, u, e, d, what, alone) ==
  [nth |-> 0, kind |-> kind, u |-> u, e |-> e, d |-> d, what |-> what, alone |-> alone]
DatesAsk(u, e, init)     == LabRequest("dates", u, e, AnyDay, init, asks = {})
TimelineAsk(d, alone)    == LabRequest("timeline", replay.u, replay.e, d, "all", alone)
CaptureAsk(c, by, alone) == LabRequest(by, c[1], c[2], c[3], c, alone)

LabAct == replayUsed < MaxReplayActs /\ replayUsed' = replayUsed + 1
Overlapped == {[a EXCEPT !.alone = FALSE] : a \in asks}

-----------------------------------------------------------------------------
(* initializeReplayView: the days, then the newest of them.                *)
InitializeReplay == asks' = SendAsk(Overlapped, DatesAsk(replay.u, replay.e, "init"))

(* The tab is opened, or the session becomes known while it is.            *)
OpenLab ==
  /\ LabAct /\ ~labOpen /\ labOpen' = TRUE /\ InitializeReplay /\ calm' = (calm /\ asks = {})
  /\ UNCHANGED <<replay, reel, playing, replayError>>
AuthUserKnown ==
  /\ LabAct /\ labOpen /\ InitializeReplay /\ calm' = (calm /\ asks = {})
  /\ UNCHANGED <<replay, reel, labOpen, playing, replayError>>

(* Leaving stops the playback's timer and nothing else.                    *)
LeaveLab ==
  /\ LabAct /\ labOpen /\ labOpen' = FALSE
  /\ UNCHANGED <<replay, reel, playing, replayError, asks, calm>>

(* Another underlying is shown: everything is cleared.                     *)
ClearedReel == EmptyReel
UnderlyingShown(u, e) ==
  /\ LabAct /\ u # replay.u /\ <<u, e>> \in DOMAIN ReplayDays
  /\ replay' = [u |-> u, e |-> e, day |-> AnyDay, days |-> {}]
  /\ reel' = ClearedReel /\ playing' = FALSE /\ replayError' = FALSE
  /\ asks' = IF labOpen THEN SendAsk(Overlapped, DatesAsk(u, e, "init")) ELSE Overlapped
  /\ calm' = (asks = {})
  /\ UNCHANGED labOpen

(* The pickers clear the timeline; a new expiry asks for its days.         *)
PickExpiry(e) ==
  /\ LabAct /\ labOpen /\ <<replay.u, e>> \in DOMAIN ReplayDays
  /\ replay' = [replay EXCEPT !.e = e]
  /\ reel' = EmptyReel /\ playing' = FALSE /\ calm' = (asks = {})
  /\ asks' = SendAsk(Overlapped, DatesAsk(replay.u, e, "pick"))
  /\ UNCHANGED <<labOpen, replayError>>

PickDay(d) ==
  /\ LabAct /\ labOpen /\ d \in replay.days
  /\ replay' = [replay EXCEPT !.day = d]
  /\ reel' = EmptyReel /\ playing' = FALSE /\ calm' = (asks = {})
  /\ asks' = Overlapped
  /\ UNCHANGED <<labOpen, replayError>>

LoadReplay ==
  /\ LabAct /\ labOpen /\ replayError' = FALSE
  /\ asks' = SendAsk(Overlapped, TimelineAsk(replay.day, asks = {})) /\ calm' = (calm /\ asks = {})
  /\ UNCHANGED <<replay, reel, labOpen, playing>>

(* loadReplaySnapshotAtIndex.                                              *)
LoadAt(i) ==
  IF i < Len(reel.list)
  THEN /\ replayError' = FALSE
       /\ reel' = [reel EXCEPT !.at = i, !.start = reel.list[i + 1]]
       /\ asks' = SendAsk(Overlapped, CaptureAsk(reel.list[i + 1], "cursor", asks = {}))
       /\ calm' = (calm /\ asks = {})
  ELSE UNCHANGED <<replayError, reel, asks, calm>>

Scrub(i) ==
  /\ LabAct /\ labOpen /\ i < Len(reel.list) /\ i # reel.at /\ LoadAt(i)
  /\ UNCHANGED <<replay, labOpen, playing>>

TogglePlay ==
  /\ LabAct /\ labOpen /\ reel.list # <<>> /\ playing' = ~playing
  /\ UNCHANGED <<replay, reel, labOpen, replayError, asks, calm>>

(* The interval of the playback, which runs while the tab shows it.        *)
AtEnd(i) == i >= Len(reel.list)
PlayTick ==
  /\ labOpen /\ playing
  /\ IF AtEnd(reel.at + 1)
     THEN playing' = FALSE /\ UNCHANGED <<reel, replayError, asks, calm>>
     ELSE LoadAt(reel.at + 1) /\ UNCHANGED playing
  /\ UNCHANGED <<replay, labOpen, replayUsed>>

-----------------------------------------------------------------------------
(* refreshReplayTradingDatesFor: the newest day becomes the selected one,  *)
(* and at the start the timeline of what is selected by then is asked for, *)
(* whether or not the days came.                                           *)
NewestDay(days) == IF days = {} THEN AnyDay ELSE Max(days)
ContinueInit(a, day, failed) ==
  IF a.what = "init"
  THEN asks' = SendAsk(asks \ {a}, TimelineAsk(day, a.alone)) /\ replayError' = FALSE
  ELSE asks' = asks \ {a} /\ replayError' = (failed \/ replayError)

DatesCome(a) ==
  /\ a.kind = "dates"
  /\ replay' = [replay EXCEPT !.days = DaysOf(a.u, a.e), !.day = NewestDay(DaysOf(a.u, a.e))]
  /\ ContinueInit(a, NewestDay(DaysOf(a.u, a.e)), FALSE)
  /\ UNCHANGED <<reel, labOpen, playing, calm, replayUsed>>

DatesFail(a) ==
  /\ a.kind = "dates" /\ LabAct /\ ContinueInit(a, replay.day, TRUE)
  /\ UNCHANGED <<replay, reel, labOpen, playing, calm>>

(* refreshReplayTimeline: the cursor stays on its capture if the timeline  *)
(* has it, and that capture is fetched.                                    *)
CursorIn(c, list) == IF \E i \in DOMAIN list : list[i] = c THEN CHOOSE i \in DOMAIN list : list[i] = c ELSE 1

TimelineComes(a) ==
  /\ a.kind = "timeline"
  /\ LET list == ReplayTimeline(a.u, a.e, a.d)
         i    == CursorIn(reel.start, list)
     IN IF list = <<>>
        THEN /\ reel' = [reel EXCEPT !.list = list, !.at = 0, !.picture = NoCapture]
             /\ asks' = asks \ {a}
        ELSE /\ reel' = [reel EXCEPT !.list = list, !.at = i - 1, !.start = list[i]]
             /\ asks' = SendAsk(asks \ {a}, CaptureAsk(list[i], "load", a.alone))
  /\ calm' = a.alone
  /\ UNCHANGED <<replay, labOpen, playing, replayError, replayUsed>>

TimelineFails(a) ==
  /\ a.kind = "timeline" /\ LabAct /\ asks' = asks \ {a} /\ replayError' = TRUE
  /\ calm' = (calm /\ reel.list = <<>>)
  /\ UNCHANGED <<replay, reel, labOpen, playing>>

CaptureComes(a) ==
  /\ a.kind \in {"cursor", "load"} /\ asks' = asks \ {a}
  /\ reel' = [reel EXCEPT !.picture = a.what]
  /\ UNCHANGED <<replay, labOpen, playing, replayError, calm, replayUsed>>

(* Only the cursor's own fetch stops the playback when it fails.           *)
CaptureFails(a) ==
  /\ a.kind \in {"cursor", "load"} /\ LabAct /\ asks' = asks \ {a}
  /\ replayError' = TRUE /\ playing' = (playing /\ a.kind = "load")
  /\ UNCHANGED <<replay, reel, labOpen, calm>>

-----------------------------------------------------------------------------
ReplayInit ==
  /\ \E m \in DOMAIN ReplayDays : replay = [u |-> m[1], e |-> m[2], day |-> AnyDay, days |-> {}]
  /\ reel = EmptyReel /\ labOpen = FALSE /\ playing = FALSE /\ replayError = FALSE
  /\ asks = {} /\ calm = TRUE /\ replayUsed = 0

ReplayUser ==
  \/ OpenLab \/ AuthUserKnown \/ LeaveLab \/ LoadReplay \/ TogglePlay
  \/ \E m \in DOMAIN ReplayDays : UnderlyingShown(m[1], m[2]) \/ PickExpiry(m[2])
  \/ \E d \in replay.days : PickDay(d)
  \/ \E i \in 0..Len(reel.list) : Scrub(i)

ReplayReply ==
  \E a \in asks :
    \/ DatesCome(a) \/ DatesFail(a) \/ TimelineComes(a) \/ TimelineFails(a)
    \/ CaptureComes(a) \/ CaptureFails(a)

ReplayNext == ReplayUser \/ ReplayReply \/ PlayTick
ReplaySpec == ReplayInit /\ [][ReplayNext]_replayVars

(* The playback's timer fires.                                             *)
ReplayFair == WF_replayVars(PlayTick)

-----------------------------------------------------------------------------
(* At rest, with no error on the screen, the timeline is that of the       *)
(* underlying, expiry and day selected and the picture that of the cursor: *)
(* through changes of underlying on any tab, pickers, reloads, playback    *)
(* and failures.  calm: since the timeline was cleared or loaded nothing   *)
(* was done with a request in flight, and no reload of it failed.          *)
ReplayAgrees ==
  calm /\ asks = {} /\ ~replayError =>
    IF reel.list = <<>> THEN reel.picture = NoCapture
    ELSE /\ reel.list = ReplayTimeline(replay.u, replay.e, replay.day)
         /\ reel.picture = reel.list[reel.at + 1]

(* A playback left to itself stops, though a late reply changes the        *)
(* timeline under it.                                                      *)
PlaybackEnds == (playing /\ labOpen) ~> ~(playing /\ labOpen)
=============================================================================
