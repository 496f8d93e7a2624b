-------------------------- MODULE PriceVolumeChart --------------------------
(***************************************************************************)
(* The price and volume chart of a market and of a session                 *)
(* (components/PriceVolumeChart.tsx): the bars it derives from cumulative  *)
(* volumes, the window an operator zooms into by dragging, and the entries *)
(* and exits it marks, while the samples under it slide on.                *)
(*                                                                         *)
(* Times are on a small scale; a marker keeps its time, side and action.   *)
(* Axes, colours and labels are left out.                                  *)
(***************************************************************************)
EXTENDS Integers, Sequences, FiniteSetsExt, Functions

CONSTANTS
  SampleTime,  \* times of the market's samples
  Volume,      \* cumulative volumes; an exchange's 24-hour volume may fall
  Period,      \* how far back each period of the chart reaches, "all" for ever
  OpenedAt,    \* when each open position was opened
  ClosedTrade  \* closed trades: [dir, opened, closed]

ASSUME ChartAssumption ==
  /\ SampleTime \subseteq Nat /\ Volume \subseteq Nat
  /\ "all" \in DOMAIN Period /\ \A p \in DOMAIN Period : Period[p] \in Nat
  /\ \A p \in OpenedAt : p.opened \in Nat
  /\ \A c \in ClosedTrade : c.opened \in Nat /\ c.closed \in Nat /\ c.opened < c.closed

VARIABLES
  points,  \* the samples shown, oldest first
  period,  \* the selected period
  picked,  \* the selection: <<>>, or the window zoomed into
  drag     \* <<>>, or where the drag under way began and where it is

chartVars == <<points, period, picked, drag>>

Nowhere == <<>>

-----------------------------------------------------------------------------
(* What is drawn.                                                          *)

\* The volume of an interval is what the cumulative one grew by since the
\* sample before; a bar keeps the place of its sample.
BarsAt(places) ==
  [i \in places |->
     [t |-> points[i].t,
      volume |-> IF i - 1 \notin places \/ points[i].volume < points[i - 1].volume THEN 0
                 ELSE points[i].volume - points[i - 1].volume]]

Inside(t) == picked = Nowhere \/ (picked[1] <= t /\ t <= picked[2])

InWindow == {i \in DOMAIN points : Inside(points[i].t)}

\* Faulty variant: the volumes are derived after zooming.
ZoomedBars == BarsAt(InWindow)

VisibleBars == Restrict(BarsAt(DOMAIN points), InWindow)

Labels == {VisibleBars[i].t : i \in DOMAIN VisibleBars}

\* An open position's entry, a closed trade's entry and exit.
Markers ==
  {[t |-> p.opened, dir |-> p.dir, act |-> "open"] : p \in OpenedAt \cup ClosedTrade}
  \cup {[t |-> c.closed, dir |-> c.dir, act |-> "close"] : c \in ClosedTrade}

IsBuy(m) == (m.act = "open") = (m.dir = "long")

Distance(a, b) == IF a < b THEN b - a ELSE a - b

\* The nearest bar, the first of two.
Nearest(bars, t) ==
  Min({i \in DOMAIN bars : \A j \in DOMAIN bars :
         Distance(bars[i].t, t) <= Distance(bars[j].t, t)})

\* Each marker is moved to the nearest bar; zoomed in, those outside are not drawn.
DrawnMarkers ==
  LET bars == VisibleBars
      inView(m) == picked = Nowhere \/ (Min(Labels) <= m.t /\ m.t <= Max(Labels))
  IN  IF Labels = {} THEN {}
      ELSE {[marker |-> m, buy |-> IsBuy(m), at |-> bars[Nearest(bars, m.t)].t] :
              m \in {x \in Markers : inView(x)}}

-----------------------------------------------------------------------------
ChartInit ==
  /\ points = <<>> /\ period = "all"
  /\ picked = Nowhere /\ drag = Nowhere

\* The next poll brings a newer sample, or has lost the oldest to the window.
NewSample ==
  /\ \E t \in SampleTime, v \in Volume :
       /\ \A i \in DOMAIN points : points[i].t < t
       /\ points' = Append(points, [t |-> t, volume |-> v])
  /\ UNCHANGED <<period, picked, drag>>

OldestGone ==
  /\ points # <<>>
  /\ points' = Tail(points)
  /\ UNCHANGED <<period, picked, drag>>

MouseDown(t) ==
  /\ t \in Labels
  /\ drag' = <<t, t>>
  /\ UNCHANGED <<points, period, picked>>

MouseMove(t) ==
  /\ t \in Labels /\ drag # Nowhere
  /\ drag' = <<drag[1], t>>
  /\ UNCHANGED <<points, period, picked>>

\* finishDrag: from left to right, whichever way it was dragged.
FinishDrag ==
  /\ drag # Nowhere /\ Labels # {}
  /\ picked' = IF drag[1] = drag[2] THEN picked
               ELSE IF drag[1] < drag[2] THEN drag ELSE <<drag[2], drag[1]>>
  /\ drag' = Nowhere
  /\ UNCHANGED <<points, period>>

MouseLeave ==
  /\ drag # Nowhere /\ Labels # {}
  /\ drag' = Nowhere
  /\ UNCHANGED <<points, period, picked>>

ClearSelection ==
  /\ picked # Nowhere
  /\ picked' = Nowhere
  /\ UNCHANGED <<points, period, drag>>

\* A period is offered if its window does not reach back before the oldest
\* sample there is (now is taken as the newest sample's time).
Offered(p) ==
  p # "all" /\ points # <<>> => points[Len(points)].t - Period[p] >= points[1].t

\* The page drops the selection with the period.
ChangePeriod(p) ==
  /\ p \in DOMAIN Period /\ p # period /\ Offered(p)
  /\ period' = p
  /\ picked' = Nowhere
  /\ UNCHANGED <<points, drag>>

ChartNext ==
  \/ NewSample \/ OldestGone
  \/ \E t \in SampleTime : MouseDown(t) \/ MouseMove(t)
  \/ FinishDrag \/ MouseLeave \/ ClearSelection
  \/ \E p \in DOMAIN Period : ChangePeriod(p)

ChartSpec == ChartInit /\ [][ChartNext]_chartVars

-----------------------------------------------------------------------------
\* "Volume deltas are derived over the full series above, so zooming in never
\* turns the first visible sample into a zero-volume bar": as long as the
\* volume grows, the bars of any stretch of the chart, zoomed or not, add up to
\* its growth since the sample before, seen or not.
ZoomKeepsVolume ==
  LET bars == VisibleBars
      volumes == [i \in DOMAIN bars |-> bars[i].volume]
  IN  \A a, b \in DOMAIN bars :
        1 < a /\ a <= b /\ (\A k \in a..b : points[k - 1].volume <= points[k].volume) =>
          points[b].volume - points[a - 1].volume = SumFunctionOnSet(volumes, a..b)

\* A marker within the stretch shown is drawn, on a sample no farther than any
\* other, and zoomed in none is that is not; a closed trade whose ends are both
\* drawn has one buy and one sell, and its entry not right of its exit.
MarkersInPlace ==
  LET drawn == DrawnMarkers
  IN  /\ \A m \in Markers :
           (\E t, u \in Labels : t <= m.t /\ m.t <= u) => \E d \in drawn : d.marker = m
      /\ \A d \in drawn :
           /\ d.at \in Labels
           /\ \A t \in Labels : Distance(d.at, d.marker.t) <= Distance(t, d.marker.t)
           /\ picked # Nowhere => Inside(d.marker.t)
      /\ \A c \in ClosedTrade, d, e \in drawn :
           /\ d.marker = [t |-> c.opened, dir |-> c.dir, act |-> "open"]
           /\ e.marker = [t |-> c.closed, dir |-> c.dir, act |-> "close"]
           => d.buy # e.buy /\ d.at <= e.at

\* The window zoomed into is never empty or backwards, whichever way it was
\* dragged and whatever slid away under the pointer.
ChartFaithful ==
  /\ ZoomKeepsVolume
  /\ MarkersInPlace
  /\ picked # Nowhere => picked[1] < picked[2]
=============================================================================
