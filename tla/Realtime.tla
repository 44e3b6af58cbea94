------------------------------ MODULE Realtime ------------------------------
(***************************************************************************)
(* The live view: the aggregator that turns reported bytes into one rate   *)
(* per second, the event streams that carry it, and the hook that keeps a  *)
(* browser subscribed (src/server/realtime/aggregator.ts, bus.ts,          *)
(* app/api/realtime/stream/route.ts, lib/realtime/use-stream.ts).          *)
(*                                                                         *)
(* Upload and download are one number, and so are the connections and      *)
(* sessions that travel along.  A frame that is published reaches the      *)
(* open streams in the same step, since one stream keeps its order; what a *)
(* broken stream carried is lost.  Pauses before a retry have no length.   *)
(***************************************************************************)
EXTENDS Integers, Sequences, SequencesExt

CONSTANTS
  Gateways, Browsers, None,
  Amounts,      \* bytes that a report may carry
  Widest,       \* the widest chart window in seconds
  MaxWindow,    \* seconds the buffer keeps: the widest window, at least a minute, and a margin
  StaleAfter,   \* NODE_STALE_SECONDS
  MaxClock, MaxReports, MaxActs, MaxFaults   \* bounds

ASSUME NumbersAssumption ==
  /\ Amounts \subseteq Nat /\ MaxWindow \in Nat \ {0} /\ Widest \in 1 .. MaxWindow /\ StaleAfter \in Nat \ {0}
  /\ {MaxClock, MaxReports, MaxActs, MaxFaults} \subseteq Nat
ASSUME NoneAssumption == None \notin Nat /\ None \notin {"live", "idle"}

VARIABLES
  clock,        \* seconds
  mockEnabled,  \* a development installation with the mock gateway enabled
  running,      \* the ticker has been started
  pending,      \* bytes since the last tick
  pendingBy,    \* [Gateways -> None or bytes since the last tick]
  rate,         \* [Gateways -> None or [bps, at]]: the last rate and the last report
  feeds,        \* kinds of feed that have been seen
  points,       \* the ring buffer of [t, bps]
  feed,         \* the status that the last tick resolved
  listening,    \* streams with listeners on the bus: <<browser, number>>
  signedIn,     \* [Browsers -> BOOLEAN]: the session of the browser is live
  source,       \* [Browsers -> the state of its EventSource]
  view,         \* [Browsers -> what the hook shows]
  opened,       \* [Browsers -> streams it has had]
  reported,     \* history: when a gateway last reported
  observed,     \* history: [Seconds -> bytes reported to this process in that second]
  reports, acts, faults

\* The ticks there can be: tick t counts what was reported in the second before it.
Seconds == 1 .. MaxClock + 1

aggregator == <<running, pending, pendingBy, rate, feeds, points, feed>>
browser == <<source, view, opened>>
liveVars == <<clock, mockEnabled, aggregator, listening, signedIn, browser, reported, observed, reports, acts, faults>>

Off == [step |-> "off"]
Waiting == [step |-> "waiting"]
Connecting == [step |-> "connecting"]
Open(n) == [step |-> "open", stream |-> n]

Blank == [status |-> "connecting", feed |-> None, at |-> 0, chart |-> <<>>, paused |-> FALSE, frozen |-> FALSE, held |-> None]

Act == acts < MaxActs /\ acts' = acts + 1
Fault == faults < MaxFaults /\ faults' = faults + 1

Fresh ==
  /\ running = FALSE /\ pending = 0 /\ pendingBy = [g \in Gateways |-> None]
  /\ rate = [g \in Gateways |-> None] /\ feeds = {} /\ points = <<>> /\ feed = "stale"

LiveInit ==
  /\ clock = 0 /\ mockEnabled \in BOOLEAN
  /\ Fresh
  /\ listening = {} /\ signedIn = [b \in Browsers |-> TRUE]
  /\ source = [b \in Browsers |-> Off] /\ view = [b \in Browsers |-> Blank] /\ opened = [b \in Browsers |-> 0]
  /\ reported = None /\ observed = [t \in Seconds |-> 0] /\ reports = 0 /\ acts = 0 /\ faults = 0

-----------------------------------------------------------------------------
(* The aggregator. *)

\* A batch of the collector.  The first one starts the ticker.
Ingest(g, bytes, kind) ==
  /\ reports < MaxReports /\ reports' = reports + 1
  /\ kind = "mock" => mockEnabled
  /\ running' = TRUE
  /\ pending' = pending + bytes
  /\ pendingBy' = [pendingBy EXCEPT ![g] = IF @ = None THEN bytes ELSE @ + bytes]
  /\ rate' = [rate EXCEPT ![g] = [bps |-> IF rate[g] = None THEN 0 ELSE rate[g].bps, at |-> clock]]
  /\ feeds' = feeds \cup {kind}
  /\ reported' = clock /\ observed' = [observed EXCEPT ![clock + 1] = @ + bytes]
  /\ UNCHANGED <<clock, mockEnabled, points, feed, listening, signedIn, browser, acts, faults>>

\* Mutant: no traffic is decided before silence.
ResolveStatusMutant(total, now) ==
  IF feeds = {"mock"} THEN "mock" ELSE IF total = 0 THEN "idle" ELSE "live"

\* The gateways that have reported, and whether each of them has been silent for too long.
Reporting == {g \in Gateways : rate[g] # None}
AllSilent(now) == \A g \in Reporting : now - rate[g].at > StaleAfter

\* A silent gateway outranks everything else.
ResolveStatus(total, now) ==
  IF AllSilent(now) THEN IF Reporting # {} /\ mockEnabled /\ "real" \notin feeds THEN "idle" ELSE "stale"
  ELSE IF feeds = {"mock"} THEN "mock"
  ELSE IF total = 0 THEN "idle" ELSE "live"

\* The hook puts a frame on the chart, or while paused keeps it aside.
Apply(v, tick) ==
  IF v.frozen THEN [v EXCEPT !.held = tick]
  ELSE [v EXCEPT !.status = "connected", !.feed = tick.feed, !.at = tick.ts,
                 !.chart = LET longer == Append(@, tick.bps) IN IF Len(longer) > MaxWindow THEN Tail(longer) ELSE longer]

Hears(b) == source[b].step = "open" /\ <<b, source[b].stream>> \in listening

\* What the tick leaves to the next one.
Counted == 0

\* One second.  A gateway that has not reported keeps its last rate.
AggregatorTick ==
  LET now == clock + 1
      longer == Append(points, [t |-> now, bps |-> pending])
      status == ResolveStatus(pending, now)
      tick == [ts |-> now, bps |-> pending, feed |-> status] IN
  /\ clock < MaxClock /\ clock' = now
  /\ IF running
     THEN /\ points' = IF Len(longer) > MaxWindow THEN Tail(longer) ELSE longer
          /\ rate' = [g \in Gateways |-> IF pendingBy[g] = None \/ rate[g] = None THEN rate[g] ELSE [rate[g] EXCEPT !.bps = pendingBy[g]]]
          /\ pending' = Counted /\ pendingBy' = [g \in Gateways |-> None]
          /\ feed' = status
          /\ view' = [b \in Browsers |-> IF Hears(b) THEN Apply(view[b], tick) ELSE view[b]]
     ELSE UNCHANGED <<points, rate, pending, pendingBy, feed, view>>
  /\ UNCHANGED <<mockEnabled, running, feeds, listening, signedIn, source, opened, reported, observed, reports, acts, faults>>

\* The first frame of a stream: the latest point of the window, and the last status.
Hello ==
  LET recent == SelectSeq(points, LAMBDA p : p.t >= clock - Widest) IN
  [ts |-> clock, bps |-> IF recent = <<>> THEN 0 ELSE Last(recent).bps, feed |-> feed]

-----------------------------------------------------------------------------
(* Streams. *)

Show(b, state, status) == source' = [source EXCEPT ![b] = state] /\ view' = [view EXCEPT ![b].status = status]

\* The hook opens its source, when it is mounted and when a retry is due.
Mount(b) ==
  /\ Act /\ source[b] = Off /\ Show(b, Connecting, "connecting")
  /\ UNCHANGED <<clock, mockEnabled, aggregator, listening, signedIn, opened, reported, observed, reports, faults>>
Retry(b) ==
  /\ source[b] = Waiting /\ Show(b, Connecting, "connecting")
  /\ UNCHANGED <<clock, mockEnabled, aggregator, listening, signedIn, opened, reported, observed, reports, acts, faults>>

\* The route checks the session once, says hello and subscribes.
Accept(b) ==
  LET n == opened[b] + 1 IN
  /\ source[b] = Connecting /\ signedIn[b]
  /\ listening' = listening \cup {<<b, n>>} /\ opened' = [opened EXCEPT ![b] = n]
  /\ source' = [source EXCEPT ![b] = Open(n)]
  /\ view' = [view EXCEPT ![b] = Apply(@, Hello)]
  /\ UNCHANGED <<clock, mockEnabled, aggregator, signedIn, reported, observed, reports, acts, faults>>

\* Mutant: the source is closed and no timer is set.
RetriesMutant == [step |-> "closed"]
\* What the error handler leaves behind: a timer.
Retries == Waiting

\* No session, or too many connections in a minute, or a connection that breaks: the server
\* notices later.
Refuse(b) ==
  /\ source[b] = Connecting /\ Show(b, Retries, "disconnected")
  /\ \/ ~signedIn[b] /\ UNCHANGED faults
     \/ signedIn[b] /\ Fault
  /\ UNCHANGED <<clock, mockEnabled, aggregator, listening, signedIn, opened, reported, observed, reports, acts>>
Break(b) ==
  /\ source[b].step = "open" /\ Fault /\ Show(b, Retries, "disconnected")
  /\ UNCHANGED <<clock, mockEnabled, aggregator, listening, signedIn, opened, reported, observed, reports, acts>>

\* The cancel of a stream whose browser has gone takes its listeners off the bus.
Cancel(stream) ==
  /\ source[stream[1]] # Open(stream[2])
  /\ listening' = listening \ {stream}
  /\ UNCHANGED <<clock, mockEnabled, aggregator, signedIn, browser, reported, observed, reports, acts, faults>>

\* The effect's cleanup: the component goes, or its window changes and it starts afresh.
Unmount(b) ==
  /\ Act /\ source[b] # Off
  /\ \/ source' = [source EXCEPT ![b] = Off] /\ view' = [view EXCEPT ![b] = Blank]
     \/ Show(b, Connecting, "connecting")
  /\ UNCHANGED <<clock, mockEnabled, aggregator, listening, signedIn, opened, reported, observed, reports, faults>>

\* The component's `paused`, and the hook's own setPaused: it applies the frame kept aside
\* where the view was not paused before.
Freeze(b) ==
  /\ Act /\ source[b] # Off
  /\ view' = [view EXCEPT ![b].frozen = ~@]
  /\ UNCHANGED <<clock, mockEnabled, aggregator, listening, signedIn, source, opened, reported, observed, reports, faults>>
SetPaused(b, next) ==
  LET v == view[b] IN
  /\ Act /\ source[b] # Off
  /\ view' = [view EXCEPT ![b] =
       IF ~v.paused /\ ~next /\ v.held # None
       THEN [v EXCEPT !.paused = next, !.feed = v.held.feed, !.at = v.held.ts, !.held = None]
       ELSE [v EXCEPT !.paused = next]]
  /\ UNCHANGED <<clock, mockEnabled, aggregator, listening, signedIn, source, opened, reported, observed, reports, faults>>

\* The session of a browser ends, or begins again.
SignInOrOut(b) ==
  /\ Act /\ signedIn' = [signedIn EXCEPT ![b] = ~@]
  /\ UNCHANGED <<clock, mockEnabled, aggregator, listening, browser, reported, observed, reports, faults>>

\* The control plane is restarted, and its chart begins empty.
Restart ==
  /\ Fault
  /\ running' = FALSE /\ pending' = 0 /\ pendingBy' = [g \in Gateways |-> None]
  /\ rate' = [g \in Gateways |-> None] /\ feeds' = {} /\ points' = <<>> /\ feed' = "stale"
  /\ listening' = {} /\ observed' = [t \in Seconds |-> 0]
  /\ source' = [b \in Browsers |-> IF source[b] = Off THEN Off ELSE Waiting]
  /\ view' = [b \in Browsers |-> IF source[b] = Off THEN view[b] ELSE [view[b] EXCEPT !.status = "disconnected"]]
  /\ UNCHANGED <<clock, mockEnabled, signedIn, opened, reported, reports, acts>>

\* The collector feeds it before it writes anything.
Feed == \E g \in Gateways, bytes \in Amounts, kind \in {"real", "mock"} : Ingest(g, bytes, kind)

LiveNext ==
  \/ Feed
  \/ AggregatorTick \/ Restart
  \/ \E b \in Browsers :
       \/ Mount(b) \/ Retry(b) \/ Accept(b) \/ Refuse(b) \/ Break(b) \/ Unmount(b) \/ Freeze(b) \/ SignInOrOut(b)
       \/ \E next \in BOOLEAN : SetPaused(b, next)
  \/ \E stream \in listening : Cancel(stream)

LiveSpec == LiveInit /\ [][LiveNext]_liveVars

\* Timers fire, and a request is answered.
FairLiveSpec == LiveSpec /\ \A b \in Browsers : WF_liveVars(Retry(b)) /\ WF_liveVars(Accept(b))

-----------------------------------------------------------------------------
(* Properties. *)

\* "If no gateway has reported inside the freshness window the status becomes `stale`"
\* (aggregator.ts:19): a frame that a browser is shown as live or idle at its moment was made
\* within the freshness window of a report, whichever gateways fell silent, whatever was put
\* aside, and however often the process was restarted.  The exception is the code's (:181): the
\* mock gateway is enabled and no real feed was seen.  Idle says nothing of the traffic: the bytes
\* of a second are all that its tick counts, so between two reports of a gateway whose users are
\* busy the frames say 0 bps and idle.
ShownIsFresh ==
  \A b \in Browsers :
    view[b].feed \in {"live", "idle"} /\ view[b].at = clock
      => \/ reported # None /\ clock - reported <= StaleAfter
         \/ mockEnabled /\ "real" \notin feeds

\* The chart "is never back-filled" and holds no bytes that were not observed (aggregator.ts:21):
\* bytes that were reported are in the point of the second they were reported in, once, and not
\* smoothed over the seconds since the report before.  What waits for the next tick is what was
\* observed since the last one, each point holds what was observed in its second and no second
\* has two, and none of the window in which bytes were observed is missing, in each process and
\* while the buffer drops its oldest seconds.
BytesAreCharted ==
  /\ pending = observed[clock + 1]
  /\ \A i \in DOMAIN points : points[i].t \in Seconds /\ points[i].bps = observed[points[i].t]
  /\ \A i, j \in DOMAIN points : i < j => points[i].t < points[j].t
  /\ \A t \in Seconds : t \in clock - MaxWindow + 1 .. clock /\ observed[t] # 0
       => \E i \in DOMAIN points : points[i].t = t

\* What a browser is shown is what was reported, no staler and no more of it.
ShownIsReported == ShownIsFresh /\ BytesAreCharted

\* "Realtime disconnected. Reconnecting." (use-stream.ts): a mounted hook with a live session
\* is connected for good once nothing breaks any more.
Reconnects ==
  \A b \in Browsers : <>[](source[b] # Off /\ signedIn[b]) => <>[](source[b].step = "open" /\ Hears(b))
=============================================================================
