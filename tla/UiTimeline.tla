----------------------------- MODULE UiTimeline -----------------------------
(***************************************************************************)
(* The viewer: the page (dist/index.html), the commands of its Rust        *)
(* backend and the thread of each live connection.                         *)
(*                                                                         *)
(* The page calls a command and goes on: a command runs later on the       *)
(* backend's main thread, one at a time and in the order of the calls, and *)
(* its reply reaches the page in no order with the events the connections' *)
(* threads emit. connect_live blocks the main thread until the game says   *)
(* hello, which it does only when it serves nobody else: another page, or  *)
(* this one before, whose leaving it notices only when it next sends       *)
(* something (LiveMode).  So the hello may never come.                     *)
(*                                                                         *)
(* Of a session the page keeps what the timeline is drawn from: the tick   *)
(* hashes and the divergence tick. `byTick` is index() of the hashes.      *)
(***************************************************************************)
EXTENDS Naturals, Sequences, FiniteSets

CONSTANTS
  Ticks, Peers, Hashes,
  Streams,      \* the frame sequences a game may send
  Recordings,   \* the frames of the files the user can open
  MaxConns,     \* bound: connections asked
  Urls,         \* which game each connection is asked from
  MaxClicks,    \* bound: files opened, connections and disconnections asked
  MaxEvents     \* bound: events emitted and not delivered

ASSUME UiAssumption ==
  /\ Ticks \subseteq Nat \ {0}
  /\ \A url \in Urls : DOMAIN url = 1 .. MaxConns
  /\ MaxConns \in Nat /\ MaxClicks \in Nat /\ MaxEvents \in Nat

Conns == 1 .. MaxConns
NoConn == 0       \* no connection; also the origin of what a file holds
NoTick == 0       \* `divergence_tick: null`
Idle == [kind |-> "none", conn |-> NoConn, id |-> 0]

Format == INSTANCE SessionState WITH TypeNames <- {}

ASSUME FramesAssumption ==
  /\ Streams \subseteq Seq(Format!Frame)
  /\ Recordings \subseteq Seq(Format!Frame)

VARIABLES
  url,       \* the game of each connection: what the user answers the prompt
  page,      \* [shown, origin, live, reports, divergence, asked]
  calls,     \* invoked commands that have not run, oldest first
  replies,   \* results on their way back that change the page: what a load
             \* returned, the error of a connect
  busy,      \* the connect call whose hello the main thread waits for, or Idle
  stored,    \* LiveConnection: the connection disconnect_live would shut down
  reading,   \* connections whose stream_frames thread runs
  open,      \* connections whose socket is up, so that the game serves them
  coming,    \* the frames each connection has still to read
  events,    \* emitted and not delivered to the page
  clicks,      \* counter for the bound
  overlap,   \* history: the session shown was opened while another was active
  doubled    \* history: a connection was asked for while another was in use

backendVars == <<busy, stored, reading, open, coming>>
historyVars == <<clicks, overlap, doubled>>
vars == <<url, page, calls, replies, backendVars, events, historyVars>>

Asked(kind) == \E i \in DOMAIN calls : calls[i].kind = kind
Loading == Asked("load") \/ \E r \in replies : r.kind = "load"

\* A report as it reaches the page, with the connection it came over.
Report(c, t, p, h) ==
  [type |-> "TickHash", conn |-> c, tick |-> t, peer |-> p, hash |-> h]
frame_to_live_event(c, frame) ==
  IF frame.type = "TickHash" THEN Report(c, frame.tick, frame.peer, frame.hash)
  ELSE [type |-> frame.type, conn |-> c]

Reports == {Report(c, t, p, h) :
              c \in Conns \cup {NoConn}, t \in Ticks, p \in Peers, h \in Hashes}

----------------------------------------------------------------------------
(* The page's view of the reports *)

\* byTick.get(tick): a peer's later report replaces its earlier one.
index(reports, t) ==
  {i \in DOMAIN reports :
     /\ reports[i].tick = t
     /\ \A j \in DOMAIN reports :
          reports[j].tick = t /\ reports[j].peer = reports[i].peer => j <= i}

\* Mutant: the first report of a tick is compared with nothing but the last.
tickDisagreesLastTwo(reports, t) ==
  \E i, j \in index(reports, t) :
    /\ j = i + 1
    /\ reports[i].hash # reports[j].hash

\* tickAgrees(tick) === false
tickDisagrees(reports, t) ==
  \E i, j \in index(reports, t) : reports[i].hash # reports[j].hash

First(reports) ==
  LET ticks == Format!FindFirstDivergence(reports)
  IN  IF ticks = {} THEN NoTick ELSE CHOOSE t \in ticks : TRUE

\* The reports of a file, in the order of its frames; other frames have none.
tick_hashes(file) ==
  LET upTo[n \in 0 .. Len(file)] ==
        IF n = 0 THEN << >>
        ELSE IF file[n].type = "TickHash"
             THEN Append(upTo[n - 1], frame_to_live_event(NoConn, file[n]))
             ELSE upTo[n - 1]
  IN  upTo[Len(file)]

\* session::load: what load_session returns for a file it can read.
load(file) ==
  [reports |-> tick_hashes(file), divergence |-> First(tick_hashes(file))]
Loads == {load(file) : file \in Recordings}

----------------------------------------------------------------------------
(* The page's handlers *)

Init ==
  /\ url \in Urls
  /\ page = [shown |-> FALSE, origin |-> NoConn, live |-> FALSE,
             reports |-> << >>, divergence |-> NoTick, asked |-> NoConn]
  /\ calls = << >> /\ replies = {} /\ events = << >>
  /\ busy = Idle /\ stored = NoConn /\ reading = {} /\ open = {}
  /\ coming = [c \in Conns |-> << >>]
  /\ clicks = 0 /\ overlap = FALSE /\ doubled = FALSE

Call(kind, c) == [kind |-> kind, conn |-> c, id |-> clicks]
Click == clicks < MaxClicks /\ clicks' = clicks + 1

\* Mutant: the live connection is not told apart from the file.
loadPathStaysLive ==
  /\ Click
  /\ calls' = Append(calls, Call("load", NoConn))
  /\ UNCHANGED <<url, page, replies, backendVars, events, overlap, doubled>>

\* loadPath up to its await.
loadPath ==
  /\ Click
  /\ page' = [page EXCEPT !.live = FALSE]
  /\ calls' = Append(calls, Call("load", NoConn))
  /\ UNCHANGED <<url, replies, backendVars, events, overlap, doubled>>

\* The rest of loadPath: `session = await invoke(...)`.
Loaded ==
  \E r \in replies :
    /\ r.kind = "load"
    /\ replies' = replies \ {r}
    /\ page' = [page EXCEPT !.shown = TRUE, !.origin = NoConn,
                            !.reports = r.session.reports,
                            !.divergence = r.session.divergence]
    /\ overlap' = (overlap /\ page.live)
    /\ UNCHANGED <<url, calls, backendVars, events, clicks, doubled>>

\* connectLive up to its await: an empty session, live before the call.
connectLive ==
  /\ Click
  /\ page.asked < MaxConns
  /\ LET c == page.asked + 1
     IN  /\ page' = [shown |-> TRUE, origin |-> c, live |-> TRUE,
                     reports |-> << >>, divergence |-> NoTick, asked |-> c]
         /\ calls' = Append(calls, Call("connect", c))
  /\ overlap' = (reading # {} \/ busy # Idle \/ events # << >> \/ replies # {}
                 \/ calls # << >>)
  /\ doubled' = (doubled \/ open # {} \/ busy # Idle \/ Asked("connect"))
  /\ UNCHANGED <<url, replies, backendVars, events>>

\* The rest of connectLive when the command failed.
Connected ==
  \E r \in replies :
    /\ r.kind = "connect"
    /\ replies' = replies \ {r}
    /\ page' = [page EXCEPT !.live = FALSE]
    /\ UNCHANGED <<url, calls, backendVars, events, historyVars>>

\* disconnectLive; its button is shown exactly while the page is live.
disconnectLive ==
  /\ Click
  /\ page.live
  /\ calls' = Append(calls, Call("disconnect", NoConn))
  /\ UNCHANGED <<url, page, replies, backendVars, events, overlap, doubled>>

\* Mutants: the divergence is where in the list the mismatch was seen; it
\* follows the latest report.
TickHashAppliedIndex(p, e) ==
  LET reports == Append(p.reports, e)
  IN  [p EXCEPT !.reports = reports,
                !.divergence = IF @ = NoTick /\ tickDisagrees(reports, e.tick)
                               THEN Len(reports) ELSE @]
TickHashAppliedLatest(p, e) ==
  LET reports == Append(p.reports, e)
  IN  [p EXCEPT !.reports = reports,
                !.divergence = IF tickDisagrees(reports, e.tick) THEN e.tick ELSE NoTick]

\* case 'TickHash': the first mismatch seen is kept.
TickHashApplied(p, e) ==
  LET reports == Append(p.reports, e)
  IN  [p EXCEPT !.reports = reports,
                !.divergence = IF @ = NoTick /\ tickDisagrees(reports, e.tick)
                               THEN e.tick ELSE @]

\* applyLiveEvent: `if (!isLive || !session) return`, then by kind. (Hello and
\* the kinds that only fill other panels leave the timeline alone.)
applyLiveEvent ==
  /\ events # << >>
  /\ LET e == Head(events)
     IN  page' = IF ~ page.live \/ ~ page.shown THEN page
                 ELSE CASE e.type = "TickHash" -> TickHashApplied(page, e)
                        [] e.type = "Disconnected" -> [page EXCEPT !.live = FALSE]
                        [] OTHER -> page
  /\ events' = Tail(events)
  /\ UNCHANGED <<url, calls, replies, backendVars, historyVars>>

----------------------------------------------------------------------------
(* The backend *)

\* LiveServer serves one connection at a time, so there is no hello while one of
\* this page's is up; when none is, the game may still be kept by another.
Serves(c) == \E d \in open : url[d] = url[c]

Reply(call, result) ==
  replies' = replies \cup {[kind |-> call.kind, id |-> call.id, session |-> result]}
Emit(event) ==
  /\ Len(events) < MaxEvents
  /\ events' = Append(events, event)

NoSession == [reports |-> << >>, divergence |-> NoTick]

\* The main thread takes the oldest call of a kind when it waits for nothing.
Runs(kind) ==
  /\ busy = Idle
  /\ calls # << >>
  /\ Head(calls).kind = kind
  /\ calls' = Tail(calls)

load_session ==
  /\ Runs("load")
  /\ \/ \E session \in Loads : Reply(Head(calls), session)
     \/ UNCHANGED replies       \* an error: the page shows what it showed
  /\ UNCHANGED <<url, page, backendVars, events, historyVars>>

\* connect_live, to the point where it reads the hello; or nobody listens.
connect_live ==
  /\ Runs("connect")
  /\ \/ busy' = Head(calls) /\ UNCHANGED replies
     \/ Reply(Head(calls), NoSession) /\ UNCHANGED busy
  /\ UNCHANGED <<url, page, stored, reading, open, coming, events, historyVars>>

\* Mutant: the stored stream is kept when there is one.
GreetedKeepsStored ==
  /\ busy # Idle /\ ~ Serves(busy.conn)
  /\ Emit([type |-> "Hello", conn |-> busy.conn])
  /\ stored' = IF stored = NoConn THEN busy.conn ELSE stored
  /\ reading' = reading \cup {busy.conn} /\ open' = open \cup {busy.conn}
  /\ \E stream \in Streams : coming' = [coming EXCEPT ![busy.conn] = stream]
  /\ busy' = Idle
  /\ UNCHANGED <<url, page, calls, replies, historyVars>>

\* The rest of connect_live, when its game says hello at last: it is emitted,
\* the stream stored, the thread started.
Greeted ==
  /\ busy # Idle /\ ~ Serves(busy.conn)
  /\ Emit([type |-> "Hello", conn |-> busy.conn])
  /\ stored' = busy.conn
  /\ reading' = reading \cup {busy.conn} /\ open' = open \cup {busy.conn}
  /\ \E stream \in Streams : coming' = [coming EXCEPT ![busy.conn] = stream]
  /\ busy' = Idle
  /\ UNCHANGED <<url, page, calls, replies, historyVars>>

\* The game goes while the main thread waits for its hello.
NotGreeted ==
  /\ busy # Idle
  /\ Reply(busy, NoSession)
  /\ busy' = Idle
  /\ UNCHANGED <<url, page, calls, stored, reading, open, coming, events, historyVars>>

\* Mutant: the stream is taken and not shut down.
disconnect_live_drops ==
  /\ Runs("disconnect")
  /\ stored' = NoConn
  /\ UNCHANGED <<url, page, replies, busy, reading, open, coming, events, historyVars>>

disconnect_live ==
  /\ Runs("disconnect")
  /\ open' = open \ {stored}
  /\ stored' = NoConn
  /\ UNCHANGED <<url, page, replies, busy, reading, coming, events, historyVars>>

\* stream_frames reads a frame the game sent, or one still buffered when the
\* socket was shut down.
stream_frames(c) ==
  /\ c \in reading
  /\ coming[c] # << >>
  /\ Emit(frame_to_live_event(c, Head(coming[c])))
  /\ coming' = [coming EXCEPT ![c] = Tail(@)]
  /\ UNCHANGED <<url, page, calls, replies, busy, stored, reading, open, historyVars>>

\* socket.read() fails: the thread says so and ends.
StreamEnds(c) ==
  /\ c \in reading \ open
  /\ Emit([type |-> "Disconnected", conn |-> c])
  /\ reading' = reading \ {c} /\ coming' = [coming EXCEPT ![c] = << >>]
  /\ UNCHANGED <<url, page, calls, replies, busy, stored, open, historyVars>>

\* A frame this build cannot read: the thread ends, and the socket stays up
\* while LiveConnection holds its clone.
StreamGivesUp(c) ==
  /\ c \in reading
  /\ Emit([type |-> "Disconnected", conn |-> c])
  /\ reading' = reading \ {c} /\ coming' = [coming EXCEPT ![c] = << >>]
  /\ open' = IF stored = c THEN open ELSE open \ {c}
  /\ UNCHANGED <<url, page, calls, replies, busy, stored, historyVars>>

\* The game exits or the connection drops.
GameCloses(c) ==
  /\ c \in open
  /\ open' = open \ {c}
  /\ UNCHANGED <<url, page, calls, replies, busy, stored, reading, coming, events, historyVars>>

MainThread == load_session \/ connect_live \/ disconnect_live
User == loadPath \/ connectLive \/ disconnectLive

Next ==
  \/ Loaded \/ Connected \/ applyLiveEvent \/ MainThread \/ Greeted \/ NotGreeted \/ User
  \/ \E c \in Conns :
       stream_frames(c) \/ StreamEnds(c) \/ StreamGivesUp(c) \/ GameCloses(c)

Spec == Init /\ [][Next]_vars

\* The page's event loop, the main thread and the connections' threads run;
\* nobody is forced to click, to send, to close or to say hello (a game that
\* sends nothing serves a viewer that has left for ever, live.rs of
\* foldback-core, and a viewer in another process as long as it stays).
Fairness ==
  /\ WF_vars(Loaded) /\ WF_vars(Connected) /\ WF_vars(applyLiveEvent)
  /\ WF_vars(MainThread)
  /\ \A c \in Conns : WF_vars(StreamEnds(c))

FairSpec == Spec /\ Fairness

----------------------------------------------------------------------------
(* Properties *)

\* Every variable keeps its type.
TypeOK ==
  /\ page \in [shown : BOOLEAN, origin : Conns \cup {NoConn}, live : BOOLEAN,
               reports : Seq(Reports), divergence : Ticks \cup {NoTick},
               asked : Conns \cup {NoConn}]
  /\ \A i \in DOMAIN calls : calls[i].kind \in {"load", "connect", "disconnect"}
  /\ busy = Idle \/ (busy.kind = "connect" /\ busy.conn \in Conns)
  /\ stored \in Conns \cup {NoConn}
  /\ reading \subseteq Conns /\ open \subseteq Conns
  /\ overlap \in BOOLEAN /\ doubled \in BOOLEAN

\* The page shows the reports of what it says it shows: a file's only, or one
\* connection's only, unless that connection was asked for while an earlier
\* one was still read or had events on their way, or while a call was pending.
\* (applyLiveEvent's guard, index.html:328, asks only whether the page is live.)
StrayOnlyOnOverlap ==
  overlap \/ \A i \in DOMAIN page.reports : page.reports[i].conn = page.origin

\* A page that is not mixed and of which no peer reported a tick twice flags
\* a tick exactly when the bisection of the same reports finds one, never an
\* earlier one, and that one when the reports came in the order of their ticks.
TimelineAgreesWithBisect ==
  LET rs == page.reports
      once == \A i, j \in DOMAIN rs :
                rs[i].tick = rs[j].tick /\ rs[i].peer = rs[j].peer => i = j
      ordered == \A i, j \in DOMAIN rs : i < j => rs[i].tick <= rs[j].tick
  IN  once => /\ page.divergence = NoTick <=> First(rs) = NoTick
              /\ page.divergence >= First(rs)
              /\ ordered => page.divergence = First(rs)

\* Every connection in use is the one disconnect_live would shut down, unless
\* one was asked for while another was in use (a connection replaced in
\* LiveConnection cannot be reached any more, live.rs:80).
DisconnectReachesAll == doubled \/ open \subseteq {stored}

\* An event that ends the live session shown is its own connection's.
EndsOnItsOwn ==
  [][applyLiveEvent /\ page.live /\ ~ page'.live /\ ~ overlap
       => Head(events).conn = page.origin]_vars

\* A click on Disconnect ends the live session, or another connection has been
\* asked for, unless the main thread waits for a hello: then it may do nothing
\* for ever, and if the hello comes, or the game goes, the click still counts.
DisconnectTakesEffect ==
  Asked("disconnect") ~> (~ page.live \/ Asked("connect") \/ busy # Idle)
=============================================================================
