--------------------------- MODULE PeerExchange ---------------------------
(***************************************************************************)
(* Several peers, each with a session of its own, running the loop of the  *)
(* quickstart: hash every tick once, hand the pending hashes to the        *)
(* netcode, record what arrives from the others, check for a divergence.   *)
(*                                                                         *)
(* The loop and the netcode are the game's, not Foldback's: the network    *)
(* may lose, duplicate and reorder a hash, the drain may be bounded by the *)
(* caller's buffer, and a tick whose recording failed may be hashed again  *)
(* or passed over.  What each peer's simulation computes is fixed at the   *)
(* start and unknown to the others; two peers desync at a tick when their  *)
(* simulations gave it different hashes.                                   *)
(***************************************************************************)
EXTENDS SessionState, FiniteSets

CONSTANTS
  Recorders,   \* peers whose session has a recording
  Retention,   \* SessionBuilder::retention, of every session
  MaxEntries,  \* bound: reports of one tick at which retries and copies stop
  MaxLost      \* bound: hashes the network loses

ASSUME ExchangeAssumption ==
  /\ IsFiniteSet(Ticks)      \* a tick is a u64
  /\ Recorders \subseteq Peers
  /\ Retention \in Nat
  /\ MaxEntries \in Nat
  /\ MaxLost \in Nat

VARIABLES
  sim,         \* sim[p][t]: the hash of p's state at tick t
  next_tick,   \* the tick each peer simulates next
  sessions,    \* each peer's Session
  net,         \* hashes under way
  lost         \* history: hashes the network dropped

vars == <<sim, next_tick, sessions, net, lost>>

Message == [from : Peers, to : Peers, tick : Ticks, hash : Hashes]

Init ==
  /\ sim \in [Peers -> [Ticks -> Hashes]]
  /\ next_tick = [p \in Peers |-> 0]
  /\ sessions = [p \in Peers |-> Build(p, Retention, p \in Recorders)]
  /\ net = {}
  /\ lost = {}

Reports(p, t) == Len(sessions[p].hashes_by_tick[t])

\* One simulated tick.  A tick whose hash could not be recorded is hashed
\* again, or not: hash_tick has returned the error and the game chooses.
HashNext(p) ==
  LET t == next_tick[p]
  IN  /\ t \in Ticks
      /\ \E ok \in WriteOutcomes(sessions[p]), retry \in BOOLEAN :
           /\ retry => ~ok /\ Reports(p, t) < MaxEntries
           /\ sessions' = [sessions EXCEPT ![p] = HashTick(@, t, sim[p][t], ok)]
           /\ next_tick' = [next_tick EXCEPT ![p] = IF retry THEN t ELSE t + 1]
      /\ UNCHANGED <<sim, net, lost>>

\* The hashes a peer drains go to every other peer.
Outgoing(p, hashes) ==
  {m \in Message :
     /\ m.from = p /\ m.to # p
     /\ \E i \in DOMAIN hashes : hashes[i] = [tick |-> m.tick, hash |-> m.hash]}

Exchange(p) ==
  /\ sessions[p].pending # << >>
  /\ \E max \in 1 .. Len(sessions[p].pending) :
       /\ net' = net \cup Outgoing(p, Drained(sessions[p], max))
       /\ sessions' = [sessions EXCEPT ![p] = TakePendingHashesUpTo(@, max)]
  /\ UNCHANGED <<sim, next_tick, lost>>

\* A hash arrives, and perhaps a copy of it stays under way.  The game does
\* not ask for it again when recording it fails.
Deliver(m) ==
  /\ m \in net
  /\ \E ok \in WriteOutcomes(sessions[m.to]), copy \in BOOLEAN :
       /\ copy => Reports(m.to, m.tick) < MaxEntries
       /\ sessions' = [sessions EXCEPT ![m.to] =
                         RecordPeerHash(@, m.tick, m.from, m.hash, ok)]
       /\ net' = IF copy THEN net ELSE net \ {m}
  /\ UNCHANGED <<sim, next_tick, lost>>

Lose(m) ==
  /\ m \in net
  /\ Cardinality(lost) < MaxLost
  /\ net' = net \ {m}
  /\ lost' = lost \cup {m}
  /\ UNCHANGED <<sim, next_tick, sessions>>

\* check_divergence returning Some; a None changes nothing.
Check(p) ==
  /\ \E t \in Earliest(Divergent(sessions[p])) :
       sessions' = [sessions EXCEPT ![p] = Flag(@, t)]
  /\ UNCHANGED <<sim, next_tick, net, lost>>

Next ==
  \/ \E p \in Peers : HashNext(p) \/ Exchange(p) \/ Check(p)
  \/ \E m \in net : Deliver(m) \/ Lose(m)

Spec == Init /\ [][Next]_vars

\* Every peer's loop keeps running, and what the network does not lose it
\* delivers.
Fairness ==
  /\ \A p \in Peers : /\ WF_vars(HashNext(p))
                      /\ WF_vars(Exchange(p))
                      /\ WF_vars(Check(p))
  /\ \A m \in Message : WF_vars(Deliver(m))

FairSpec == Spec /\ Fairness

----------------------------------------------------------------------------
(* Properties *)

\* Every variable keeps its type.
TypeOK ==
  /\ sim \in [Peers -> [Ticks -> Hashes]]
  /\ next_tick \in [Peers -> Nat]
  /\ sessions \in [Peers -> SessionType]
  /\ net \subseteq Message
  /\ lost \subseteq Message

Desynced(t) == \E p, q \in Peers : sim[p][t] # sim[q][t]

\* No session flags a tick that every peer simulated alike: not after retries,
\* copies, reordering or failed writes.  Nor does what is legible of a recording
\* accuse one; of what follows half a frame nothing is claimed.
NoFalseAlarm ==
  \A p \in Peers :
    /\ \A t \in sessions[p].checked_ticks : Desynced(t)
    /\ \A part \in Legible(sessions[p].file) :
         \A t \in FindFirstDivergence(part) : Desynced(t)

\* The two ways to notice a desync agree in one direction at all times: when
\* a session has flagged a tick, comparing finish() across the peers fails,
\* although a failed write keeps a hash out of finish() and not out of the
\* comparison.
AlarmShowsInFold ==
  (\E p \in Peers : sessions[p].checked_ticks # {}) =>
     \E p, q \in Peers : sessions[p].cumulative # sessions[q].cumulative

\* And in the other one once the exchange is over and nothing went missing:
\* a run on which no session raises an alarm is one on which every finish()
\* is the same.
Settled ==
  /\ net = {} /\ lost = {}
  /\ \A p \in Peers :
       /\ next_tick[p] \notin Ticks
       /\ sessions[p].pending = << >>
       /\ Divergent(sessions[p]) = {}
       /\ Len(sessions[p].cumulative) = Cardinality(Ticks)

SilenceShowsInFold ==
  Settled /\ (\A p \in Peers : sessions[p].checked_ticks = {}) =>
    \A p, q \in Peers : sessions[p].cumulative = sessions[q].cumulative

\* A desync surfaces at each peer that simulated the tick and to which the
\* other's hash was not lost, whoever was first, whatever else was flagged
\* in between, and even if that peer failed to record its own hash.
Sent(q, t) == \E i \in DOMAIN sessions[q].cumulative :
                sessions[q].cumulative[i].tick = t
NeverHeard(p, q, t) ==
  /\ [from |-> q, to |-> p, tick |-> t, hash |-> sim[q][t]] \in lost
  /\ \A i \in DOMAIN sessions[p].hashes_by_tick[t] :
       sessions[p].hashes_by_tick[t][i].peer # q

DesyncSurfaces ==
  \A p, q \in Peers, t \in Ticks :
    (next_tick[p] > t /\ Sent(q, t) /\ sim[p][t] # sim[q][t])
      ~> (t \in sessions[p].checked_ticks \/ NeverHeard(p, q, t))
============================================================================
