------------------------ MODULE PeerExchangeProofs ------------------------
(***************************************************************************)
(* Theorems about peers that exchange their hashes: they hold for any      *)
(* number of peers and ticks, any simulations, any network, any bounds.    *)
(***************************************************************************)
EXTENDS PeerExchange, SessionLemmas, FiniteSetTheorems

Item(t, h) == [tick |-> t, hash |-> h]

\* h is folded into p's finish(), waits to be sent by p, is a report of q
\* in p's table.
Folded(p, t, h) == Occurs(Item(t, h), sessions[p].cumulative)
Pending(p, t, h) == Occurs(Item(t, h), sessions[p].pending)
Holds(p, q, t, h) == InTable(sessions[p], t, q, h)

----------------------------------------------------------------------------
(* Sequences *)

LEMMA ConcatMember ==
  ASSUME NEW S, NEW front \in Seq(S), NEW back \in Seq(S), NEW x
  PROVE  Occurs(x, front) \/ Occurs(x, back) => Occurs(x, front \o back)
<1> DEFINE whole == front \o back
<1>1. /\ DOMAIN front = 1 .. Len(front) /\ DOMAIN back = 1 .. Len(back)
      /\ Len(front) \in Nat /\ Len(back) \in Nat
      /\ DOMAIN whole = 1 .. Len(front) + Len(back)
  OBVIOUS
<1>2. \A i \in DOMAIN front : i \in DOMAIN whole /\ whole[i] = front[i]
  BY <1>1
<1>3. \A i \in DOMAIN back : /\ Len(front) + i \in DOMAIN whole
                             /\ whole[Len(front) + i] = back[i]
  BY <1>1
<1>4. QED
  BY <1>2, <1>3 DEF Occurs

LEMMA ItemsEqual ==
  \A t, h, u, g : Item(t, h) = Item(u, g) <=> t = u /\ h = g
BY DEF Item

----------------------------------------------------------------------------
(* One session among the others *)

LEMMA Updated ==
  ASSUME sessions \in [Peers -> SessionType], NEW p \in Peers,
         NEW s \in SessionType, sessions' = [sessions EXCEPT ![p] = s]
  PROVE  /\ sessions' \in [Peers -> SessionType]
         /\ sessions'[p] = s
         /\ \A q \in Peers : q # p => sessions'[q] = sessions[q]
OBVIOUS

LEMMA OutcomesAreBoolean ==
  ASSUME NEW s
  PROVE  WriteOutcomes(s) \subseteq BOOLEAN
BY DEF WriteOutcomes

\* What hash_tick does to the sequences.
LEMMA HashTickSequences ==
  ASSUME NEW s \in SessionType, NEW t \in Ticks, NEW h \in Hashes,
         NEW ok \in BOOLEAN
  PROVE  LET r == HashTick(s, t, h, ok)
         IN  /\ \A x : Occurs(x, r.cumulative) <=>
                         Occurs(x, s.cumulative) \/ (ok /\ x = Item(t, h))
             /\ \A x : Occurs(x, r.pending) <=>
                         Occurs(x, s.pending) \/ (ok /\ x = Item(t, h))
<1> DEFINE r == HashTick(s, t, h, ok)
           item == Item(t, h)
<1>1. /\ r.pending = IF ok THEN Append(s.pending, item) ELSE s.pending
      /\ r.cumulative = IF ok THEN Append(s.cumulative, item) ELSE s.cumulative
  BY HashTickEffect DEF Item
<1>2. /\ s.pending \in Seq(TickHash) /\ s.cumulative \in Seq(TickHash)
      /\ item \in TickHash
  BY DEF SessionType, TickHash, Item
<1> DEFINE pending == s.pending
           cumulative == s.cumulative
<1>3. pending \in Seq(TickHash) /\ cumulative \in Seq(TickHash)
  BY <1>2
<1> HIDE DEF r, item, pending, cumulative
<1>4. \A x : /\ Occurs(x, Append(pending, item))
                  <=> x = item \/ Occurs(x, pending)
             /\ Occurs(x, Append(cumulative, item))
                  <=> x = item \/ Occurs(x, cumulative)
  BY <1>2, <1>3, AppendMember
<1>5. QED
  BY <1>1, <1>4 DEF r, item, pending, cumulative

\* A drain hands out, and leaves, nothing but what was pending.
LEMMA DrainMembers ==
  ASSUME NEW s \in SessionType, NEW max \in Nat, NEW x
  PROVE  /\ Occurs(x, Drained(s, max)) => Occurs(x, s.pending)
         /\ Occurs(x, TakePendingHashesUpTo(s, max).pending)
              => Occurs(x, s.pending)
<1> DEFINE r == TakePendingHashesUpTo(s, max)
           d == Drained(s, max)
<1>1. /\ r \in SessionType
      /\ d \in Seq(TickHash)
      /\ d \o r.pending = s.pending
  BY TakePendingEffect
<1> HIDE DEF r, d
<1> DEFINE rest == r.pending
<1>2. rest \in Seq(TickHash)
  BY <1>1 DEF SessionType
<1>3. d \o rest = s.pending
  BY <1>1
<1> HIDE DEF rest
<1>4. Occurs(x, d) \/ Occurs(x, rest) => Occurs(x, d \o rest)
  BY <1>1, <1>2, ConcatMember
<1>5. QED
  BY <1>3, <1>4 DEF r, d, rest

----------------------------------------------------------------------------
(* Types *)

LEMMA InitType == Init => TypeOK
<1> SUFFICES ASSUME Init PROVE TypeOK
  OBVIOUS
<1>1. \A p \in Peers : Build(p, Retention, p \in Recorders) \in SessionType
  <2>1. Retention \in Nat
    BY ExchangeAssumption
  <2>2. ASSUME NEW p \in Peers
        PROVE  Build(p, Retention, p \in Recorders) \in SessionType
    <3> DEFINE recording == p \in Recorders
    <3>1. recording \in BOOLEAN
      OBVIOUS
    <3> HIDE DEF recording
    <3>2. Build(p, Retention, recording) \in SessionType
      BY <2>1, <3>1, BuildType
    <3>3. QED
      BY <3>2 DEF recording
  <2>3. QED
    BY <2>2
<1>2. sessions \in [Peers -> SessionType]
  BY <1>1 DEF Init
<1>3. QED
  BY <1>2 DEF Init, TypeOK

LEMMA StepType == TypeOK /\ [Next]_vars => TypeOK'
<1> SUFFICES ASSUME TypeOK, [Next]_vars PROVE TypeOK'
  OBVIOUS
<1>1. sessions \in [Peers -> SessionType] /\ Ticks \subseteq Nat
  BY TicksAssumption DEF TypeOK
<1>2. ASSUME NEW p \in Peers, HashNext(p)
      PROVE  TypeOK'
  <2> DEFINE t == next_tick[p]
  <2>1. PICK ok \in WriteOutcomes(sessions[p]), retry \in BOOLEAN :
          /\ sessions' = [sessions EXCEPT ![p] =
                            HashTick(sessions[p], t, sim[p][t], ok)]
          /\ next_tick' = [next_tick EXCEPT ![p] = IF retry THEN t ELSE t + 1]
    BY <1>1, <1>2 DEF HashNext
  <2>2. t \in Ticks /\ UNCHANGED <<sim, net, lost>>
    BY <1>2 DEF HashNext
  <2>3. ok \in BOOLEAN /\ sim[p][t] \in Hashes /\ sessions[p] \in SessionType
    BY <2>2, OutcomesAreBoolean DEF TypeOK
  <2>4. HashTick(sessions[p], t, sim[p][t], ok) \in SessionType
    BY <2>2, <2>3, HashTickEffect
  <2>5. sessions' \in [Peers -> SessionType]
    BY <1>1, <2>1, <2>4, Updated
  <2>6. next_tick' \in [Peers -> Nat]
    BY <1>1, <2>1, <2>2 DEF TypeOK
  <2>7. QED
    BY <2>2, <2>5, <2>6 DEF TypeOK
<1>3. ASSUME NEW p \in Peers, Exchange(p)
      PROVE  TypeOK'
  <2>1. PICK max \in 1 .. Len(sessions[p].pending) :
          /\ net' = net \cup Outgoing(p, Drained(sessions[p], max))
          /\ sessions' = [sessions EXCEPT ![p] =
                            TakePendingHashesUpTo(sessions[p], max)]
    BY <1>1, <1>3 DEF Exchange
  <2>2. max \in Nat /\ sessions[p] \in SessionType
    BY <1>1 DEF SessionType
  <2>3. TakePendingHashesUpTo(sessions[p], max) \in SessionType
    BY <2>2, TakePendingEffect
  <2>4. sessions' \in [Peers -> SessionType]
    BY <1>1, <2>1, <2>3, Updated
  <2>5. net' \subseteq Message
    BY <2>1 DEF Outgoing, TypeOK
  <2>6. QED
    BY <1>3, <2>4, <2>5 DEF Exchange, TypeOK
<1>4. ASSUME NEW m \in net, Deliver(m)
      PROVE  TypeOK'
  <2>1. /\ m.to \in Peers /\ m.from \in Peers /\ m.tick \in Ticks
        /\ m.hash \in Hashes
    BY DEF TypeOK, Message
  <2>2. PICK ok \in WriteOutcomes(sessions[m.to]), copy \in BOOLEAN :
          /\ sessions' = [sessions EXCEPT ![m.to] =
               RecordPeerHash(sessions[m.to], m.tick, m.from, m.hash, ok)]
          /\ net' = IF copy THEN net ELSE net \ {m}
    BY <1>1, <1>4, <2>1 DEF Deliver
  <2>3. ok \in BOOLEAN /\ sessions[m.to] \in SessionType
    BY <1>1, <2>1, OutcomesAreBoolean
  <2>4. RecordPeerHash(sessions[m.to], m.tick, m.from, m.hash, ok) \in SessionType
    BY <2>1, <2>3, RecordPeerHashEffect
  <2>5. sessions' \in [Peers -> SessionType]
    BY <1>1, <2>1, <2>2, <2>4, Updated
  <2>6. net' \subseteq Message
    BY <2>2 DEF TypeOK
  <2>7. QED
    BY <1>4, <2>5, <2>6 DEF Deliver, TypeOK
<1>5. ASSUME NEW m \in net, Lose(m)
      PROVE  TypeOK'
  BY <1>5 DEF Lose, TypeOK
<1>6. ASSUME NEW p \in Peers, Check(p)
      PROVE  TypeOK'
  <2>1. PICK t \in Ticks : sessions' = [sessions EXCEPT ![p] = Flag(sessions[p], t)]
    BY <1>1, <1>6 DEF Check, Earliest, Divergent
  <2>2. Flag(sessions[p], t) \in SessionType
    BY <1>1, FlagEffect
  <2>3. sessions' \in [Peers -> SessionType]
    BY <1>1, <2>1, <2>2, Updated
  <2>4. QED
    BY <1>6, <2>3 DEF Check, TypeOK
<1>7. CASE UNCHANGED vars
  BY <1>7 DEF vars, TypeOK
<1>8. QED
  BY <1>2, <1>3, <1>4, <1>5, <1>6, <1>7 DEF Next

\* Every variable keeps its type.
THEOREM TypeCorrect == Spec => []TypeOK
BY InitType, StepType, PTL DEF Spec

----------------------------------------------------------------------------
(* The inductive invariant *)

\* A peer folds only what its own simulation computed.
FoldIsSim ==
  \A p \in Peers, t \in Ticks, h \in Hashes : Folded(p, t, h) => h = sim[p][t]

\* What a peer is to send, and what is under way, its sender has folded.
PendingIsFolded ==
  \A p \in Peers, t \in Ticks, h \in Hashes : Pending(p, t, h) => Folded(p, t, h)
NetIsFolded == \A m \in net : Folded(m.from, m.tick, m.hash)

\* A report in a table is what the peer it names computed, and, unless it is
\* the session's own, what that peer has folded.
TableIsSim ==
  \A p, q \in Peers, t \in Ticks, h \in Hashes :
    Holds(p, q, t, h) => h = sim[q][t]
TableIsFolded ==
  \A p, q \in Peers, t \in Ticks, h \in Hashes :
    Holds(p, q, t, h) /\ p # q => Folded(q, t, h)

\* Of a flagged tick, some peer has folded a hash that another one differs from.
FlaggedIsFolded ==
  \A p \in Peers : \A t \in sessions[p].checked_ticks :
    \E q, r \in Peers : Folded(q, t, sim[q][t]) /\ sim[q][t] # sim[r][t]

IInv ==
  /\ TypeOK
  /\ \A p \in Peers : sessions[p].local_peer_id = p /\ FileInTable(sessions[p])
  /\ FoldIsSim
  /\ PendingIsFolded
  /\ NetIsFolded
  /\ TableIsSim
  /\ TableIsFolded
  /\ FlaggedIsFolded

\* What a step may do to the parts of IInv.
LocalStep ==
  \A p \in Peers : sessions'[p].local_peer_id = p /\ FileInTable(sessions'[p])
FoldStep ==
  \A p \in Peers, t \in Ticks, h \in Hashes :
    /\ Folded(p, t, h) => Folded(p, t, h)'
    /\ Folded(p, t, h)' => Folded(p, t, h) \/ h = sim[p][t]
    /\ Pending(p, t, h)' => Pending(p, t, h) \/ Folded(p, t, h)'
TableStep ==
  \A p, q \in Peers, t \in Ticks, h \in Hashes :
    Holds(p, q, t, h)' =>
      \/ Holds(p, q, t, h)
      \/ p = q /\ h = sim[p][t]
      \/ Folded(q, t, h)
NetStep == \A m \in net' : m \in net \/ Folded(m.from, m.tick, m.hash)
FlagStep ==
  \A p \in Peers : \A t \in sessions'[p].checked_ticks :
    \/ t \in sessions[p].checked_ticks
    \/ \E q, r \in Peers : Folded(q, t, sim[q][t]) /\ sim[q][t] # sim[r][t]

LEMMA KeepsIInv ==
  ASSUME IInv, TypeOK', sim' = sim,
         LocalStep, FoldStep, TableStep, NetStep, FlagStep
  PROVE  IInv'
<1>1. /\ \A p \in Peers : sessions[p].checked_ticks \subseteq Ticks
      /\ \A p \in Peers : sessions'[p].checked_ticks \subseteq Ticks
      /\ \A p \in Peers, t \in Ticks : sim[p][t] \in Hashes
      /\ \A m \in net' : /\ m.from \in Peers /\ m.tick \in Ticks
                         /\ m.hash \in Hashes
  BY DEF IInv, TypeOK, SessionType, Message
<1>2. FoldIsSim'
  BY DEF IInv, FoldIsSim, FoldStep
<1>3. PendingIsFolded'
  BY DEF IInv, PendingIsFolded, FoldStep
<1>4. NetIsFolded'
  BY <1>1 DEF IInv, NetIsFolded, NetStep, FoldStep
<1>5. TableIsSim'
  BY DEF IInv, TableIsSim, FoldIsSim, TableStep
<1>6. TableIsFolded'
  BY DEF IInv, TableIsFolded, TableStep, FoldStep
<1>7. FlaggedIsFolded'
  BY <1>1 DEF IInv, FlaggedIsFolded, FlagStep, FoldStep
<1>8. QED
  BY <1>2, <1>3, <1>4, <1>5, <1>6, <1>7 DEF IInv, LocalStep

LEMMA InitIInv == Init => IInv
<1> SUFFICES ASSUME Init PROVE IInv
  OBVIOUS
<1>1. \A p \in Peers :
        /\ sessions[p].local_peer_id = p /\ sessions[p].file = << >>
        /\ sessions[p].pending = << >> /\ sessions[p].cumulative = << >>
        /\ sessions[p].hashes_by_tick = [t \in Ticks |-> << >>]
        /\ sessions[p].checked_ticks = {}
  BY DEF Init, Build
<1>2. \A x : ~ Occurs(x, << >>)
  BY DEF Occurs
<1>3. \A p, q \in Peers, t \in Ticks, h \in Hashes :
        /\ ~ Folded(p, t, h) /\ ~ Pending(p, t, h) /\ ~ Holds(p, q, t, h)
        /\ ~ InFile(sessions[p], t, q, h)
  BY <1>1, <1>2 DEF Folded, Pending, Holds, InTable, InFile
<1>4. NetIsFolded
  BY DEF Init, NetIsFolded
<1>5. QED
  BY <1>1, <1>3, <1>4, InitType
     DEF IInv, FoldIsSim, PendingIsFolded, TableIsSim, TableIsFolded,
         FlaggedIsFolded, FileInTable

\* A tick that a check may flag.
LEMMA DivergentIsFolded ==
  ASSUME IInv, NEW p \in Peers, NEW t \in Divergent(sessions[p])
  PROVE  \E q, r \in Peers : Folded(q, t, sim[q][t]) /\ sim[q][t] # sim[r][t]
<1>1. /\ sessions[p] \in SessionType /\ t \in Ticks
      /\ Disagree(sessions[p].hashes_by_tick[t])
  BY DEF IInv, TypeOK, Divergent
<1>2. PICK q \in Peers, r \in Peers, g \in Hashes, h \in Hashes :
        InTable(sessions[p], t, q, g) /\ InTable(sessions[p], t, r, h) /\ g # h
  BY <1>1, DisagreeInTable
<1>3. g = sim[q][t] /\ h = sim[r][t] /\ q # r
  BY <1>1, <1>2 DEF IInv, TableIsSim, Holds
<1>4. CASE p # q
  BY <1>1, <1>2, <1>3, <1>4 DEF IInv, TableIsFolded, Holds
<1>5. CASE p # r
  BY <1>1, <1>2, <1>3, <1>5 DEF IInv, TableIsFolded, Holds
<1>6. QED
  BY <1>3, <1>4, <1>5

LEMMA StepIInv == IInv /\ [Next]_vars => IInv'
<1> SUFFICES ASSUME IInv, [Next]_vars PROVE IInv'
  OBVIOUS
<1>1. /\ TypeOK' /\ TypeOK /\ sessions \in [Peers -> SessionType]
      /\ \A p \in Peers : sessions[p].local_peer_id = p
                         /\ FileInTable(sessions[p])
  BY StepType DEF IInv, TypeOK
<1>2. ASSUME NEW p \in Peers, HashNext(p)
      PROVE  IInv'
  <2> DEFINE t == next_tick[p]
             h == sim[p][t]
             s == sessions[p]
  <2>1. PICK ok \in WriteOutcomes(s) :
          sessions' = [sessions EXCEPT ![p] = HashTick(s, t, h, ok)]
    BY <1>1, <1>2 DEF HashNext
  <2>2. t \in Ticks /\ UNCHANGED <<sim, net>>
    BY <1>2 DEF HashNext
  <2>3. ok \in BOOLEAN /\ h \in Hashes /\ s \in SessionType
        /\ s.local_peer_id = p
    BY <1>1, <2>2, OutcomesAreBoolean DEF TypeOK
  <2> DEFINE r == HashTick(s, t, h, ok)
             m == RecordPeerHash(s, t, p, h, ok)
  <2> HIDE DEF t, h, s
  <2>4. /\ r \in SessionType
        /\ Same(r, s, Options \cup {"checked_ticks", "written_schemas"})
    BY <2>2, <2>3, HashTickEffect
  <2>5. /\ \A x : Occurs(x, r.cumulative) <=>
                    Occurs(x, s.cumulative) \/ (ok /\ x = Item(t, h))
        /\ \A x : Occurs(x, r.pending) <=>
                    Occurs(x, s.pending) \/ (ok /\ x = Item(t, h))
    BY <2>2, <2>3, HashTickSequences
  <2>6. SameTable(r, m) /\ \A u \in Ticks, q \in Peers, g \in Hashes :
          InTable(m, u, q, g) <=>
            InTable(s, u, q, g) \/ (u = t /\ q = p /\ g = h)
    BY <2>2, <2>3, HashTickReports, RecordPeerHashReports
  <2>7. FileInTable(s) => FileInTable(r)
    BY <2>2, <2>3, HashTickKeeps
  <2> HIDE DEF r, m
  <2>8. sessions'[p] = r /\ \A q \in Peers : q # p => sessions'[q] = sessions[q]
    BY <1>1, <2>1, <2>4, Updated DEF r
  <2>9. r.local_peer_id = p /\ r.checked_ticks = s.checked_ticks
    BY <2>3, <2>4 DEF Same, Options
  <2>10. \A q \in Peers : /\ sessions'[q].local_peer_id = q
                          /\ FileInTable(sessions'[q])
                          /\ sessions'[q].checked_ticks = sessions[q].checked_ticks
    BY <1>1, <2>7, <2>8, <2>9 DEF s
  <2>11. \A q \in Peers, u \in Ticks, g \in Hashes :
           /\ Folded(q, u, g) => Folded(q, u, g)'
           /\ Folded(q, u, g)' => Folded(q, u, g) \/ g = sim[q][u]
           /\ Pending(q, u, g)' => Pending(q, u, g) \/ Folded(q, u, g)'
    <3>1. ASSUME NEW u \in Ticks, NEW g \in Hashes
          PROVE  /\ Folded(p, u, g) => Folded(p, u, g)'
                 /\ Folded(p, u, g)' => Folded(p, u, g) \/ g = sim[p][u]
                 /\ Pending(p, u, g)' => Pending(p, u, g) \/ Folded(p, u, g)'
      BY <2>5, <2>8, ItemsEqual DEF Folded, Pending, s, h
    <3>2. ASSUME NEW q \in Peers, q # p, NEW u \in Ticks, NEW g \in Hashes
          PROVE  Folded(q, u, g)' = Folded(q, u, g)
                 /\ Pending(q, u, g)' = Pending(q, u, g)
      BY <2>8, <3>2 DEF Folded, Pending
    <3>3. QED
      BY <3>1, <3>2
  <2>12. \A q, x \in Peers, u \in Ticks, g \in Hashes :
           Holds(q, x, u, g)' => Holds(q, x, u, g) \/ (q = x /\ g = sim[q][u])
    <3>1. ASSUME NEW x \in Peers, NEW u \in Ticks, NEW g \in Hashes
          PROVE  Holds(p, x, u, g)' => Holds(p, x, u, g) \/ (p = x /\ g = sim[p][u])
      BY <2>6, <2>8 DEF Holds, SameTable, s, h
    <3>2. ASSUME NEW q \in Peers, q # p, NEW x, NEW u, NEW g
          PROVE  Holds(q, x, u, g)' = Holds(q, x, u, g)
      BY <2>8, <3>2 DEF Holds
    <3>3. QED
      BY <3>1, <3>2
  <2>13. TypeOK' /\ sim' = sim
    BY <1>1, <2>2
  <2>14. LocalStep /\ FoldStep /\ TableStep /\ NetStep /\ FlagStep
    <3>1. LocalStep
      BY <1>1, <2>2, <2>10, <2>11, <2>12 DEF LocalStep
    <3>2. FoldStep
      BY <1>1, <2>2, <2>10, <2>11, <2>12 DEF FoldStep
    <3>3. TableStep
      BY <1>1, <2>2, <2>10, <2>11, <2>12 DEF TableStep
    <3>4. NetStep
      BY <1>1, <2>2, <2>10, <2>11, <2>12 DEF NetStep
    <3>5. FlagStep
      BY <1>1, <2>2, <2>10, <2>11, <2>12 DEF FlagStep
    <3>6. QED
      BY <3>1, <3>2, <3>3, <3>4, <3>5
  <2>15. QED
    BY <2>13, <2>14, KeepsIInv
<1>3. ASSUME NEW p \in Peers, Exchange(p)
      PROVE  IInv'
  <2> DEFINE s == sessions[p]
  <2>1. PICK max \in 1 .. Len(s.pending) :
          /\ net' = net \cup Outgoing(p, Drained(s, max))
          /\ sessions' = [sessions EXCEPT ![p] = TakePendingHashesUpTo(s, max)]
    BY <1>1, <1>3 DEF Exchange
  <2>2. max \in Nat /\ s \in SessionType /\ s.local_peer_id = p
    BY <1>1 DEF SessionType
  <2> DEFINE r == TakePendingHashesUpTo(s, max)
  <2> HIDE DEF s
  <2>3. /\ r \in SessionType
        /\ Same(r, s, Options \cup {"ring", "hashes_by_tick", "file",
                       "checked_ticks", "cumulative", "written_schemas"})
    BY <2>2, TakePendingEffect
  <2>4. \A x : /\ Occurs(x, r.pending) => Occurs(x, s.pending)
               /\ Occurs(x, Drained(s, max)) => Occurs(x, s.pending)
    BY <2>2, DrainMembers
  <2> HIDE DEF r
  <2>5. sessions'[p] = r /\ \A q \in Peers : q # p => sessions'[q] = sessions[q]
    BY <1>1, <2>1, <2>3, Updated DEF r
  <2>6. /\ r.local_peer_id = p /\ r.checked_ticks = s.checked_ticks
        /\ r.hashes_by_tick = s.hashes_by_tick /\ r.file = s.file
        /\ r.cumulative = s.cumulative
    BY <2>2, <2>3 DEF Same, Options
  <2>7. \A q \in Peers :
          /\ sessions'[q].local_peer_id = q
          /\ sessions'[q].checked_ticks = sessions[q].checked_ticks
          /\ sessions'[q].hashes_by_tick = sessions[q].hashes_by_tick
          /\ sessions'[q].file = sessions[q].file
          /\ sessions'[q].cumulative = sessions[q].cumulative
          /\ \A x : Occurs(x, sessions'[q].pending) => Occurs(x, sessions[q].pending)
    BY <1>1, <2>4, <2>5, <2>6 DEF s
  <2>8. \A q \in Peers : FileInTable(sessions'[q])
    BY <1>1, <2>7 DEF FileInTable, InFile, InTable
  <2>9. \A q, x \in Peers, u \in Ticks, g \in Hashes :
          /\ Folded(q, u, g)' <=> Folded(q, u, g)
          /\ Holds(q, x, u, g)' <=> Holds(q, x, u, g)
          /\ Pending(q, u, g)' => Pending(q, u, g)
    BY <2>7 DEF Folded, Pending, Holds, InTable
  <2>10. ASSUME NEW m \in Outgoing(p, Drained(s, max))
         PROVE  Folded(m.from, m.tick, m.hash)
    <3>1. /\ m.from = p /\ m.tick \in Ticks /\ m.hash \in Hashes
          /\ Occurs(Item(m.tick, m.hash), Drained(s, max))
      BY DEF Outgoing, Message, Occurs, Item
    <3>2. Pending(p, m.tick, m.hash)
      BY <2>4, <3>1 DEF Pending, s
    <3>3. QED
      BY <3>1, <3>2 DEF IInv, PendingIsFolded
  <2>11. sim' = sim
    BY <1>3 DEF Exchange
  <2>12. \A m \in net' : m \in net \/ Folded(m.from, m.tick, m.hash)
    BY <2>1, <2>10
  <2>13. TypeOK' /\ sim' = sim
    BY <1>1, <2>11
  <2>14. LocalStep /\ FoldStep /\ TableStep /\ NetStep /\ FlagStep
    <3>1. LocalStep
      BY <1>1, <2>7, <2>8, <2>9, <2>12 DEF LocalStep
    <3>2. FoldStep
      BY <1>1, <2>7, <2>8, <2>9, <2>12 DEF FoldStep
    <3>3. TableStep
      BY <1>1, <2>7, <2>8, <2>9, <2>12 DEF TableStep
    <3>4. NetStep
      BY <1>1, <2>7, <2>8, <2>9, <2>12 DEF NetStep
    <3>5. FlagStep
      BY <1>1, <2>7, <2>8, <2>9, <2>12 DEF FlagStep
    <3>6. QED
      BY <3>1, <3>2, <3>3, <3>4, <3>5
  <2>15. QED
    BY <2>13, <2>14, KeepsIInv
<1>4. ASSUME NEW m \in net, Deliver(m)
      PROVE  IInv'
  <2> DEFINE p == m.to
             s == sessions[p]
  <2>1. /\ p \in Peers /\ m.from \in Peers /\ m.tick \in Ticks
        /\ m.hash \in Hashes
    BY <1>1 DEF TypeOK, Message
  <2>2. PICK ok \in WriteOutcomes(s), copy \in BOOLEAN :
          /\ sessions' = [sessions EXCEPT ![p] =
                            RecordPeerHash(s, m.tick, m.from, m.hash, ok)]
          /\ net' = IF copy THEN net ELSE net \ {m}
    BY <1>1, <1>4, <2>1 DEF Deliver
  <2>3. ok \in BOOLEAN /\ s \in SessionType /\ s.local_peer_id = p
    BY <1>1, <2>1, OutcomesAreBoolean
  <2>4. Folded(m.from, m.tick, m.hash) /\ sim' = sim
    BY <1>4 DEF IInv, NetIsFolded, Deliver
  <2> DEFINE r == RecordPeerHash(s, m.tick, m.from, m.hash, ok)
  <2> HIDE DEF p, s
  <2>5. /\ r \in SessionType
        /\ Same(r, s, Options \cup {"pending", "checked_ticks",
                                    "cumulative", "written_schemas"})
    BY <2>1, <2>3, RecordPeerHashEffect
  <2>6. \A u \in Ticks, q \in Peers, g \in Hashes :
          InTable(r, u, q, g) <=>
            InTable(s, u, q, g) \/ (u = m.tick /\ q = m.from /\ g = m.hash)
    BY <2>1, <2>3, RecordPeerHashReports
  <2>7. FileInTable(s) => FileInTable(r)
    BY <2>1, <2>3, RecordPeerHashKeeps
  <2> HIDE DEF r
  <2>8. sessions'[p] = r /\ \A q \in Peers : q # p => sessions'[q] = sessions[q]
    BY <1>1, <2>1, <2>2, <2>5, Updated DEF r
  <2>9. /\ r.local_peer_id = p /\ r.checked_ticks = s.checked_ticks
        /\ r.pending = s.pending /\ r.cumulative = s.cumulative
    BY <2>3, <2>5 DEF Same, Options
  <2>10. \A q \in Peers :
           /\ sessions'[q].local_peer_id = q
           /\ FileInTable(sessions'[q])
           /\ sessions'[q].checked_ticks = sessions[q].checked_ticks
           /\ sessions'[q].pending = sessions[q].pending
           /\ sessions'[q].cumulative = sessions[q].cumulative
    BY <1>1, <2>1, <2>7, <2>8, <2>9 DEF s
  <2>11. \A q \in Peers, u \in Ticks, g \in Hashes :
           /\ Folded(q, u, g)' <=> Folded(q, u, g)
           /\ Pending(q, u, g)' <=> Pending(q, u, g)
    BY <2>10 DEF Folded, Pending
  <2>12. \A q, x \in Peers, u \in Ticks, g \in Hashes :
           Holds(q, x, u, g)' => Holds(q, x, u, g) \/ Folded(x, u, g)
    <3>1. ASSUME NEW x \in Peers, NEW u \in Ticks, NEW g \in Hashes
          PROVE  Holds(p, x, u, g)' => Holds(p, x, u, g) \/ Folded(x, u, g)
      BY <2>4, <2>6, <2>8 DEF Holds, s
    <3>2. ASSUME NEW q \in Peers, q # p, NEW x, NEW u, NEW g
          PROVE  Holds(q, x, u, g)' = Holds(q, x, u, g)
      BY <2>8, <3>2 DEF Holds
    <3>3. QED
      BY <3>1, <3>2
  <2>13. \A n \in net' : n \in net
    BY <2>2
  <2>14. TypeOK' /\ sim' = sim
    BY <1>1, <2>4
  <2>15. LocalStep /\ FoldStep /\ TableStep /\ NetStep /\ FlagStep
    <3>1. LocalStep
      BY <1>1, <2>10, <2>11, <2>12, <2>13 DEF LocalStep
    <3>2. FoldStep
      BY <1>1, <2>10, <2>11, <2>12, <2>13 DEF FoldStep
    <3>3. TableStep
      BY <1>1, <2>10, <2>11, <2>12, <2>13 DEF TableStep
    <3>4. NetStep
      BY <1>1, <2>10, <2>11, <2>12, <2>13 DEF NetStep
    <3>5. FlagStep
      BY <1>1, <2>10, <2>11, <2>12, <2>13 DEF FlagStep
    <3>6. QED
      BY <3>1, <3>2, <3>3, <3>4, <3>5
  <2>16. QED
    BY <2>14, <2>15, KeepsIInv
<1>5. ASSUME NEW m \in net, Lose(m)
      PROVE  IInv'
  <2>1. UNCHANGED <<sim, sessions>> /\ net' \subseteq net
    BY <1>5 DEF Lose
  <2>2. \A q, x, u, g : /\ Folded(q, u, g)' = Folded(q, u, g)
                        /\ Pending(q, u, g)' = Pending(q, u, g)
                        /\ Holds(q, x, u, g)' = Holds(q, x, u, g)
    BY <2>1 DEF Folded, Pending, Holds
  <2>3. LocalStep /\ FoldStep /\ TableStep /\ NetStep /\ FlagStep
    <3>1. LocalStep
      BY <1>1, <2>1, <2>2 DEF LocalStep
    <3>2. FoldStep
      BY <1>1, <2>1, <2>2 DEF FoldStep
    <3>3. TableStep
      BY <1>1, <2>1, <2>2 DEF TableStep
    <3>4. NetStep
      BY <1>1, <2>1, <2>2 DEF NetStep
    <3>5. FlagStep
      BY <1>1, <2>1, <2>2 DEF FlagStep
    <3>6. QED
      BY <3>1, <3>2, <3>3, <3>4, <3>5
  <2>4. QED
    BY <1>1, <2>1, <2>3, KeepsIInv
<1>6. ASSUME NEW p \in Peers, Check(p)
      PROVE  IInv'
  <2> DEFINE s == sessions[p]
  <2>1. PICK t \in Divergent(s) : sessions' = [sessions EXCEPT ![p] = Flag(s, t)]
    BY <1>1, <1>6 DEF Check, Earliest
  <2>2. t \in Ticks /\ s \in SessionType /\ s.local_peer_id = p
    BY <1>1, <2>1 DEF Divergent
  <2>3. \E q, r \in Peers : Folded(q, t, sim[q][t]) /\ sim[q][t] # sim[r][t]
    BY DivergentIsFolded
  <2> DEFINE r == Flag(s, t)
  <2> HIDE DEF s
  <2>4. /\ r \in SessionType
        /\ r.checked_ticks = s.checked_ticks \cup {t}
        /\ Same(r, s, Options \cup {"ring", "pending", "hashes_by_tick",
                       "file", "cumulative", "written_schemas"})
    BY <2>2, FlagEffect
  <2> HIDE DEF r
  <2>5. sessions'[p] = r /\ \A q \in Peers : q # p => sessions'[q] = sessions[q]
    BY <1>1, <2>1, <2>4, Updated DEF r, s
  <2>6. /\ r.local_peer_id = p /\ r.pending = s.pending
        /\ r.hashes_by_tick = s.hashes_by_tick /\ r.file = s.file
        /\ r.cumulative = s.cumulative
    BY <2>2, <2>4 DEF Same, Options
  <2>7. \A q \in Peers :
          /\ sessions'[q].local_peer_id = q
          /\ sessions'[q].pending = sessions[q].pending
          /\ sessions'[q].hashes_by_tick = sessions[q].hashes_by_tick
          /\ sessions'[q].file = sessions[q].file
          /\ sessions'[q].cumulative = sessions[q].cumulative
    BY <1>1, <2>5, <2>6 DEF s
  <2>8. \A q \in Peers : FileInTable(sessions'[q])
    BY <1>1, <2>7 DEF FileInTable, InFile, InTable
  <2>9. \A q, x \in Peers, u \in Ticks, g \in Hashes :
          /\ Folded(q, u, g)' <=> Folded(q, u, g)
          /\ Holds(q, x, u, g)' <=> Holds(q, x, u, g)
          /\ Pending(q, u, g)' <=> Pending(q, u, g)
    BY <2>7 DEF Folded, Pending, Holds, InTable
  <2>10. \A q \in Peers : \A u \in sessions'[q].checked_ticks :
           u \in sessions[q].checked_ticks \/ u = t
    BY <2>4, <2>5 DEF s
  <2>11. UNCHANGED <<sim, net>>
    BY <1>6 DEF Check
  <2>12. TypeOK' /\ sim' = sim
    BY <1>1, <2>11
  <2>13. LocalStep /\ FoldStep /\ TableStep /\ NetStep /\ FlagStep
    <3>1. LocalStep
      BY <1>1, <2>3, <2>7, <2>8, <2>9, <2>10, <2>11 DEF LocalStep
    <3>2. FoldStep
      BY <1>1, <2>3, <2>7, <2>8, <2>9, <2>10, <2>11 DEF FoldStep
    <3>3. TableStep
      BY <1>1, <2>3, <2>7, <2>8, <2>9, <2>10, <2>11 DEF TableStep
    <3>4. NetStep
      BY <1>1, <2>3, <2>7, <2>8, <2>9, <2>10, <2>11 DEF NetStep
    <3>5. FlagStep
      BY <1>1, <2>3, <2>7, <2>8, <2>9, <2>10, <2>11 DEF FlagStep
    <3>6. QED
      BY <3>1, <3>2, <3>3, <3>4, <3>5
  <2>14. QED
    BY <2>12, <2>13, KeepsIInv
<1>7. CASE UNCHANGED vars
  <2>1. UNCHANGED <<sim, sessions, net>>
    BY <1>7 DEF vars
  <2>2. \A q, x, u, g : /\ Folded(q, u, g)' = Folded(q, u, g)
                        /\ Pending(q, u, g)' = Pending(q, u, g)
                        /\ Holds(q, x, u, g)' = Holds(q, x, u, g)
    BY <2>1 DEF Folded, Pending, Holds
  <2>3. LocalStep /\ FoldStep /\ TableStep /\ NetStep /\ FlagStep
    <3>1. LocalStep
      BY <1>1, <2>1, <2>2 DEF LocalStep
    <3>2. FoldStep
      BY <1>1, <2>1, <2>2 DEF FoldStep
    <3>3. TableStep
      BY <1>1, <2>1, <2>2 DEF TableStep
    <3>4. NetStep
      BY <1>1, <2>1, <2>2 DEF NetStep
    <3>5. FlagStep
      BY <1>1, <2>1, <2>2 DEF FlagStep
    <3>6. QED
      BY <3>1, <3>2, <3>3, <3>4, <3>5
  <2>4. QED
    BY <1>1, <2>1, <2>3, KeepsIInv
<1>8. QED
  BY <1>2, <1>3, <1>4, <1>5, <1>6, <1>7 DEF Next

LEMMA IInvCorrect == Spec => []IInv
BY InitIInv, StepIInv, PTL DEF Spec

----------------------------------------------------------------------------
(* Safety *)

\* No alarm, in the running game or from what is legible of a recording, is
\* false.
THEOREM NoFalseAlarmCorrect == Spec => []NoFalseAlarm
<1>1. IInv => NoFalseAlarm
  <2> SUFFICES ASSUME IInv, NEW p \in Peers
               PROVE  /\ \A t \in sessions[p].checked_ticks : Desynced(t)
                      /\ \A part \in Legible(sessions[p].file) :
                           \A t \in FindFirstDivergence(part) : Desynced(t)
    BY DEF NoFalseAlarm
  <2>1. \A t \in sessions[p].checked_ticks : Desynced(t)
    BY DEF IInv, FlaggedIsFolded, Desynced
  <2>2. ASSUME NEW part \in Legible(sessions[p].file),
               NEW t \in FindFirstDivergence(part)
        PROVE  Desynced(t)
    <3>2. /\ sessions[p] \in SessionType /\ FileInTable(sessions[p])
          /\ sessions[p].file \in Seq(FileEntry)
      BY DEF IInv, TypeOK, SessionType
    <3>1. t \in Ticks /\ FileDisagrees(sessions[p].file, t)
      <4>1. t \in Ticks /\ FileDisagrees(part, t)
        BY DEF FindFirstDivergence, Earliest
      <4>2. QED
        BY <3>2, <4>1, LegibleDisagrees
    <3>3. PICK q \in Peers, r \in Peers, g \in Hashes, h \in Hashes :
            InFile(sessions[p], t, q, g) /\ InFile(sessions[p], t, r, h) /\ g # h
      BY <3>1, <3>2, DisagreeInFile
    <3>4. InTable(sessions[p], t, q, g) /\ InTable(sessions[p], t, r, h)
      BY <3>1, <3>2, <3>3 DEF FileInTable
    <3>5. g = sim[q][t] /\ h = sim[r][t]
      BY <3>1, <3>4 DEF IInv, TableIsSim, Holds
    <3>6. QED
      BY <3>3, <3>5 DEF Desynced
  <2>3. QED
    BY <2>1, <2>2
<1>2. QED
  BY <1>1, IInvCorrect, PTL

\* A session's alarm is never one that comparing finish() would miss.
THEOREM AlarmShowsInFoldCorrect == Spec => []AlarmShowsInFold
<1>1. IInv => AlarmShowsInFold
  <2> SUFFICES ASSUME IInv, NEW p \in Peers, NEW t \in sessions[p].checked_ticks
               PROVE  \E q, r \in Peers :
                        sessions[q].cumulative # sessions[r].cumulative
    BY DEF AlarmShowsInFold
  <2>1. PICK q \in Peers, r \in Peers :
          Folded(q, t, sim[q][t]) /\ sim[q][t] # sim[r][t]
    BY DEF IInv, FlaggedIsFolded
  <2>2. t \in Ticks /\ sim[q][t] \in Hashes
    BY DEF IInv, TypeOK, SessionType
  <2>3. ~ Folded(r, t, sim[q][t])
    BY <2>1, <2>2 DEF IInv, FoldIsSim
  <2>4. sessions[q].cumulative # sessions[r].cumulative
    BY <2>1, <2>3 DEF Folded
  <2>5. QED
    BY <2>4
<1>2. QED
  BY <1>1, IInvCorrect, PTL

----------------------------------------------------------------------------
(* Silence *)

\* Where a hash that p folded is, as far as q is concerned.
Carries(p, q, t, h) == [from |-> p, to |-> q, tick |-> t, hash |-> h]

\* finish() folds the ticks in the order the peer simulated them, each once.
Ordered ==
  \A p \in Peers : \A i, j \in DOMAIN sessions[p].cumulative :
    /\ sessions[p].cumulative[i].tick < next_tick[p]
    /\ i < j => sessions[p].cumulative[i].tick < sessions[p].cumulative[j].tick

\* What a peer folds is a report in its own table.
OwnReport ==
  \A p \in Peers, t \in Ticks, h \in Hashes :
    Folded(p, t, h) => Holds(p, p, t, h)

\* And it waits to be sent to each other peer, is under way to it, was lost,
\* or is a report in its table.
Reaches ==
  \A p, q \in Peers, t \in Ticks, h \in Hashes :
    Folded(p, t, h) /\ p # q =>
      \/ Pending(p, t, h)
      \/ Carries(p, q, t, h) \in net \cup lost
      \/ Holds(q, p, t, h)

SInv == IInv /\ Ordered /\ OwnReport /\ Reaches

\* What a step may do to the parts of SInv.
ReportStep ==
  \A p, q \in Peers, t \in Ticks, h \in Hashes :
    Holds(p, q, t, h) => Holds(p, q, t, h)'
NewFoldStep ==
  \A p \in Peers, t \in Ticks, h \in Hashes :
    Folded(p, t, h)' =>
      Folded(p, t, h) \/ (Pending(p, t, h)' /\ Holds(p, p, t, h)')
SendStep ==
  \A p, q \in Peers, t \in Ticks, h \in Hashes :
    Pending(p, t, h) /\ p # q =>
      Pending(p, t, h)' \/ Carries(p, q, t, h) \in net'
ArriveStep ==
  \A m \in net : m \in net' \/ m \in lost' \/ Holds(m.to, m.from, m.tick, m.hash)'

LEMMA KeepsSInv ==
  ASSUME SInv, IInv', Ordered', lost \subseteq lost',
         ReportStep, NewFoldStep, SendStep, ArriveStep
  PROVE  SInv'
<1>1. OwnReport'
  BY DEF SInv, OwnReport, NewFoldStep, ReportStep
<1>2. ASSUME NEW p \in Peers, NEW q \in Peers, NEW t \in Ticks, NEW h \in Hashes,
             Folded(p, t, h)', p # q
      PROVE  \/ Pending(p, t, h)'
             \/ Carries(p, q, t, h) \in net' \cup lost'
             \/ Holds(q, p, t, h)'
  <2> DEFINE m == Carries(p, q, t, h)
  <2>1. m.to = q /\ m.from = p /\ m.tick = t /\ m.hash = h
    BY DEF Carries
  <2>2. \/ Pending(p, t, h)' \/ Pending(p, t, h) \/ m \in net
        \/ m \in lost \/ Holds(q, p, t, h)
    BY <1>2 DEF NewFoldStep, SInv, Reaches
  <2> HIDE DEF m
  <2>3. CASE m \in net
    BY <2>1, <2>3 DEF ArriveStep, m
  <2>4. CASE Pending(p, t, h)
    BY <1>2, <2>4 DEF SendStep
  <2>5. CASE m \in lost
    BY <2>5 DEF m
  <2>6. CASE Holds(q, p, t, h)
    BY <2>6 DEF ReportStep
  <2>7. QED
    BY <2>2, <2>3, <2>4, <2>5, <2>6
<1>3. Reaches'
  BY <1>2 DEF Reaches, Carries
<1>4. QED
  BY <1>1, <1>3 DEF SInv

LEMMA InitSInv == Init => SInv
<1> SUFFICES ASSUME Init PROVE SInv
  OBVIOUS
<1>1. \A p \in Peers : sessions[p].cumulative = << >>
  BY DEF Init, Build
<1>2. \A p \in Peers : \A x : ~ Occurs(x, sessions[p].cumulative)
  BY <1>1 DEF Occurs
<1>3. Ordered
  BY <1>1 DEF Ordered
<1>4. QED
  BY <1>2, <1>3, InitIInv DEF SInv, OwnReport, Reaches, Folded

\* Every entry a drain does not leave, it hands out.
LEMMA DrainSplits ==
  ASSUME NEW s \in SessionType, NEW max \in Nat, NEW x, Occurs(x, s.pending)
  PROVE  \/ Occurs(x, Drained(s, max))
         \/ Occurs(x, TakePendingHashesUpTo(s, max).pending)
<1> DEFINE r == TakePendingHashesUpTo(s, max)
           d == Drained(s, max)
           rest == r.pending
           pending == s.pending
<1>1. r \in SessionType /\ d \in Seq(TickHash) /\ d \o rest = pending
  BY TakePendingEffect
<1>2. rest \in Seq(TickHash)
  BY <1>1 DEF SessionType
<1>3. PICK i \in DOMAIN pending : pending[i] = x
  BY DEF Occurs
<1> HIDE DEF r, d, rest, pending
<1>4. /\ DOMAIN d = 1 .. Len(d) /\ DOMAIN rest = 1 .. Len(rest)
      /\ Len(d) \in Nat /\ Len(rest) \in Nat
      /\ DOMAIN pending = 1 .. Len(d) + Len(rest)
      /\ \A j \in DOMAIN pending :
           pending[j] = IF j <= Len(d) THEN d[j] ELSE rest[j - Len(d)]
  <2>1. d \in Seq(TickHash) /\ rest \in Seq(TickHash)
    BY <1>1, <1>2
  <2>2. /\ Len(d \o rest) = Len(d) + Len(rest)
        /\ d \o rest \in Seq(TickHash)
        /\ \A j \in 1 .. Len(d) + Len(rest) :
             (d \o rest)[j] = IF j <= Len(d) THEN d[j] ELSE rest[j - Len(d)]
    BY <2>1, ConcatProperties
  <2>3. QED
    BY <1>1, <2>1, <2>2
<1>5. CASE i <= Len(d)
  <2>1. i \in DOMAIN d /\ d[i] = x
    BY <1>3, <1>4, <1>5
  <2>2. QED
    BY <2>1 DEF Occurs, d
<1>6. CASE i > Len(d)
  <2>1. i - Len(d) \in DOMAIN rest /\ rest[i - Len(d)] = x
    BY <1>3, <1>4, <1>6
  <2>2. QED
    BY <2>1 DEF Occurs, rest, r
<1>7. QED
  BY <1>3, <1>4, <1>5, <1>6

\* Of one session, what SInv's steps speak of; the others stay.
LEMMA SInvHashNext ==
  ASSUME SInv, TypeOK', IInv', NEW p \in Peers, HashNext(p)
  PROVE  SInv'
<1> DEFINE t == next_tick[p]
           h == sim[p][t]
           s == sessions[p]
<1>1. TypeOK /\ sessions \in [Peers -> SessionType] /\ IInv /\ Ordered
  BY DEF SInv, IInv, TypeOK
<1>2. PICK ok \in WriteOutcomes(s), retry \in BOOLEAN :
        /\ retry => ~ ok
        /\ sessions' = [sessions EXCEPT ![p] = HashTick(s, t, h, ok)]
        /\ next_tick' = [next_tick EXCEPT ![p] = IF retry THEN t ELSE t + 1]
  BY <1>1 DEF HashNext
<1>3. t \in Ticks /\ UNCHANGED <<net, lost>>
  BY DEF HashNext
<1>4. ok \in BOOLEAN /\ h \in Hashes /\ s \in SessionType
      /\ s.local_peer_id = p /\ t \in Nat /\ next_tick \in [Peers -> Nat]
  BY <1>1, <1>3, OutcomesAreBoolean, TicksAssumption DEF IInv, TypeOK
<1> DEFINE r == HashTick(s, t, h, ok)
           m == RecordPeerHash(s, t, p, h, ok)
<1>5. /\ next_tick'[p] = (IF retry THEN t ELSE t + 1)
      /\ \A q \in Peers : q # p => next_tick'[q] = next_tick[q]
  BY <1>2, <1>4
<1>6. t = next_tick[p]
  OBVIOUS
<1> HIDE DEF t, h, s
<1>7. /\ r \in SessionType
      /\ r.cumulative = IF ok THEN Append(s.cumulative, Item(t, h))
                        ELSE s.cumulative
  BY <1>3, <1>4, HashTickEffect DEF Item
<1>8. /\ \A x : Occurs(x, r.cumulative) <=>
                  Occurs(x, s.cumulative) \/ (ok /\ x = Item(t, h))
      /\ \A x : Occurs(x, r.pending) <=>
                  Occurs(x, s.pending) \/ (ok /\ x = Item(t, h))
  BY <1>3, <1>4, HashTickSequences
<1>9. SameTable(r, m) /\ \A u \in Ticks, q \in Peers, g \in Hashes :
        InTable(m, u, q, g) <=>
          InTable(s, u, q, g) \/ (u = t /\ q = p /\ g = h)
  BY <1>3, <1>4, HashTickReports, RecordPeerHashReports
<1> HIDE DEF r, m
<1>10. sessions'[p] = r /\ \A q \in Peers : q # p => sessions'[q] = sessions[q]
  BY <1>1, <1>2, <1>7, Updated DEF r
<1>11. ReportStep
  <2>1. ASSUME NEW x \in Peers, NEW u \in Ticks, NEW g \in Hashes, Holds(p, x, u, g)
        PROVE  Holds(p, x, u, g)'
    BY <1>9, <1>10, <2>1 DEF Holds, SameTable, s
  <2>2. ASSUME NEW q \in Peers, q # p, NEW x, NEW u, NEW g
        PROVE  Holds(q, x, u, g)' = Holds(q, x, u, g)
    BY <1>10, <2>2 DEF Holds
  <2>3. QED
    BY <2>1, <2>2 DEF ReportStep
<1>12. NewFoldStep
  <2>1. ASSUME NEW u \in Ticks, NEW g \in Hashes, Folded(p, u, g)', ~ Folded(p, u, g)
        PROVE  Pending(p, u, g)' /\ Holds(p, p, u, g)'
    <3>1. ok /\ Item(u, g) = Item(t, h)
      BY <1>8, <1>10, <2>1 DEF Folded, s
    <3>2. u = t /\ g = h
      BY <3>1, ItemsEqual
    <3>3. Pending(p, u, g)'
      BY <1>8, <1>10, <3>1 DEF Pending
    <3>4. Holds(p, p, u, g)'
      BY <1>9, <1>10, <3>2 DEF Holds, SameTable
    <3>5. QED
      BY <3>3, <3>4
  <2>2. ASSUME NEW q \in Peers, q # p, NEW u, NEW g
        PROVE  Folded(q, u, g)' = Folded(q, u, g)
    BY <1>10, <2>2 DEF Folded
  <2>3. QED
    BY <2>1, <2>2 DEF NewFoldStep
<1>13. SendStep
  <2>1. ASSUME NEW u \in Ticks, NEW g \in Hashes, Pending(p, u, g)
        PROVE  Pending(p, u, g)'
    BY <1>8, <1>10, <2>1 DEF Pending, s
  <2>2. ASSUME NEW q \in Peers, q # p, NEW u, NEW g
        PROVE  Pending(q, u, g)' = Pending(q, u, g)
    BY <1>10, <2>2 DEF Pending
  <2>3. QED
    BY <2>1, <2>2 DEF SendStep
<1>14. ArriveStep
  BY <1>3 DEF ArriveStep
<1>15. Ordered'
  <2>1. s.cumulative \in Seq(TickHash) /\ Item(t, h) \in TickHash
    BY <1>3, <1>4 DEF SessionType, TickHash, Item
  <2>2. /\ DOMAIN s.cumulative = 1 .. Len(s.cumulative)
        /\ Len(s.cumulative) \in Nat
        /\ \A i \in DOMAIN s.cumulative : s.cumulative[i].tick \in Nat
    <3>1. /\ DOMAIN s.cumulative = 1 .. Len(s.cumulative)
          /\ Len(s.cumulative) \in Nat
          /\ \A i \in DOMAIN s.cumulative : s.cumulative[i] \in TickHash
      BY <2>1
    <3>2. QED
      BY <3>1, TicksAssumption DEF TickHash
  <2>3. \A i, j \in DOMAIN s.cumulative :
          /\ s.cumulative[i].tick < t
          /\ i < j => s.cumulative[i].tick < s.cumulative[j].tick
    BY <1>1, <1>6 DEF Ordered, s
  <2>4. \A i, j \in DOMAIN r.cumulative :
          /\ r.cumulative[i].tick < next_tick'[p]
          /\ i < j => r.cumulative[i].tick < r.cumulative[j].tick
    <3>1. CASE ok
      <4> DEFINE c == s.cumulative
                 e == Item(t, h)
                 d == Append(c, e)
      <4>1. e.tick = t
        BY DEF Item
      <4>2. r.cumulative = d /\ next_tick'[p] = t + 1
        BY <1>2, <1>5, <1>7, <3>1
      <4>3. c \in Seq(TickHash) /\ e \in TickHash
        BY <2>1
      <4> HIDE DEF e, c
      <4>4. /\ DOMAIN d = 1 .. Len(c) + 1 /\ DOMAIN c = 1 .. Len(c)
            /\ d[Len(c) + 1] = e
            /\ \A i \in DOMAIN c : d[i] = c[i]
        BY <4>3, AppendEntries
      <4> HIDE DEF d
      <4>5. /\ Len(c) \in Nat
            /\ \A i \in DOMAIN c : c[i].tick \in Nat /\ c[i].tick < t
            /\ \A i, j \in DOMAIN c : i < j => c[i].tick < c[j].tick
        BY <2>2, <2>3 DEF c
      <4>6. \A i \in DOMAIN d : i \in DOMAIN c \/ i = Len(c) + 1
        BY <4>4, <4>5
      <4>7. \A i \in DOMAIN d : d[i].tick \in Nat /\ d[i].tick <= t
        BY <1>4, <4>1, <4>4, <4>5, <4>6
      <4>8. ASSUME NEW i \in DOMAIN d, NEW j \in DOMAIN d, i < j
            PROVE  d[i].tick < d[j].tick
        <5>1. i \in DOMAIN c
          BY <4>4, <4>5, <4>8
        <5>2. CASE j \in DOMAIN c
          BY <4>4, <4>5, <4>8, <5>1, <5>2
        <5>3. CASE j = Len(c) + 1
          BY <4>1, <4>4, <4>5, <5>1, <5>3
        <5>4. QED
          BY <4>6, <5>2, <5>3
      <4>9. \A i \in DOMAIN d : d[i].tick < t + 1
        BY <1>4, <4>7
      <4>10. QED
        BY <4>2, <4>8, <4>9
    <3>2. CASE ~ ok
      <4>1. r.cumulative = s.cumulative
        BY <1>7, <3>2
      <4>2. next_tick'[p] \in Nat /\ t <= next_tick'[p]
        BY <1>4, <1>5
      <4>3. \A i \in DOMAIN s.cumulative : s.cumulative[i].tick < next_tick'[p]
        BY <1>4, <2>2, <2>3, <4>2
      <4>4. QED
        BY <2>3, <4>1, <4>3
    <3>3. QED
      BY <3>1, <3>2
  <2>5. ASSUME NEW q \in Peers
        PROVE  \A i, j \in DOMAIN sessions'[q].cumulative :
                 /\ sessions'[q].cumulative[i].tick < next_tick'[q]
                 /\ i < j => sessions'[q].cumulative[i].tick
                               < sessions'[q].cumulative[j].tick
    <3>1. CASE q = p
      BY <1>10, <2>4, <3>1
    <3>2. CASE q # p
      BY <1>1, <1>5, <1>10, <3>2 DEF Ordered
    <3>3. QED
      BY <3>1, <3>2
  <2>6. QED
    BY <2>5 DEF Ordered
<1>16. QED
  BY <1>3, <1>11, <1>12, <1>13, <1>14, <1>15, KeepsSInv

\* A step that changes what a peer simulated next, or folded, of no one.
LEMMA OrderKept ==
  ASSUME Ordered, next_tick' = next_tick,
         \A q \in Peers : sessions'[q].cumulative = sessions[q].cumulative
  PROVE  Ordered'
BY DEF Ordered

LEMMA SInvExchange ==
  ASSUME SInv, IInv', NEW p \in Peers, Exchange(p)
  PROVE  SInv'
<1> DEFINE s == sessions[p]
<1>1. TypeOK /\ sessions \in [Peers -> SessionType] /\ IInv /\ Ordered
  BY DEF SInv, IInv, TypeOK
<1>2. PICK max \in 1 .. Len(s.pending) :
        /\ net' = net \cup Outgoing(p, Drained(s, max))
        /\ sessions' = [sessions EXCEPT ![p] = TakePendingHashesUpTo(s, max)]
  BY <1>1 DEF Exchange
<1>3. UNCHANGED <<sim, next_tick, lost>>
  BY DEF Exchange
<1>4. max \in Nat /\ s \in SessionType
  BY <1>1 DEF SessionType
<1> DEFINE r == TakePendingHashesUpTo(s, max)
<1> HIDE DEF s
<1>5. /\ r \in SessionType
      /\ Same(r, s, Options \cup {"ring", "hashes_by_tick", "file",
                     "checked_ticks", "cumulative", "written_schemas"})
  BY <1>4, TakePendingEffect
<1>6. \A x : Occurs(x, s.pending) => Occurs(x, Drained(s, max)) \/ Occurs(x, r.pending)
  BY <1>4, DrainSplits
<1> HIDE DEF r
<1>7. sessions'[p] = r /\ \A q \in Peers : q # p => sessions'[q] = sessions[q]
  BY <1>1, <1>2, <1>5, Updated DEF r
<1>8. r.hashes_by_tick = s.hashes_by_tick /\ r.cumulative = s.cumulative
  BY <1>5 DEF Same, Options
<1>9. \A q \in Peers :
        /\ sessions'[q].hashes_by_tick = sessions[q].hashes_by_tick
        /\ sessions'[q].cumulative = sessions[q].cumulative
  BY <1>7, <1>8 DEF s
<1>10. \A q, x \in Peers, u \in Ticks, g \in Hashes :
         /\ Folded(q, u, g)' <=> Folded(q, u, g)
         /\ Holds(q, x, u, g)' <=> Holds(q, x, u, g)
  BY <1>9 DEF Folded, Holds, InTable
<1>11. ASSUME NEW q \in Peers, NEW u \in Ticks, NEW g \in Hashes,
              Pending(p, u, g), p # q
       PROVE  Pending(p, u, g)' \/ Carries(p, q, u, g) \in net'
  <2>1. Occurs(Item(u, g), Drained(s, max)) \/ Occurs(Item(u, g), r.pending)
    BY <1>6, <1>11 DEF Pending, s
  <2>2. CASE Occurs(Item(u, g), Drained(s, max))
    <3>1. PICK i \in DOMAIN Drained(s, max) : Drained(s, max)[i] = Item(u, g)
      BY <2>2 DEF Occurs
    <3> DEFINE m == Carries(p, q, u, g)
    <3>2. /\ m \in Message /\ m.from = p /\ m.to = q
          /\ Item(u, g) = [tick |-> m.tick, hash |-> m.hash]
      BY DEF Carries, Message, Item
    <3> HIDE DEF m
    <3>3. m \in Outgoing(p, Drained(s, max))
      BY <1>11, <3>1, <3>2 DEF Outgoing
    <3>4. QED
      BY <1>2, <3>3 DEF m
  <2>3. CASE Occurs(Item(u, g), r.pending)
    BY <1>7, <2>3 DEF Pending
  <2>4. QED
    BY <2>1, <2>2, <2>3
<1>12. ReportStep
  BY <1>10 DEF ReportStep
<1>13. NewFoldStep
  BY <1>10 DEF NewFoldStep
<1>14. SendStep
  <2>1. ASSUME NEW q \in Peers, q # p, NEW u, NEW g
        PROVE  Pending(q, u, g)' = Pending(q, u, g)
    BY <1>7, <2>1 DEF Pending
  <2>2. QED
    BY <1>11, <2>1 DEF SendStep
<1>15. ArriveStep
  BY <1>2 DEF ArriveStep
<1>16. Ordered'
  BY <1>1, <1>3, <1>9, OrderKept
<1>17. QED
  BY <1>3, <1>12, <1>13, <1>14, <1>15, <1>16, KeepsSInv

LEMMA SInvDeliver ==
  ASSUME SInv, IInv', NEW m \in net, Deliver(m)
  PROVE  SInv'
<1> DEFINE p == m.to
           s == sessions[p]
<1>1. TypeOK /\ sessions \in [Peers -> SessionType] /\ IInv /\ Ordered
  BY DEF SInv, IInv, TypeOK
<1>2. /\ p \in Peers /\ m.from \in Peers /\ m.tick \in Ticks
      /\ m.hash \in Hashes
  BY <1>1 DEF TypeOK, Message
<1>3. PICK ok \in WriteOutcomes(s), copy \in BOOLEAN :
        /\ sessions' = [sessions EXCEPT ![p] =
                          RecordPeerHash(s, m.tick, m.from, m.hash, ok)]
        /\ net' = IF copy THEN net ELSE net \ {m}
  BY <1>1, <1>2 DEF Deliver
<1>4. ok \in BOOLEAN /\ s \in SessionType /\ UNCHANGED <<sim, next_tick, lost>>
  BY <1>1, <1>2, OutcomesAreBoolean DEF Deliver
<1> DEFINE r == RecordPeerHash(s, m.tick, m.from, m.hash, ok)
<1>5. p = m.to
  OBVIOUS
<1> HIDE DEF p, s
<1>6. /\ r \in SessionType
      /\ Same(r, s, Options \cup {"pending", "checked_ticks",
                                  "cumulative", "written_schemas"})
  BY <1>2, <1>4, RecordPeerHashEffect
<1>7. \A u \in Ticks, q \in Peers, g \in Hashes :
        InTable(r, u, q, g) <=>
          InTable(s, u, q, g) \/ (u = m.tick /\ q = m.from /\ g = m.hash)
  BY <1>2, <1>4, RecordPeerHashReports
<1> HIDE DEF r
<1>8. sessions'[p] = r /\ \A q \in Peers : q # p => sessions'[q] = sessions[q]
  BY <1>1, <1>2, <1>3, <1>6, Updated DEF r
<1>9. r.pending = s.pending /\ r.cumulative = s.cumulative
  BY <1>6 DEF Same, Options
<1>10. \A q \in Peers :
         /\ sessions'[q].pending = sessions[q].pending
         /\ sessions'[q].cumulative = sessions[q].cumulative
  BY <1>8, <1>9 DEF s
<1>11. \A q \in Peers : \A u, g :
         /\ Folded(q, u, g)' <=> Folded(q, u, g)
         /\ Pending(q, u, g)' <=> Pending(q, u, g)
  BY <1>10 DEF Folded, Pending
<1>12. ReportStep
  <2>1. ASSUME NEW x \in Peers, NEW u \in Ticks, NEW g \in Hashes, Holds(p, x, u, g)
        PROVE  Holds(p, x, u, g)'
    BY <1>7, <1>8, <2>1 DEF Holds, s
  <2>2. ASSUME NEW q \in Peers, q # p, NEW x, NEW u, NEW g
        PROVE  Holds(q, x, u, g)' = Holds(q, x, u, g)
    BY <1>8, <2>2 DEF Holds
  <2>3. QED
    BY <2>1, <2>2 DEF ReportStep
<1>13. NewFoldStep
  BY <1>11 DEF NewFoldStep
<1>14. SendStep
  BY <1>11 DEF SendStep
<1>15. ArriveStep
  <2>1. Holds(m.to, m.from, m.tick, m.hash)'
    BY <1>2, <1>5, <1>7, <1>8 DEF Holds
  <2>2. QED
    BY <1>3, <2>1 DEF ArriveStep
<1>16. Ordered'
  BY <1>1, <1>4, <1>10, OrderKept
<1>17. QED
  BY <1>4, <1>12, <1>13, <1>14, <1>15, <1>16, KeepsSInv

\* The other steps leave what is reported, folded and pending alone.
LEMMA SInvOther ==
  ASSUME SInv, IInv', next_tick' = next_tick, lost \subseteq lost',
         net \subseteq net' \cup lost',
         \A q \in Peers :
           /\ sessions'[q].hashes_by_tick = sessions[q].hashes_by_tick
           /\ sessions'[q].pending = sessions[q].pending
           /\ sessions'[q].cumulative = sessions[q].cumulative
  PROVE  SInv'
<1>1. \A q, x \in Peers : \A u, g :
        /\ Folded(q, u, g)' <=> Folded(q, u, g)
        /\ Pending(q, u, g)' <=> Pending(q, u, g)
        /\ Holds(q, x, u, g)' <=> Holds(q, x, u, g)
  BY DEF Folded, Pending, Holds, InTable
<1>2. ReportStep /\ NewFoldStep
  BY <1>1 DEF ReportStep, NewFoldStep
<1>3. SendStep
  BY <1>1 DEF SendStep
<1>4. ArriveStep
  BY DEF ArriveStep
<1>5. Ordered'
  BY OrderKept DEF SInv
<1>6. QED
  BY <1>2, <1>3, <1>4, <1>5, KeepsSInv

LEMMA StepSInv == SInv /\ [Next]_vars => SInv'
<1> SUFFICES ASSUME SInv, [Next]_vars PROVE SInv'
  OBVIOUS
<1>1. IInv /\ IInv' /\ TypeOK' /\ sessions \in [Peers -> SessionType]
  BY StepIInv DEF SInv, IInv, TypeOK
<1>2. ASSUME NEW p \in Peers, HashNext(p)
      PROVE  SInv'
  BY <1>1, <1>2, SInvHashNext
<1>3. ASSUME NEW p \in Peers, Exchange(p)
      PROVE  SInv'
  BY <1>1, <1>3, SInvExchange
<1>4. ASSUME NEW m \in net, Deliver(m)
      PROVE  SInv'
  BY <1>1, <1>4, SInvDeliver
<1>5. ASSUME NEW m \in net, Lose(m)
      PROVE  SInv'
  <2>1. /\ UNCHANGED <<next_tick, sessions>> /\ lost \subseteq lost'
        /\ net \subseteq net' \cup lost'
    BY <1>5 DEF Lose
  <2>2. QED
    BY <1>1, <2>1, SInvOther
<1>6. ASSUME NEW p \in Peers, Check(p)
      PROVE  SInv'
  <2> DEFINE s == sessions[p]
  <2>1. PICK t \in Divergent(s) : sessions' = [sessions EXCEPT ![p] = Flag(s, t)]
    BY <1>1, <1>6 DEF Check, Earliest
  <2>2. t \in Ticks /\ s \in SessionType
    BY <1>1, <2>1 DEF Divergent
  <2> DEFINE r == Flag(s, t)
  <2> HIDE DEF s
  <2>3. /\ r \in SessionType
        /\ Same(r, s, Options \cup {"ring", "pending", "hashes_by_tick",
                       "file", "cumulative", "written_schemas"})
    BY <2>2, FlagEffect
  <2> HIDE DEF r
  <2>4. sessions'[p] = r /\ \A q \in Peers : q # p => sessions'[q] = sessions[q]
    BY <1>1, <2>1, <2>3, Updated DEF r, s
  <2>5. /\ r.hashes_by_tick = s.hashes_by_tick /\ r.pending = s.pending
        /\ r.cumulative = s.cumulative
    BY <2>3 DEF Same, Options
  <2>6. \A q \in Peers :
          /\ sessions'[q].hashes_by_tick = sessions[q].hashes_by_tick
          /\ sessions'[q].pending = sessions[q].pending
          /\ sessions'[q].cumulative = sessions[q].cumulative
    BY <2>4, <2>5 DEF s
  <2>7. UNCHANGED <<next_tick, net, lost>>
    BY <1>6 DEF Check
  <2>8. QED
    BY <1>1, <2>6, <2>7, SInvOther
<1>7. CASE UNCHANGED vars
  <2>1. UNCHANGED <<next_tick, sessions, net, lost>>
    BY <1>7 DEF vars
  <2>2. QED
    BY <1>1, <2>1, SInvOther
<1>8. QED
  BY <1>2, <1>3, <1>4, <1>5, <1>6, <1>7 DEF Next

LEMMA SInvCorrect == Spec => []SInv
BY InitSInv, StepSInv, PTL DEF Spec

\* Two sequences in the order of their ticks with the same entries are equal.
InOrder(c) == \A i, j \in DOMAIN c : i < j => c[i].tick < c[j].tick

LEMMA SameEntries ==
  ASSUME NEW a \in Seq(TickHash), NEW b \in Seq(TickHash), Len(a) = Len(b),
         InOrder(a), InOrder(b), \A x : Occurs(x, a) <=> Occurs(x, b)
  PROVE  a = b
<1> DEFINE differ == {i \in 1 .. Len(a) : a[i] # b[i]}
<1>1. /\ Len(a) \in Nat /\ DOMAIN a = 1 .. Len(a) /\ DOMAIN b = 1 .. Len(a)
      /\ \A i \in 1 .. Len(a) : a[i] \in TickHash /\ b[i] \in TickHash
  OBVIOUS
<1>2. \A i \in 1 .. Len(a) : a[i].tick \in Nat /\ b[i].tick \in Nat
  BY <1>1, TicksAssumption DEF TickHash
<1>3. differ = {}
  <2> SUFFICES ASSUME differ # {} PROVE FALSE
    OBVIOUS
  <2>1. differ \in SUBSET Nat
    BY <1>1
  <2>2. PICK i \in differ : \A j \in differ : i <= j
    BY <2>1, LeastExists
  <2>3. i \in 1 .. Len(a) /\ a[i] # b[i]
    BY <2>2
  <2>4. \A j \in 1 .. Len(a) : j < i => a[j] = b[j]
    <3>1. ASSUME NEW j \in 1 .. Len(a), j < i, a[j] # b[j]
          PROVE  FALSE
      <4>1. i <= j
        BY <2>2, <3>1
      <4>2. QED
        BY <1>1, <2>3, <3>1, <4>1
    <3>2. QED
      BY <3>1
  <2> HIDE DEF differ
  <2>5. PICK j \in 1 .. Len(a) : b[j] = a[i]
    BY <1>1, <2>3 DEF Occurs
  <2>6. PICK k \in 1 .. Len(a) : a[k] = b[i]
    BY <1>1, <2>3 DEF Occurs
  <2>7. ~ (j < i)
    <3>1. ASSUME j < i PROVE FALSE
      <4>1. a[j] = a[i]
        BY <2>4, <2>5, <3>1
      <4>2. a[j].tick < a[i].tick
        BY <1>1, <2>3, <3>1 DEF InOrder
      <4>3. QED
        BY <1>2, <2>3, <4>1, <4>2
    <3>2. QED
      BY <3>1
  <2>8. ~ (k < i)
    <3>1. ASSUME k < i PROVE FALSE
      <4>1. b[k] = b[i]
        BY <2>4, <2>6, <3>1
      <4>2. b[k].tick < b[i].tick
        BY <1>1, <2>3, <3>1 DEF InOrder
      <4>3. QED
        BY <1>2, <2>3, <4>1, <4>2
    <3>2. QED
      BY <3>1
  <2>9. i < j /\ i < k
    BY <1>1, <2>3, <2>5, <2>6, <2>7, <2>8
  <2>10. b[i].tick < a[i].tick
    BY <1>1, <2>3, <2>5, <2>9 DEF InOrder
  <2>11. a[i].tick < b[i].tick
    BY <1>1, <2>3, <2>6, <2>9 DEF InOrder
  <2>12. QED
    BY <1>2, <2>3, <2>10, <2>11
<1>4. \A i \in 1 .. Len(a) : a[i] = b[i]
  BY <1>3
<1>5. QED
  BY <1>4, SeqEqual

\* A peer that has folded as many hashes as there are ticks has one of each.
LEMMA EveryTickFolded ==
  ASSUME SInv, NEW p \in Peers, NEW t \in Ticks,
         Len(sessions[p].cumulative) = Cardinality(Ticks)
  PROVE  Folded(p, t, sim[p][t])
<1> DEFINE c == sessions[p].cumulative
           n == Len(c)
           f == [i \in 1 .. n |-> c[i].tick]
<1>1. c \in Seq(TickHash) /\ IsFiniteSet(Ticks)
  BY ExchangeAssumption DEF SInv, IInv, TypeOK, SessionType
<1>2. \A i, j \in DOMAIN c : i < j => c[i].tick < c[j].tick
  BY DEF SInv, Ordered
<1>3. n = Cardinality(Ticks)
  OBVIOUS
<1>4. Folded(p, t, sim[p][t]) <=> Occurs(Item(t, sim[p][t]), c)
  BY DEF Folded
<1> HIDE DEF c
<1>5. n \in Nat /\ DOMAIN c = 1 .. n /\ \A i \in 1 .. n : c[i] \in TickHash
  BY <1>1
<1>6. \A i \in 1 .. n : /\ c[i].tick \in Ticks /\ c[i].hash \in Hashes
                        /\ c[i] = Item(c[i].tick, c[i].hash)
  BY <1>5 DEF TickHash, Item
<1> HIDE DEF n
<1>7. ASSUME NEW i \in 1 .. n, NEW j \in 1 .. n, f[i] = f[j]
      PROVE  i = j
  <2>1. c[i].tick = c[j].tick /\ c[i].tick \in Nat
    BY <1>6, <1>7, TicksAssumption
  <2>2. ~ (i < j) /\ ~ (j < i)
    BY <1>2, <1>5, <2>1
  <2>3. QED
    BY <1>5, <2>2
<1>8. f \in Injection(1 .. n, Ticks)
  <2>1. f \in [1 .. n -> Ticks]
    BY <1>6
  <2> HIDE DEF f
  <2>2. QED
    BY <1>7, <2>1 DEF Injection, IsInjective
<1>9. f \in Surjection(1 .. n, Ticks)
  <2> HIDE DEF f
  <2>1. Cardinality(1 .. n) = n
    BY <1>5, FS_Interval
  <2>2. QED
    BY <1>1, <1>3, <1>8, <2>1, FS_Injection
<1>10. PICK i \in 1 .. n : f[i] = t
  BY <1>9 DEF Surjection
<1>11. c[i] = Item(t, c[i].hash) /\ c[i].hash \in Hashes
  BY <1>6, <1>10
<1>12. Folded(p, t, c[i].hash)
  BY <1>5, <1>11 DEF Folded, Occurs, c
<1>13. QED
  BY <1>11, <1>12 DEF SInv, IInv, FoldIsSim

\* Silence means agreement: when the exchange is over, nothing was lost and no
\* session has an alarm, every finish() is the same.
THEOREM SilenceShowsInFoldCorrect == Spec => []SilenceShowsInFold
<1>1. SInv => SilenceShowsInFold
  <2> SUFFICES ASSUME SInv, Settled,
                      \A p \in Peers : sessions[p].checked_ticks = {},
                      NEW p \in Peers, NEW q \in Peers
               PROVE  sessions[p].cumulative = sessions[q].cumulative
    BY DEF SilenceShowsInFold
  <2>1. \A r \in Peers :
          /\ sessions[r] \in SessionType
          /\ sessions[r].cumulative \in Seq(TickHash)
          /\ \A t \in Ticks : sim[r][t] \in Hashes
    BY SMTT(20) DEF SInv, IInv, TypeOK, SessionType
  <2>2. \A r \in Peers, t \in Ticks : Folded(r, t, sim[r][t])
    BY EveryTickFolded DEF Settled
  <2>3. \A r \in Peers, t \in Ticks : ~ Disagree(sessions[r].hashes_by_tick[t])
    BY DEF Settled, Divergent
  <2>4. \A r \in Peers, t \in Ticks : Holds(r, r, t, sim[r][t])
    BY <2>1, <2>2 DEF SInv, OwnReport
  <2>5. \A r, x \in Peers, t \in Ticks : Holds(r, x, t, sim[x][t])
    <3>1. ASSUME NEW r \in Peers, NEW x \in Peers, NEW t \in Ticks, r # x
          PROVE  Holds(r, x, t, sim[x][t])
      <4>1. ~ Pending(x, t, sim[x][t])
        BY DEF Settled, Pending, Occurs
      <4>2. QED
        BY <2>1, <2>2, <3>1, <4>1 DEF SInv, Reaches, Settled
    <3>2. QED
      BY <2>4, <3>1
  <2>6. \A t \in Ticks : sim[p][t] = sim[q][t]
    BY <2>1, <2>3, <2>5, DisagreeInTable DEF Holds
  <2>7. \A r \in Peers : \A x : Occurs(x, sessions[r].cumulative) <=>
          \E t \in Ticks : x = Item(t, sim[r][t])
    <3>1. ASSUME NEW r \in Peers, NEW x, Occurs(x, sessions[r].cumulative)
          PROVE  \E t \in Ticks : x = Item(t, sim[r][t])
      <4>1. x \in TickHash
        BY <2>1, <3>1 DEF Occurs
      <4>2. x.tick \in Ticks /\ x.hash \in Hashes /\ x = Item(x.tick, x.hash)
        BY <4>1 DEF TickHash, Item
      <4>3. Folded(r, x.tick, x.hash)
        BY <3>1, <4>2 DEF Folded
      <4>4. QED
        BY <4>2, <4>3 DEF SInv, IInv, FoldIsSim
    <3>2. QED
      BY <2>2, <3>1 DEF Folded
  <2>8. \A x : Occurs(x, sessions[p].cumulative) <=>
                 Occurs(x, sessions[q].cumulative)
    <3>1. \A t \in Ticks : Item(t, sim[p][t]) = Item(t, sim[q][t])
      BY <2>6
    <3>2. ASSUME NEW x
          PROVE  (\E t \in Ticks : x = Item(t, sim[p][t])) <=>
                   (\E t \in Ticks : x = Item(t, sim[q][t]))
      BY <3>1
    <3>3. ASSUME NEW x
          PROVE  Occurs(x, sessions[p].cumulative) <=>
                   Occurs(x, sessions[q].cumulative)
      <4>1. Occurs(x, sessions[p].cumulative) <=>
              \E t \in Ticks : x = Item(t, sim[p][t])
        BY <2>7
      <4>2. Occurs(x, sessions[q].cumulative) <=>
              \E t \in Ticks : x = Item(t, sim[q][t])
        BY <2>7
      <4>3. QED
        BY <3>2, <4>1, <4>2
    <3>4. QED
      BY <3>3
  <2>9. Len(sessions[p].cumulative) = Len(sessions[q].cumulative)
    BY DEF Settled
  <2>10. InOrder(sessions[p].cumulative) /\ InOrder(sessions[q].cumulative)
    BY DEF SInv, Ordered, InOrder
  <2>11. QED
    BY <2>1, <2>8, <2>9, <2>10, SameEntries
<1>2. QED
  BY <1>1, SInvCorrect, PTL
============================================================================
