--------------------------- MODULE DelegateLife_proofs ---------------------------
(* Ownership around zx::multicast_delegate, for every number of variables, lists  *)
(* and subscribers and whatever their hashes are: every i_delegate has one owner, *)
(* is deleted once or is lost, and a call reaches subscribers that live.          *)
EXTENDS DelegateLife, FiniteSetTheorems, TLAPS

\* A list's keys and nodes. A node is found under the hash of its subscriber.
MapsTyped ==
    /\ DOMAIN map = Lists
    /\ \A l \in Lists : \A k \in DOMAIN map[l] :
        map[l][k] \in 1..Len(nodes) /\ k = Hash(nodes[map[l][k]])

Typed ==
    /\ delegates \in [Variables -> Lists \cup {MovedFrom, Dead}]
    /\ nodes \in Seq(Subscribers) /\ Len(nodes) <= MaxNodes
    /\ deleted \subseteq 1..Len(nodes) /\ lost \subseteq 1..Len(nodes)
    /\ alive \subseteq Owners /\ owed \subseteq Lists \X Subscribers /\ crossed \subseteq owed
    /\ MapsTyped

\* A list goes with its last variable, and takes along what it owes.
UnusedEmpty ==
    \A l \in Lists : ~Shared(l) => DOMAIN map[l] = {} /\ \A e \in owed : e[1] # l

\* Lists own what they have, each by itself.
OwnedApart ==
    \A l \in Lists : \A k \in DOMAIN map[l] :
        /\ map[l][k] \notin deleted \cup lost
        /\ \A m \in Lists : \A j \in DOMAIN map[m] : map[m][j] = map[l][k] => m = l /\ j = k

\* What nobody owns was deleted or got lost, not both.
NodesTracked ==
    /\ deleted \cap lost = {}
    /\ \A n \in 1..Len(nodes) :
        n \in deleted \cup lost \/ \E l \in Lists : \E k \in DOMAIN map[l] : map[l][k] = n

\* The hash of a subscription finds its subscriber.
Found(e) == Hash(e[2]) \in DOMAIN map[e[1]] /\ nodes[map[e[1]][Hash(e[2])]] = e[2]

\* Who is called is owed a call; who is owed one lives, and its hash finds it
\* unless it was crossed.
CallsOwed ==
    /\ \A l \in Lists : \A k \in DOMAIN map[l] : <<l, nodes[map[l][k]]>> \in owed
    /\ \A e \in owed :
        /\ e[2].owner \in alive \cup {Static}
        /\ e \in crossed \/ Found(e)

LifeInv == Typed /\ UnusedEmpty /\ OwnedApart /\ NodesTracked /\ CallsOwed

-----------------------------------------------------------------------------
LEMMA HashTyped ==
  ASSUME NEW s \in Subscribers
  PROVE  Hash(s) \in SUBSET Bits
<1>1. /\ s.owner \in Owners \cup {Static}
      /\ (IF s.owner = Static THEN StdHash[s.fn] ELSE Code[s.fn]) \in SUBSET Bits
  BY LifeAssumption
<1>2. CASE s.owner = Static
  BY <1>1, <1>2 DEF Hash
<1>3. CASE s.owner # Static
  <2>1. Address[s.owner] \in SUBSET Bits /\ Code[s.fn] \in SUBSET Bits
    BY <1>1, <1>3, LifeAssumption
  <2> QED BY <1>3, <2>1 DEF Hash, memfn_hash
<1> QED BY <1>2, <1>3

LEMMA LifeInit == Init => LifeInv
<1> SUFFICES ASSUME Init PROVE LifeInv
  OBVIOUS
<1>1. /\ delegates = [h \in Variables |-> Dead] /\ map = [l \in Lists |-> <<>>]
      /\ nodes = <<>> /\ deleted = {} /\ lost = {} /\ alive = {} /\ owed = {} /\ crossed = {}
  BY DEF Init
<1>2. Len(nodes) = 0 /\ nodes \in Seq(Subscribers) /\ MaxNodes \in Nat
  BY <1>1, LifeAssumption
<1>3. \A l \in Lists : DOMAIN map[l] = {}
  BY <1>1
<1> QED BY <1>1, <1>2, <1>3 DEF LifeInv, Typed, MapsTyped, UnusedEmpty, OwnedApart,
     NodesTracked, CallsOwed

-----------------------------------------------------------------------------
(* Variables come, share a list and go.                                          *)

\* No list loses its last variable, and none changes.
LEMMA SharedKeeps ==
  ASSUME LifeInv, delegates' \in [Variables -> Lists \cup {MovedFrom, Dead}],
         \A l \in Lists : Shared(l) => Shared(l)',
         DOMAIN map' = Lists,
         \A l \in Lists : DOMAIN map'[l] = DOMAIN map[l],
         \A l \in Lists : \A k \in DOMAIN map[l] : map'[l][k] = map[l][k],
         UNCHANGED <<nodes, deleted, lost, alive, owed, crossed>>
  PROVE  LifeInv'
<1>1. MapsTyped'
  BY DEF LifeInv, Typed, MapsTyped
<1>2. Typed'
  BY <1>1 DEF LifeInv, Typed
<1>3. UnusedEmpty'
  BY DEF LifeInv, UnusedEmpty
<1>4. OwnedApart'
  BY DEF LifeInv, OwnedApart
<1>5. NodesTracked'
  BY DEF LifeInv, NodesTracked
<1>6. CallsOwed'
  <2>1. \A e \in owed : e[1] \in Lists
    BY DEF LifeInv, Typed
  <2> QED BY <2>1 DEF LifeInv, CallsOwed, Found
<1> QED BY <1>2, <1>3, <1>4, <1>5, <1>6 DEF LifeInv

LEMMA NewDelegateKeeps ==
  ASSUME LifeInv, NEW h \in Variables, NewDelegate(h)
  PROVE  LifeInv'
<1>1. PICK l \in Lists : /\ ~Shared(l)
                         /\ delegates' = [delegates EXCEPT ![h] = l]
                         /\ map' = [map EXCEPT ![l] = <<>>]
  BY DEF NewDelegate
<1>2. delegates[h] = Dead /\ UNCHANGED <<nodes, deleted, lost, alive, owed, crossed>>
  BY DEF NewDelegate
<1>3. DOMAIN map = Lists /\ DOMAIN map[l] = {}
      /\ delegates \in [Variables -> Lists \cup {MovedFrom, Dead}]
  BY <1>1 DEF LifeInv, Typed, MapsTyped, UnusedEmpty
<1>4. DOMAIN map' = Lists /\ DOMAIN map'[l] = {} /\ \A m \in Lists \ {l} : map'[m] = map[m]
  BY <1>1, <1>3
<1>5. \A m \in Lists : Shared(m) => Shared(m)'
  BY <1>1, <1>2, <1>3, LifeAssumption DEF Shared
<1>6. delegates' \in [Variables -> Lists \cup {MovedFrom, Dead}]
  BY <1>1, <1>3
<1>7. \A m \in Lists : DOMAIN map'[m] = DOMAIN map[m]
  BY <1>3, <1>4
<1>8. \A m \in Lists : \A k \in DOMAIN map[m] : map'[m][k] = map[m][k]
  BY <1>3, <1>4
<1> QED BY <1>2, <1>4, <1>5, <1>6, <1>7, <1>8, SharedKeeps

LEMMA CopyKeeps ==
  ASSUME LifeInv, NEW h \in Variables, NEW to \in Variables, Copy(h, to) \/ Move(h, to)
  PROVE  LifeInv'
<1>1. /\ delegates[h] # Dead /\ delegates[to] = Dead
      /\ UNCHANGED <<map, nodes, deleted, lost, alive, owed, crossed>>
      /\ \/ delegates' = [delegates EXCEPT ![to] = delegates[h]]
         \/ delegates' = [delegates EXCEPT ![to] = delegates[h], ![h] = MovedFrom]
  BY DEF Copy, Move
<1>2. DOMAIN map = Lists /\ delegates \in [Variables -> Lists \cup {MovedFrom, Dead}]
  BY DEF LifeInv, Typed, MapsTyped
<1>3. delegates' \in [Variables -> Lists \cup {MovedFrom, Dead}]
  BY <1>1, <1>2
<1>4. \A g \in Variables : delegates[g] \in Lists =>
          \E f \in Variables : delegates'[f] = delegates[g]
  <2> SUFFICES ASSUME NEW g \in Variables, delegates[g] \in Lists
               PROVE  \E f \in Variables : delegates'[f] = delegates[g]
    OBVIOUS
  <2>1. g # to /\ h # to
    BY <1>1, LifeAssumption
  <2>2. CASE g = h
    BY <1>1, <1>2, <2>1, <2>2
  <2>3. CASE g # h
    BY <1>1, <1>2, <2>1, <2>3
  <2> QED BY <2>2, <2>3
<1>5. \A l \in Lists : Shared(l) => Shared(l)'
  BY <1>4 DEF Shared
<1> QED BY <1>1, <1>2, <1>3, <1>5, SharedKeeps

\* The last variable's list is deleted: what it had is deleted, what it owed gone.
LEMMA DestroyKeeps ==
  ASSUME LifeInv, NEW h \in Variables, Destroy(h)
  PROVE  LifeInv'
<1> DEFINE l == delegates[h]
           last == Usable(h) /\ ~\E g \in Variables \ {h} : delegates[g] = l
<1>1. /\ delegates[h] # Dead /\ delegates' = [delegates EXCEPT ![h] = Dead]
      /\ UNCHANGED <<nodes, lost, alive>>
      /\ IF last THEN /\ deleted' = deleted \cup Range(map[l])
                      /\ map' = [map EXCEPT ![l] = <<>>]
                      /\ owed' = {e \in owed : e[1] # l} /\ crossed' = crossed \cap owed'
                 ELSE UNCHANGED <<deleted, map, owed, crossed>>
  BY DEF Destroy
<1>2. /\ DOMAIN map = Lists /\ delegates \in [Variables -> Lists \cup {MovedFrom, Dead}]
      /\ nodes \in Seq(Subscribers) /\ Len(nodes) <= MaxNodes
      /\ deleted \subseteq 1..Len(nodes) /\ lost \subseteq 1..Len(nodes)
      /\ alive \subseteq Owners /\ owed \subseteq Lists \X Subscribers /\ crossed \subseteq owed
  BY DEF LifeInv, Typed, MapsTyped
<1>3. delegates' \in [Variables -> Lists \cup {MovedFrom, Dead}]
  BY <1>1, <1>2
<1>4. \A m \in Lists \ {l} : Shared(m) => Shared(m)'
  BY <1>1, <1>2 DEF Shared
<1>5. CASE ~last
  <2>1. l \in Lists => \E g \in Variables : delegates'[g] = l
    BY <1>1, <1>2, <1>5 DEF Usable
  <2>2. \A m \in Lists : Shared(m) => Shared(m)'
    BY <1>4, <2>1 DEF Shared
  <2> QED BY <1>1, <1>2, <1>3, <1>5, <2>2, SharedKeeps
<1>6. CASE last
  <2>1. /\ l \in Lists /\ deleted' = deleted \cup Range(map[l])
        /\ map' = [map EXCEPT ![l] = <<>>] /\ owed' = {e \in owed : e[1] # l}
        /\ crossed' = crossed \cap owed' /\ UNCHANGED <<nodes, lost, alive>>
    BY <1>1, <1>6 DEF Usable
  <2> HIDE DEF l, last
  <2>2. DOMAIN map' = Lists /\ DOMAIN map'[l] = {} /\ \A m \in Lists \ {l} : map'[m] = map[m]
    BY <1>2, <2>1
  <2>3. \A n : n \in Range(map[l]) <=> \E k \in DOMAIN map[l] : n = map[l][k]
    BY DEF Range
  <2>4. MapsTyped'
    BY <2>1, <2>2 DEF LifeInv, Typed, MapsTyped
  <2>5. Range(map[l]) \subseteq 1..Len(nodes)
    BY <2>1, <2>3 DEF LifeInv, Typed, MapsTyped
  <2>6. Typed'
    BY <1>2, <1>3, <2>1, <2>4, <2>5 DEF Typed
  <2>7. UnusedEmpty'
    BY <1>4, <2>1, <2>2 DEF LifeInv, UnusedEmpty
  <2>8. OwnedApart'
    <3> SUFFICES ASSUME NEW m \in Lists \ {l}, NEW k \in DOMAIN map[m]
                 PROVE  /\ map[m][k] \notin deleted' \cup lost'
                        /\ \A q \in Lists \ {l} : \A j \in DOMAIN map[q] :
                              map[q][j] = map[m][k] => q = m /\ j = k
      BY <2>2 DEF OwnedApart
    <3>1. map[m][k] \notin Range(map[l])
      BY <2>1, <2>3 DEF LifeInv, OwnedApart
    <3> QED BY <2>1, <3>1 DEF LifeInv, OwnedApart
  <2>9. NodesTracked'
    <3>1. Range(map[l]) \cap lost = {}
      BY <2>1, <2>3 DEF LifeInv, OwnedApart
    <3>2. deleted' \cap lost' = {}
      BY <2>1, <3>1 DEF LifeInv, NodesTracked
    <3>3. ASSUME NEW n \in 1..Len(nodes)
          PROVE  \/ n \in deleted' \cup lost'
                 \/ \E m \in Lists : \E k \in DOMAIN map'[m] : map'[m][k] = n
      <4>1. CASE n \in deleted \cup lost
        BY <2>1, <4>1
      <4>2. CASE \E m \in Lists : \E k \in DOMAIN map[m] : map[m][k] = n
        <5>1. PICK m \in Lists : \E k \in DOMAIN map[m] : map[m][k] = n
          BY <4>2
        <5>2. CASE m = l
          BY <2>1, <2>3, <5>1, <5>2
        <5>3. CASE m # l
          BY <2>2, <5>1, <5>3
        <5> QED BY <5>2, <5>3
      <4> QED BY <4>1, <4>2 DEF LifeInv, NodesTracked
    <3> QED BY <2>1, <3>2, <3>3 DEF NodesTracked
  <2>10. CallsOwed'
    <3>1. \A m \in Lists : \A k \in DOMAIN map'[m] :
              m # l /\ <<m, nodes[map'[m][k]]>> \in owed
      BY <2>2 DEF LifeInv, CallsOwed
    <3>2. \A m \in Lists : \A k \in DOMAIN map'[m] : <<m, nodes[map'[m][k]]>> \in owed'
      BY <2>1, <3>1
    <3>3. \A e \in owed' : e \in owed /\ e[1] \in Lists \ {l}
      BY <1>2, <2>1
    <3>4. \A e \in owed' : e[2].owner \in alive \cup {Static} /\ (e \in crossed' \/ Found(e)')
      BY <2>1, <2>2, <3>3 DEF LifeInv, CallsOwed, Found
    <3> QED BY <2>1, <3>2, <3>4 DEF CallsOwed
  <2> QED BY <2>6, <2>7, <2>8, <2>9, <2>10 DEF LifeInv
<1> QED BY <1>5, <1>6

-----------------------------------------------------------------------------
(* Subscribers come and go.                                                      *)

LEMMA NodeAdded ==
  ASSUME nodes \in Seq(Subscribers), NEW s \in Subscribers, nodes' = Append(nodes, s)
  PROVE  /\ Len(nodes) \in Nat /\ Len(nodes') = Len(nodes) + 1
         /\ nodes' \in Seq(Subscribers) /\ nodes'[Len(nodes')] = s
         /\ Len(nodes') \notin 1..Len(nodes) /\ 1..Len(nodes') = 1..Len(nodes) \cup {Len(nodes')}
         /\ \A n \in 1..Len(nodes) : nodes'[n] = nodes[n]
OBVIOUS

\* A node whose hash is taken is lost; what the hash stands for stays.
LEMMA SubscribeLost ==
  ASSUME LifeInv, NEW h \in Variables, NEW s \in Subscribers, Subscribe(h, s),
         Hash(s) \in DOMAIN map[delegates[h]]
  PROVE  LifeInv'
<1> DEFINE l == delegates[h]
           new == Len(nodes')
<1>1. /\ l \in Lists /\ Len(nodes) < MaxNodes /\ s.owner \in alive \cup {Static}
      /\ nodes' = Append(nodes, s) /\ lost' = lost \cup {new}
      /\ owed' = owed \cup {<<l, s>>} /\ UNCHANGED <<map, delegates, deleted, alive>>
      /\ crossed' = IF rivals(l, s) = {} THEN crossed \ {<<l, s>>}
                                        ELSE crossed \cup ({<<l, s>>} \ owed)
  BY DEF Subscribe, Usable
<1>2. /\ Len(nodes) \in Nat /\ new = Len(nodes) + 1
      /\ nodes' \in Seq(Subscribers) /\ nodes'[new] = s
      /\ new \notin 1..Len(nodes) /\ 1..new = 1..Len(nodes) \cup {new}
      /\ \A n \in 1..Len(nodes) : nodes'[n] = nodes[n]
  BY <1>1, NodeAdded DEF LifeInv, Typed
<1> HIDE DEF l, new
<1>3. MapsTyped'
  BY <1>1, <1>2 DEF LifeInv, Typed, MapsTyped, new
<1>4. Typed'
  <2>1. new <= MaxNodes
    BY <1>1, <1>2, LifeAssumption
  <2>2. deleted \subseteq 1..new /\ lost' \subseteq 1..new
    BY <1>1, <1>2 DEF LifeInv, Typed
  <2>3. owed' \subseteq Lists \X Subscribers /\ crossed' \subseteq owed'
    BY <1>1 DEF LifeInv, Typed
  <2> QED BY <1>1, <1>2, <1>3, <2>1, <2>2, <2>3 DEF LifeInv, Typed, new
<1>5. UnusedEmpty'
  <2>1. Shared(l)
    BY <1>1 DEF Shared, l
  <2>2. \A m : Shared(m)' <=> Shared(m)
    BY <1>1 DEF Shared
  <2> QED BY <1>1, <2>1, <2>2 DEF LifeInv, UnusedEmpty
<1>6. OwnedApart'
  BY <1>1, <1>2 DEF LifeInv, OwnedApart, Typed, MapsTyped
<1>7. NodesTracked'
  <2>1. new \notin deleted
    BY <1>2 DEF LifeInv, Typed
  <2>2. deleted \cap lost' = {}
    BY <1>1, <2>1 DEF LifeInv, NodesTracked
  <2>3. \A n \in 1..new : n = new \/ n \in 1..Len(nodes)
    BY <1>2
  <2>4. \A n \in 1..new :
            n \in deleted \cup lost' \/ \E m \in Lists : \E k \in DOMAIN map[m] : map[m][k] = n
    BY <1>1, <2>3 DEF LifeInv, NodesTracked
  <2> QED BY <1>1, <2>2, <2>4 DEF NodesTracked, new
<1>8. CallsOwed'
  <2>1. \A m \in Lists : \A k \in DOMAIN map[m] : nodes'[map[m][k]] = nodes[map[m][k]]
    BY <1>2 DEF LifeInv, Typed, MapsTyped
  <2>2. Hash(s) \in DOMAIN map[l]
    BY DEF l
  <2>3. \A m \in Lists : \A k \in DOMAIN map[m] : <<m, nodes'[map[m][k]]>> \in owed'
    BY <1>1, <2>1 DEF LifeInv, CallsOwed
  <2>4. ASSUME NEW e \in owed'
        PROVE  e[2].owner \in alive \cup {Static} /\ (e \in crossed' \/ Found(e)')
    <3>1. CASE e = <<l, s>> /\ rivals(l, s) = {}
      <4> DEFINE t == nodes[map[l][Hash(s)]]
      <4>1. <<l, t>> \in owed /\ Hash(t) = Hash(s) /\ nodes'[map[l][Hash(s)]] = t
        BY <1>1, <2>1, <2>2 DEF LifeInv, CallsOwed, Typed, MapsTyped
      <4>2. t = s
        BY <3>1, <4>1 DEF rivals
      <4> QED BY <1>1, <2>2, <3>1, <4>1, <4>2 DEF Found
    <3>2. CASE e = <<l, s>> /\ e \notin owed /\ rivals(l, s) # {}
      BY <1>1, <3>2
    <3>3. CASE e \in owed /\ ~(e = <<l, s>> /\ rivals(l, s) = {})
      <4>1. e[1] \in Lists /\ crossed \ {<<l, s>>} \subseteq crossed'
            /\ (e \in crossed => e \in crossed')
        BY <1>1, <3>3 DEF LifeInv, Typed
      <4> QED BY <1>1, <2>1, <3>3, <4>1 DEF LifeInv, CallsOwed, Found
    <3> QED BY <1>1, <3>1, <3>2, <3>3
  <2> QED BY <1>1, <2>3, <2>4 DEF CallsOwed
<1> QED BY <1>4, <1>5, <1>6, <1>7, <1>8 DEF LifeInv

\* A node is inserted under a hash that was free.
LEMMA SubscribeInserts ==
  ASSUME LifeInv, NEW h \in Variables, NEW s \in Subscribers, Subscribe(h, s),
         Hash(s) \notin DOMAIN map[delegates[h]]
  PROVE  LifeInv'
<1> DEFINE l == delegates[h]
           new == Len(nodes')
           hash == Hash(s)
<1>1. /\ l \in Lists /\ Len(nodes) < MaxNodes /\ s.owner \in alive \cup {Static}
      /\ nodes' = Append(nodes, s) /\ UNCHANGED lost
      /\ map' = [map EXCEPT ![l] = [k \in DOMAIN @ \cup {hash} |-> IF k = hash THEN new ELSE @[k]]]
      /\ owed' = owed \cup {<<l, s>>} /\ UNCHANGED <<delegates, deleted, alive>>
      /\ crossed' = IF rivals(l, s) = {} THEN crossed \ {<<l, s>>}
                                        ELSE crossed \cup ({<<l, s>>} \ owed)
  BY DEF Subscribe, Usable
<1>2. /\ Len(nodes) \in Nat /\ new = Len(nodes) + 1
      /\ nodes' \in Seq(Subscribers) /\ nodes'[new] = s
      /\ new \notin 1..Len(nodes) /\ 1..new = 1..Len(nodes) \cup {new}
      /\ \A n \in 1..Len(nodes) : nodes'[n] = nodes[n]
  BY <1>1, NodeAdded DEF LifeInv, Typed
<1>3. DOMAIN map = Lists /\ hash \notin DOMAIN map[l]
  BY DEF LifeInv, Typed, MapsTyped
<1> HIDE DEF l, new, hash
<1>4. /\ DOMAIN map' = Lists /\ DOMAIN map'[l] = DOMAIN map[l] \cup {hash}
      /\ map'[l][hash] = new /\ \A k \in DOMAIN map[l] : map'[l][k] = map[l][k]
      /\ \A m \in Lists \ {l} : map'[m] = map[m]
  BY <1>1, <1>3
<1>5. \A m \in Lists : \A k \in DOMAIN map'[m] :
          \/ m = l /\ k = hash /\ map'[m][k] = new
          \/ k \in DOMAIN map[m] /\ map'[m][k] = map[m][k]
  BY <1>4
<1>6. \A m \in Lists : \A k \in DOMAIN map[m] : k \in DOMAIN map'[m] /\ map'[m][k] = map[m][k]
  BY <1>4
<1>7. \A m \in Lists : \A k \in DOMAIN map[m] :
          /\ map[m][k] \in 1..Len(nodes) /\ k = Hash(nodes[map[m][k]])
          /\ nodes'[map[m][k]] = nodes[map[m][k]]
  BY <1>2 DEF LifeInv, Typed, MapsTyped
<1>8. MapsTyped'
  <2> SUFFICES ASSUME NEW m \in Lists, NEW k \in DOMAIN map'[m]
               PROVE  map'[m][k] \in 1..new /\ k = Hash(nodes'[map'[m][k]])
    BY <1>4 DEF MapsTyped, new
  <2>1. CASE k = hash /\ map'[m][k] = new
    BY <1>2, <2>1 DEF hash
  <2>2. CASE k \in DOMAIN map[m] /\ map'[m][k] = map[m][k]
    BY <1>2, <1>7, <2>2
  <2> QED BY <1>5, <2>1, <2>2
<1>9. Typed'
  <2>1. new <= MaxNodes
    BY <1>1, <1>2, LifeAssumption
  <2>2. owed' \subseteq Lists \X Subscribers /\ crossed' \subseteq owed'
    BY <1>1 DEF LifeInv, Typed
  <2> QED BY <1>1, <1>2, <1>8, <2>1, <2>2 DEF LifeInv, Typed, new
<1>10. UnusedEmpty'
  <2>1. Shared(l)
    BY <1>1 DEF Shared, l
  <2>2. \A m : Shared(m)' <=> Shared(m)
    BY <1>1 DEF Shared
  <2> QED BY <1>1, <1>4, <2>1, <2>2 DEF LifeInv, UnusedEmpty
<1>11. OwnedApart'
  <2>1. ASSUME NEW m \in Lists, NEW k \in DOMAIN map'[m]
        PROVE  map'[m][k] \notin deleted' \cup lost'
    <3>1. new \notin deleted \cup lost
      BY <1>2 DEF LifeInv, Typed
    <3> QED BY <3>1, <1>1, <1>5 DEF LifeInv, OwnedApart
  <2>2. ASSUME NEW m \in Lists, NEW k \in DOMAIN map'[m],
               NEW q \in Lists, NEW j \in DOMAIN map'[q], map'[q][j] = map'[m][k]
        PROVE  q = m /\ j = k
    <3>1. CASE map'[m][k] = new
      <4>1. m = l /\ k = hash /\ q = l /\ j = hash
        BY <1>2, <1>5, <1>7, <2>2, <3>1
      <4> QED BY <4>1
    <3>2. CASE map'[m][k] # new
      BY <1>5, <2>2, <3>2 DEF LifeInv, OwnedApart
    <3> QED BY <3>1, <3>2
  <2> QED BY <2>1, <2>2 DEF OwnedApart
<1>12. NodesTracked'
  <2> SUFFICES ASSUME NEW n \in 1..new
               PROVE  \/ n \in deleted \cup lost
                      \/ \E m \in Lists : \E k \in DOMAIN map'[m] : map'[m][k] = n
    BY <1>1 DEF LifeInv, NodesTracked, new
  <2>1. CASE n = new
    BY <1>1, <1>4, <2>1
  <2>2. CASE n \in 1..Len(nodes)
    BY <1>6, <2>2 DEF LifeInv, NodesTracked
  <2> QED BY <1>2, <2>1, <2>2
<1>13. CallsOwed'
  <2>1. ASSUME NEW m \in Lists, NEW k \in DOMAIN map'[m]
        PROVE  <<m, nodes'[map'[m][k]]>> \in owed'
    <3>1. CASE m = l /\ map'[m][k] = new
      BY <1>1, <1>2, <3>1
    <3>2. CASE k \in DOMAIN map[m] /\ map'[m][k] = map[m][k]
      <4>1. <<m, nodes[map[m][k]]>> \in owed /\ nodes'[map[m][k]] = nodes[map[m][k]]
        BY <1>7, <3>2 DEF LifeInv, CallsOwed
      <4>2. nodes'[map'[m][k]] = nodes[map[m][k]]
        BY <3>2, <4>1
      <4>3. <<m, nodes'[map'[m][k]]>> \in owed /\ owed \subseteq owed'
        BY <1>1, <4>1, <4>2
      <4> QED BY <4>3
    <3> QED BY <1>5, <3>1, <3>2
  <2>2. ASSUME NEW e \in owed'
        PROVE  e[2].owner \in alive' \cup {Static} /\ (e \in crossed' \/ Found(e)')
    <3>1. CASE e = <<l, s>>
      BY <1>1, <1>2, <1>4, <3>1 DEF hash, Found
    <3>2. CASE e \in owed /\ e # <<l, s>>
      <4>1. e[1] \in Lists /\ (e \in crossed => e \in crossed')
        BY <1>1, <3>2 DEF LifeInv, Typed
      <4>2. Found(e) => Found(e)'
        BY <1>6, <1>7, <4>1 DEF Found
      <4> QED BY <1>1, <3>2, <4>1, <4>2 DEF LifeInv, CallsOwed
    <3> QED BY <1>1, <3>1, <3>2
  <2> QED BY <2>1, <2>2 DEF CallsOwed
<1> QED BY <1>9, <1>10, <1>11, <1>12, <1>13 DEF LifeInv

\* The node of the hash is erased and lost, whoever subscribed it.
LEMMA UnsubscribeKeeps ==
  ASSUME LifeInv, NEW h \in Variables, NEW s \in Subscribers, Unsubscribe(h, s)
  PROVE  LifeInv'
<1> DEFINE l == delegates[h]
           hash == Hash(s)
           gone == {map[l][k] : k \in DOMAIN map[l] \cap {hash}}
<1>1. /\ l \in Lists /\ s.owner \in alive \cup {Static}
      /\ map' = [map EXCEPT ![l] = [k \in DOMAIN @ \ {hash} |-> @[k]]]
      /\ lost' = lost \cup gone /\ owed' = owed \ {<<l, s>>}
      /\ crossed' = (crossed \cup rivals(l, s)) \ {<<l, s>>}
      /\ UNCHANGED <<delegates, nodes, deleted, alive>>
  BY DEF Unsubscribe, Usable
<1>2. DOMAIN map = Lists
  BY DEF LifeInv, Typed, MapsTyped
<1>3. \A n : n \in gone <=> hash \in DOMAIN map[l] /\ n = map[l][hash]
  OBVIOUS
<1> HIDE DEF l, hash, gone
<1>4. /\ DOMAIN map' = Lists /\ DOMAIN map'[l] = DOMAIN map[l] \ {hash}
      /\ \A k \in DOMAIN map[l] \ {hash} : map'[l][k] = map[l][k]
      /\ \A m \in Lists \ {l} : map'[m] = map[m]
  BY <1>1, <1>2
<1>5. \A m \in Lists : \A k \in DOMAIN map'[m] :
          k \in DOMAIN map[m] /\ map'[m][k] = map[m][k] /\ ~(m = l /\ k = hash)
  BY <1>4
<1>6. \A m \in Lists : \A k \in DOMAIN map[m] :
          ~(m = l /\ k = hash) => k \in DOMAIN map'[m] /\ map'[m][k] = map[m][k]
  BY <1>4
<1>7. Typed'
  <2>1. MapsTyped'
    BY <1>1, <1>4, <1>5 DEF LifeInv, Typed, MapsTyped
  <2>2. gone \subseteq 1..Len(nodes)
    BY <1>1, <1>3 DEF LifeInv, Typed, MapsTyped
  <2>3. owed' \subseteq Lists \X Subscribers /\ crossed' \subseteq owed'
    BY <1>1 DEF LifeInv, Typed, rivals
  <2> QED BY <1>1, <2>1, <2>2, <2>3 DEF LifeInv, Typed
<1>8. UnusedEmpty'
  <2>1. Shared(l)
    BY <1>1 DEF Shared, l
  <2>2. \A m : Shared(m)' <=> Shared(m)
    BY <1>1 DEF Shared
  <2> QED BY <1>1, <1>4, <2>1, <2>2 DEF LifeInv, UnusedEmpty
<1>9. OwnedApart'
  <2>1. ASSUME NEW m \in Lists, NEW k \in DOMAIN map'[m]
        PROVE  map'[m][k] \notin deleted' \cup lost'
    <3>1. map[m][k] \notin gone
      <4>1. k \in DOMAIN map[m] /\ ~(m = l /\ k = hash)
        BY <1>5
      <4> QED BY <1>1, <1>3, <4>1 DEF LifeInv, OwnedApart
    <3> QED BY <3>1, <1>1, <1>5 DEF LifeInv, OwnedApart
  <2> QED BY <2>1, <1>5 DEF LifeInv, OwnedApart
<1>10. NodesTracked'
  <2>1. gone \cap deleted = {}
    BY <1>1, <1>3 DEF LifeInv, OwnedApart
  <2>2. ASSUME NEW n \in 1..Len(nodes)
        PROVE  \/ n \in deleted \cup lost'
               \/ \E m \in Lists : \E k \in DOMAIN map'[m] : map'[m][k] = n
    <3>1. CASE n \in deleted \cup lost
      BY <1>1, <3>1
    <3>2. CASE \E m \in Lists : \E k \in DOMAIN map[m] : map[m][k] = n
      <4>1. PICK m \in Lists : \E k \in DOMAIN map[m] : map[m][k] = n
        BY <3>2
      <4>2. PICK k \in DOMAIN map[m] : map[m][k] = n
        BY <4>1
      <4>3. CASE m = l /\ k = hash
        BY <1>1, <1>3, <4>2, <4>3
      <4>4. CASE ~(m = l /\ k = hash)
        BY <1>6, <4>2, <4>4
      <4> QED BY <4>3, <4>4
    <3> QED BY <3>1, <3>2 DEF LifeInv, NodesTracked
  <2> QED BY <1>1, <2>1, <2>2 DEF LifeInv, NodesTracked
<1>11. CallsOwed'
  <2>1. ASSUME NEW m \in Lists, NEW k \in DOMAIN map'[m]
        PROVE  <<m, nodes[map'[m][k]]>> \in owed'
    <3>1. k \in DOMAIN map[m] /\ map'[m][k] = map[m][k] /\ ~(m = l /\ k = hash)
      BY <1>5
    <3>2. <<m, nodes[map[m][k]]>> \in owed /\ k = Hash(nodes[map[m][k]])
      BY <3>1 DEF LifeInv, CallsOwed, Typed, MapsTyped
    <3>3. <<m, nodes[map[m][k]]>> # <<l, s>>
      BY <3>1, <3>2 DEF hash
    <3> QED BY <1>1, <3>1, <3>2, <3>3
  <2>2. ASSUME NEW e \in owed'
        PROVE  e[2].owner \in alive' \cup {Static} /\ (e \in crossed' \/ Found(e)')
    <3>1. e \in owed /\ e # <<l, s>> /\ e \in Lists \X Subscribers
      BY <1>1 DEF LifeInv, Typed
    <3>2. CASE e[1] = l /\ Hash(e[2]) = hash
      <4>1. e[2] # s
        BY <3>1, <3>2
      <4>2. e \in crossed'
        BY <1>1, <3>1, <3>2, <4>1 DEF rivals, hash
      <4> QED BY <1>1, <3>1, <4>2 DEF LifeInv, CallsOwed
    <3>3. CASE ~(e[1] = l /\ Hash(e[2]) = hash)
      <4>1. Found(e) => Found(e)'
        BY <1>1, <1>6, <3>1, <3>3 DEF Found
      <4>2. e \in crossed => e \in crossed'
        BY <1>1, <3>1
      <4> QED BY <1>1, <3>1, <4>1, <4>2 DEF LifeInv, CallsOwed
    <3> QED BY <3>2, <3>3
  <2> QED BY <1>1, <2>1, <2>2 DEF CallsOwed
<1> QED BY <1>7, <1>8, <1>9, <1>10, <1>11 DEF LifeInv

LEMMA OwnersKeep ==
  ASSUME LifeInv, NEW o \in Owners, ConstructOwner(o) \/ DestroyOwner(o)
  PROVE  LifeInv'
<1>1. UNCHANGED <<delegates, map, nodes, deleted, lost, owed, crossed>>
  BY DEF ConstructOwner, DestroyOwner
<1>2. alive' \subseteq Owners /\ \A e \in owed : e[2].owner \in alive' \cup {Static}
  BY DEF ConstructOwner, DestroyOwner, LifeInv, Typed, CallsOwed
<1>3. Typed'
  BY <1>1, <1>2 DEF LifeInv, Typed, MapsTyped
<1>4. UnusedEmpty' /\ OwnedApart' /\ NodesTracked'
  BY <1>1 DEF LifeInv, UnusedEmpty, OwnedApart, NodesTracked, Shared
<1>5. CallsOwed'
  BY <1>1, <1>2 DEF LifeInv, CallsOwed, Found
<1> QED BY <1>3, <1>4, <1>5 DEF LifeInv

-----------------------------------------------------------------------------
LEMMA LifeStep == LifeInv /\ [Next]_vars => LifeInv'
<1> SUFFICES ASSUME LifeInv, [Next]_vars PROVE LifeInv'
  OBVIOUS
<1>1. CASE UNCHANGED vars
  BY <1>1 DEF vars, LifeInv, Typed, MapsTyped, UnusedEmpty, OwnedApart, NodesTracked, CallsOwed,
     Found, Shared
<1>2. ASSUME NEW h \in Variables, NewDelegate(h) \/ Destroy(h) PROVE LifeInv'
  BY <1>2, NewDelegateKeeps, DestroyKeeps
<1>3. ASSUME NEW h \in Variables, NEW to \in Variables, Copy(h, to) \/ Move(h, to) PROVE LifeInv'
  BY <1>3, CopyKeeps
<1>4. ASSUME NEW h \in Variables, NEW s \in Subscribers, Subscribe(h, s) \/ Unsubscribe(h, s)
      PROVE  LifeInv'
  BY <1>4, SubscribeLost, SubscribeInserts, UnsubscribeKeeps
<1>5. ASSUME NEW o \in Owners, ConstructOwner(o) \/ DestroyOwner(o) PROVE LifeInv'
  BY <1>5, OwnersKeep
<1> QED BY <1>1, <1>2, <1>3, <1>4, <1>5 DEF Next

LEMMA LifeInvariance == Spec => []LifeInv
  BY LifeInit, LifeStep, PTL DEF Spec

(* Every variable of DelegateLife has its type: a list finds its nodes by 64 bit  *)
(* hashes, and no list, deletion or loss names a node that was never made.        *)
THEOREM TypeCorrect == Spec => []TypeOK
<1>1. LifeInv => TypeOK
  <2> SUFFICES ASSUME LifeInv PROVE TypeOK
    OBVIOUS
  <2>1. Typed /\ MapsTyped
    BY DEF LifeInv, Typed
  <2>2. DOMAIN nodes = 1..Len(nodes)
    BY <2>1 DEF Typed
  <2>3. ASSUME NEW l \in Lists, NEW k \in DOMAIN map[l] PROVE k \in SUBSET Bits
    <3>1. nodes[map[l][k]] \in Subscribers /\ k = Hash(nodes[map[l][k]])
      BY <2>1 DEF Typed, MapsTyped
    <3> QED BY <3>1, HashTyped
  <2>4. \A l \in Lists : Range(map[l]) \subseteq DOMAIN nodes
    BY <2>1, <2>2 DEF MapsTyped, Range
  <2> QED BY <2>1, <2>2, <2>3, <2>4 DEF TypeOK, Typed
<1> QED BY <1>1, LifeInvariance, PTL

(* Every i_delegate is owned by one list that some variable shares, or was        *)
(* deleted, or is lost: never two of these, so none is deleted twice and none is  *)
(* called after it was deleted.                                                   *)
THEOREM EveryNodeAccounted == Spec => []NodesAccounted
<1>1. LifeInv => NodesAccounted
  <2> DEFINE owners(n) == {l \in Lists : Shared(l) /\ n \in Range(map[l])}
  <2> SUFFICES ASSUME LifeInv, NEW n \in DOMAIN nodes
               PROVE  Cardinality(owners(n)) + Cardinality({n} \cap deleted)
                        + Cardinality({n} \cap lost) = 1
    BY DEF NodesAccounted
  <2>1. n \in 1..Len(nodes)
    BY DEF LifeInv, Typed
  <2>2. \A l \in Lists : n \in Range(map[l]) <=> \E k \in DOMAIN map[l] : map[l][k] = n
    BY DEF Range
  <2>3. \A l : l \in owners(n) <=> l \in Lists /\ \E k \in DOMAIN map[l] : map[l][k] = n
    BY <2>2 DEF LifeInv, UnusedEmpty
  <2> HIDE DEF owners
  <2>4. Cardinality({}) = 0 /\ Cardinality({n}) = 1
    BY FS_EmptySet, FS_Singleton
  <2>5. CASE n \in deleted
    <3>1. owners(n) = {} /\ {n} \cap deleted = {n} /\ {n} \cap lost = {}
      BY <2>3, <2>5 DEF LifeInv, OwnedApart, NodesTracked
    <3> QED BY <2>4, <3>1
  <2>6. CASE n \in lost
    <3>1. owners(n) = {} /\ {n} \cap deleted = {} /\ {n} \cap lost = {n}
      BY <2>3, <2>6 DEF LifeInv, OwnedApart, NodesTracked
    <3> QED BY <2>4, <3>1
  <2>7. CASE n \notin deleted \cup lost
    <3>1. PICK l \in Lists : \E k \in DOMAIN map[l] : map[l][k] = n
      BY <2>1, <2>7 DEF LifeInv, NodesTracked
    <3>2. \A m \in Lists : (\E k \in DOMAIN map[m] : map[m][k] = n) => m = l
      BY <3>1 DEF LifeInv, OwnedApart
    <3>3. owners(n) = {l}
      BY <2>3, <3>1, <3>2
    <3>4. {n} \cap deleted = {} /\ {n} \cap lost = {} /\ Cardinality({l}) = 1
      BY <2>7, FS_Singleton
    <3> QED BY <2>4, <3>3, <3>4
  <2> QED BY <2>5, <2>6, <2>7
<1> QED BY <1>1, LifeInvariance, PTL

(* Whoever is called through a variable lives and has not unsubscribed, whatever  *)
(* collides; whoever subscribed while nobody else of the list had its hash, and   *)
(* none with its hash has unsubscribed since, is called until it unsubscribes.    *)
THEOREM CallsReachTheLiving == Spec => []CallsReachSubscribers
<1>1. LifeInv => CallsReachSubscribers
  <2> SUFFICES ASSUME LifeInv, NEW l \in Lists
               PROVE  /\ \A s \in Called(l) : <<l, s>> \in owed /\ s.owner \in alive \cup {Static}
                      /\ \A e \in owed : e[1] = l => e[2] \in Called(l) \/ e \in crossed
    BY DEF CallsReachSubscribers
  <2>1. \A s : s \in Called(l) <=> \E k \in DOMAIN map[l] : s = nodes[map[l][k]]
    BY DEF Called, Range
  <2>2. ASSUME NEW s \in Called(l)
        PROVE  <<l, s>> \in owed /\ s.owner \in alive \cup {Static}
    <3>1. <<l, s>> \in owed
      BY <2>1 DEF LifeInv, CallsOwed
    <3> QED BY <3>1 DEF LifeInv, CallsOwed
  <2>3. \A e \in owed : e[1] = l => e[2] \in Called(l) \/ e \in crossed
    BY <2>1 DEF LifeInv, CallsOwed, Found
  <2> QED BY <2>2, <2>3
<1> QED BY <1>1, LifeInvariance, PTL
=============================================================================
