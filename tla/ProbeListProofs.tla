-------------------------- MODULE ProbeListProofs ---------------------------
(***************************************************************************)
(* Proofs about the list behind the periodic probes, for every number of   *)
(* nodes: it stays in step with the map, and probing goes in rounds.       *)
(*                                                                         *)
(* The loops of the code are followed turn by turn with an induction over  *)
(* sets of numbers, which the least element of such a set provides.        *)
(***************************************************************************)
EXTENDS ProbeList, FiniteSetTheorems, TLAPS

State == {"none", "active", "dead", "expired"}

\* No node is in the list twice.
Distinct(list) == \A a, b \in 1..Len(list) : list[a] = list[b] => a = b

\* The list matches the map, and those who are owed a probe in this round are
\* active and still ahead of probeIdx.
IInv ==
  /\ nodes \in Seq(Member) /\ state \in [Member -> State]
  /\ Range(nodes) = {j \in Member : state[j] # "none"}
  /\ Distinct(nodes) /\ numNodes = Len(nodes)
  /\ probeIdx \in Int /\ probeIdx >= -1
  /\ owed \subseteq Active
  /\ \A k \in 0..(Len(nodes) - 1) : at(nodes, k) \in owed => k > probeIdx

-----------------------------------------------------------------------------
(* Induction.                                                              *)

\* A set of natural numbers that is not empty has a least element.
LEMMA LeastNumber ==
  ASSUME NEW T, T \subseteq Nat, T # {}
  PROVE  \E x \in T : \A y \in T : x <= y
<1> DEFINE R == OpToRel(<, Nat)
<1>1. \A x, y \in Nat : x < y => <<x, y>> \in R
  BY Zenon DEF OpToRel
<1>2. IsWellFoundedOn(R, Nat)
  BY NatLessThanWellFounded, Zenon
<1> HIDE DEF R
<1>3. PICK x \in T : \A y \in T : ~ (<<y, x>> \in R)
  BY <1>2, WFMin, Zenon
<1>4. ASSUME NEW y \in T PROVE x <= y
  <2>1. ~ (y < x)
    BY <1>1, <1>3, Zenon
  <2> QED BY <2>1
<1> QED BY <1>4, Zenon

\* What holds before a loop and is kept by each of its turns holds after every turn.
LEMMA LoopInduction ==
  ASSUME NEW n \in Nat, NEW S, 0 \in S,
         \A k \in 0..(n - 1) : k \in S => k + 1 \in S
  PROVE  \A k \in 0..n : k \in S
<1> SUFFICES ASSUME NEW m \in 0..n, m \notin S PROVE FALSE
  BY Zenon
<1> DEFINE T == {k \in 0..n : k \notin S}
<1>1. T \subseteq Nat /\ T # {}
  OBVIOUS
<1> HIDE DEF T
<1>2. PICK x \in T : \A y \in T : x <= y
  BY <1>1, LeastNumber, Zenon
<1>3. x \in 1..n /\ x \notin S
  BY DEF T
<1>4. x - 1 \in 0..(n - 1) /\ x - 1 \notin T
  BY <1>2, <1>3
<1>5. (x - 1) + 1 \in S
  BY <1>4 DEF T
<1> QED BY <1>3, <1>5

-----------------------------------------------------------------------------
(* The list.                                                               *)

\* A list of distinct nodes has as many entries as nodes.
LEMMA DistinctCounts ==
  ASSUME NEW list \in Seq(Member)
  PROVE  Distinct(list) <=> Len(list) = Cardinality(Range(list))
<1>1. list \in Surjection(1..Len(list), Range(list))
  BY DEF Surjection, Range
<1>2. IsFiniteSet(1..Len(list)) /\ Cardinality(1..Len(list)) = Len(list)
  <2>1. Len(list) \in Nat /\ 1 \in Int /\ Len(list) \in Int
    OBVIOUS
  <2>2. IsFiniteSet(1..Len(list))
        /\ Cardinality(1..Len(list)) = IF 1 > Len(list) THEN 0 ELSE Len(list) - 1 + 1
    BY <2>1, FS_Interval, Zenon
  <2> QED BY <2>1, <2>2
<1>3. Cardinality(Range(list)) = Len(list) <=> list \in Injection(1..Len(list), Range(list))
  BY <1>1, <1>2, FS_Surjection, Zenon
<1>4. list \in [1..Len(list) -> Range(list)]
  BY <1>1, Zenon DEF Surjection
<1>5. list \in Injection(1..Len(list), Range(list)) <=> Distinct(list)
  BY <1>4, Zenon DEF Injection, IsInjective, Distinct
<1> QED BY <1>3, <1>5, Zenon

\* swap loses and repeats no node.
LEMMA SwapKeeps ==
  ASSUME NEW list \in Seq(Member), Distinct(list),
         NEW i \in 0..(Len(list) - 1), NEW k \in 0..(Len(list) - 1)
  PROVE  /\ swap(list, i, k) \in Seq(Member) /\ Len(swap(list, i, k)) = Len(list)
         /\ Range(swap(list, i, k)) = Range(list) /\ Distinct(swap(list, i, k))
         /\ at(swap(list, i, k), k) = at(list, i) /\ at(swap(list, i, k), i) = at(list, k)
         /\ \A m \in 0..(Len(list) - 1) :
              m # i /\ m # k => at(swap(list, i, k), m) = at(list, m)
<1> DEFINE new == swap(list, i, k)
<1>1. list \in [1..Len(list) -> Member] /\ i + 1 \in 1..Len(list) /\ k + 1 \in 1..Len(list)
  OBVIOUS
<1>2. new \in [1..Len(list) -> Member]
  BY <1>1, Zenon DEF swap, at
<1>3. new \in Seq(Member) /\ Len(new) = Len(list)
  BY <1>2
<1>4. \A m \in 1..Len(list) :
        new[m] = IF m = k + 1 THEN list[i + 1] ELSE IF m = i + 1 THEN list[k + 1] ELSE list[m]
  BY <1>1, Zenon DEF swap, at
<1> HIDE DEF new
<1>5. Range(new) = Range(list)
  <2>1. ASSUME NEW m \in 1..Len(list) PROVE new[m] \in Range(list) /\ list[m] \in Range(new)
    BY <1>1, <1>2, <1>3, <1>4, Zenon DEF Range
  <2> QED BY <2>1, <1>1, <1>2, Zenon DEF Range
<1>6. Distinct(new)
  BY <1>1, <1>3, <1>4, Zenon DEF Distinct
<1>7. /\ at(new, k) = at(list, i) /\ at(new, i) = at(list, k)
      /\ \A m \in 0..(Len(list) - 1) : m # i /\ m # k => at(new, m) = at(list, m)
  BY <1>4 DEF at
<1> QED BY <1>3, <1>5, <1>6, <1>7, Zenon DEF new

\* nextIdx passes over nobody whom the loop of nextProbeNode would stop at.
LEMMA NextIdxIs ==
  ASSUME nodes \in Seq(Member), NEW k \in Nat
  PROVE  /\ nextIdx(k) \in Nat /\ nextIdx(k) <= Len(nodes)
         /\ nextIdx(k) < Len(nodes) => nextIdx(k) >= k /\ ~skipped(nextIdx(k))
         /\ \A i \in k..(Len(nodes) - 1) : i < nextIdx(k) => skipped(i)
<1> DEFINE T == {i \in k..(Len(nodes) - 1) : ~skipped(i)} \cup {Len(nodes)}
<1>1. T \subseteq Nat /\ T # {} /\ Len(nodes) \in T
  OBVIOUS
<1>2. \A i \in T : i < Len(nodes) => i >= k /\ ~skipped(i)
  OBVIOUS
<1>3. \A i \in k..(Len(nodes) - 1) : ~skipped(i) => i \in T
  BY Zenon
<1>4. nextIdx(k) = CHOOSE x \in T : \A y \in T : x <= y
  BY Zenon DEF nextIdx, Min
<1> HIDE DEF T
<1>5. nextIdx(k) \in T /\ \A y \in T : nextIdx(k) <= y
  BY <1>1, <1>4, LeastNumber, Zenon
<1>6. nextIdx(k) \in Nat /\ nextIdx(k) <= Len(nodes)
  BY <1>1, <1>5, Zenon
<1>7. ASSUME NEW i \in k..(Len(nodes) - 1), i < nextIdx(k) PROVE skipped(i)
  BY <1>3, <1>5, <1>6, <1>7
<1>8. nextIdx(k) < Len(nodes) => nextIdx(k) >= k /\ ~skipped(nextIdx(k))
  BY <1>2, <1>5, Zenon
<1> QED BY <1>6, <1>7, <1>8, Zenon

-----------------------------------------------------------------------------
(* The loop of swapExpiredToEnd.                                           *)

First(list) == [list |-> list, i |-> 0, expiredIdx |-> Len(list)]

\* What the loop has come to after each of its first n turns.
IsLoop(f, list, n) ==
  f = [k \in 0..n |-> IF k = 0 THEN First(list) ELSE swapTurn(f[k - 1])]

\* The loop can be followed to its last turn: swapExpiredToEnd is well defined.
LEMMA LoopRuns ==
  ASSUME NEW list \in Seq(Member)
  PROVE  \E f : IsLoop(f, list, Len(list)) /\ swapExpiredToEnd(list) = f[Len(list)]
<1> DEFINE n == Len(list)
           S == {m \in 0..n : \E f : IsLoop(f, list, m)}
<1>1. n \in Nat
  OBVIOUS
<1> HIDE DEF n
<1>2. 0 \in S
  <2>1. IsLoop([k \in 0..0 |-> First(list)], list, 0)
    BY DEF IsLoop
  <2>2. \E f : IsLoop(f, list, 0)
    BY <2>1, Zenon
  <2> QED BY <1>1, <2>2
<1>3. ASSUME NEW m \in 0..(n - 1), m \in S PROVE m + 1 \in S
  <2>1. PICK f : IsLoop(f, list, m)
    BY <1>3, Zenon
  <2> DEFINE g == [k \in 0..(m + 1) |-> IF k = m + 1 THEN swapTurn(f[m]) ELSE f[k]]
  <2>2. ASSUME NEW k \in 0..(m + 1)
        PROVE  g[k] = IF k = 0 THEN First(list) ELSE swapTurn(g[k - 1])
    <3>1. CASE k = m + 1
      BY <3>1
    <3>2. CASE k # m + 1
      BY <2>1, <3>2 DEF IsLoop
    <3> QED BY <3>1, <3>2, Zenon
  <2>3. IsLoop(g, list, m + 1)
    BY <2>2, Zenon DEF IsLoop
  <2> HIDE DEF g
  <2>4. m + 1 \in 0..n
    BY <1>1
  <2> QED BY <2>3, <2>4, Zenon
<1> HIDE DEF S
<1>4. n \in S
  <2>1. \A k \in 0..n : k \in S
    BY <1>1, <1>2, <1>3, LoopInduction, Zenon
  <2> QED BY <1>1, <2>1
<1>5. \E f : IsLoop(f, list, n)
  BY <1>4, Zenon DEF S
<1> DEFINE f == CHOOSE f : IsLoop(f, list, n)
<1>6. IsLoop(f, list, n)
  BY <1>5, Zenon
<1>7. swapExpiredToEnd(list) = f[n]
  BY Zenon DEF swapExpiredToEnd, IsLoop, First, n
<1> HIDE DEF f
<1> QED BY <1>6, <1>7, Zenon DEF n

\* After k turns, k nodes have been looked at: those before i are to be kept and
\* those from expiredIdx on have expired.
Looked(was, list, k) ==
  /\ was.list \in Seq(Member) /\ Len(was.list) = Len(list)
  /\ Range(was.list) = Range(list) /\ Distinct(was.list)
  /\ was.i \in 0..Len(list) /\ was.expiredIdx \in 0..Len(list)
  /\ was.i + (Len(list) - was.expiredIdx) = k
  /\ \A m \in 0..(was.i - 1) : state[at(was.list, m)] # "expired"
  /\ \A m \in was.expiredIdx..(Len(list) - 1) : state[at(was.list, m)] = "expired"

\* A turn looks at one more node.
LEMMA TurnLooks ==
  ASSUME NEW list \in Seq(Member), NEW k \in 0..(Len(list) - 1), NEW was,
         Looked(was, list, k)
  PROVE  Looked(swapTurn(was), list, k + 1)
<1> DEFINE n == Len(list)
           now == was.list
           i == was.i
           last == was.expiredIdx - 1
<1>1. n \in Nat /\ i \in 0..(n - 1) /\ last \in 0..(n - 1) /\ i <= last
      /\ was.expiredIdx = last + 1 /\ i + (n - last) = k + 1
  <2>1. n \in Nat /\ k \in 0..(n - 1)
    OBVIOUS
  <2>2. was.i \in 0..n /\ was.expiredIdx \in 0..n /\ was.i + (n - was.expiredIdx) = k
    BY Zenon DEF Looked
  <2> HIDE DEF n, i
  <2>3. ASSUME NEW a \in 0..n, NEW e \in 0..n, a + (n - e) = k
        PROVE  /\ a \in 0..(n - 1) /\ e - 1 \in 0..(n - 1) /\ a <= e - 1
               /\ e = (e - 1) + 1 /\ a + (n - (e - 1)) = k + 1
    BY <2>1, <2>3
  <2>4. i \in 0..n /\ was.expiredIdx \in 0..n /\ i + (n - was.expiredIdx) = k
    BY <2>2, Zenon DEF i
  <2> QED BY <2>1, <2>3, <2>4, Zenon
<1>2. /\ now \in Seq(Member) /\ Len(now) = n /\ Range(now) = Range(list) /\ Distinct(now)
      /\ \A m \in 0..(i - 1) : state[at(now, m)] # "expired"
      /\ \A m \in (last + 1)..(n - 1) : state[at(now, m)] = "expired"
  BY <1>1, Zenon DEF Looked
<1>3. swapTurn(was) =
        IF state[at(now, i)] = "expired"
          THEN [list |-> swap(now, i, last), i |-> i, expiredIdx |-> last]
          ELSE [list |-> now, i |-> i + 1, expiredIdx |-> last + 1]
  BY <1>1, Zenon DEF swapTurn
<1> HIDE DEF n, now, i, last
<1>4. CASE state[at(now, i)] = "expired"
  <2> DEFINE new == swap(now, i, last)
  <2>1. /\ new \in Seq(Member) /\ Len(new) = n /\ Range(new) = Range(list) /\ Distinct(new)
        /\ at(new, last) = at(now, i) /\ at(new, i) = at(now, last)
        /\ \A m \in 0..(n - 1) : m # i /\ m # last => at(new, m) = at(now, m)
    <3>1. i \in 0..(Len(now) - 1) /\ last \in 0..(Len(now) - 1)
      BY <1>1, <1>2, Zenon
    <3>2. /\ new \in Seq(Member) /\ Len(new) = Len(now)
          /\ Range(new) = Range(now) /\ Distinct(new)
          /\ at(new, last) = at(now, i) /\ at(new, i) = at(now, last)
          /\ \A m \in 0..(Len(now) - 1) : m # i /\ m # last => at(new, m) = at(now, m)
      BY <1>2, <3>1, SwapKeeps, ZenonT(30)
    <3> QED BY <1>2, <3>2, Zenon
  <2>2. swapTurn(was) = [list |-> new, i |-> i, expiredIdx |-> last]
    BY <1>3, <1>4, Zenon
  <2> HIDE DEF new
  <2>3. ASSUME NEW m \in 0..(i - 1) PROVE state[at(new, m)] # "expired"
    BY <1>1, <1>2, <2>1
  <2>4. ASSUME NEW m \in last..(n - 1) PROVE state[at(new, m)] = "expired"
    BY <1>1, <1>2, <1>4, <2>1
  <2>5. /\ swapTurn(was).list = new /\ swapTurn(was).i = i
        /\ swapTurn(was).expiredIdx = last
    BY <2>2
  <2>6. i \in 0..n /\ last \in 0..n
    BY <1>1
  <2> QED BY <1>1, <2>1, <2>3, <2>4, <2>5, <2>6, Zenon DEF Looked, n
<1>5. CASE state[at(now, i)] # "expired"
  <2>1. swapTurn(was) = [list |-> now, i |-> i + 1, expiredIdx |-> last + 1]
    BY <1>3, <1>5, Zenon
  <2>2. ASSUME NEW m \in 0..i PROVE state[at(now, m)] # "expired"
    BY <1>1, <1>2, <1>5
  <2>3. /\ swapTurn(was).list = now /\ swapTurn(was).i = i + 1
        /\ swapTurn(was).expiredIdx = last + 1
    BY <2>1
  <2>4. i + 1 \in 0..n /\ last + 1 \in 0..n /\ (i + 1) - 1 = i
        /\ (i + 1) + (n - (last + 1)) = k + 1
    BY <1>1
  <2> QED BY <1>1, <1>2, <2>2, <2>3, <2>4, Zenon DEF Looked, n
<1> QED BY <1>4, <1>5, Zenon

\* swapExpiredToEnd loses and repeats no node, and returns where the expired begin.
LEMMA ExpiredAtEnd ==
  ASSUME NEW list \in Seq(Member), Distinct(list)
  PROVE  LET moved == swapExpiredToEnd(list)
         IN  /\ moved.list \in Seq(Member) /\ Len(moved.list) = Len(list)
             /\ Range(moved.list) = Range(list) /\ Distinct(moved.list)
             /\ moved.expiredIdx \in 0..Len(list)
             /\ \A m \in 0..(Len(list) - 1) :
                  state[at(moved.list, m)] = "expired" <=> m >= moved.expiredIdx
<1> DEFINE n == Len(list)
<1>1. n \in Nat
  OBVIOUS
<1>2. PICK f : IsLoop(f, list, n) /\ swapExpiredToEnd(list) = f[n]
  BY LoopRuns, Zenon
<1> DEFINE S == {k \in 0..n : Looked(f[k], list, k)}
<1>3. 0 \in S
  <2>1. f[0] = First(list)
    BY <1>1, <1>2 DEF IsLoop
  <2>2. Looked(f[0], list, 0)
    BY <1>1, <2>1 DEF Looked, First
  <2> QED BY <1>1, <2>2
<1>4. ASSUME NEW k \in 0..(n - 1), k \in S PROVE k + 1 \in S
  <2>1. f[k + 1] = swapTurn(f[k])
    BY <1>1, <1>2 DEF IsLoop
  <2>2. Looked(f[k + 1], list, k + 1)
    BY <1>4, <2>1, TurnLooks, Zenon
  <2> QED BY <1>1, <2>2
<1> HIDE DEF S
<1>5. n \in S
  <2>1. \A k \in 0..n : k \in S
    BY <1>1, <1>3, <1>4, LoopInduction, Zenon
  <2> QED BY <1>1, <2>1
<1>6. Looked(swapExpiredToEnd(list), list, n)
  BY <1>2, <1>5, Zenon DEF S
<1> QED BY <1>1, <1>6 DEF Looked

-----------------------------------------------------------------------------
(* The steps.                                                              *)

\* At the start there is nobody but the node itself.
LEMMA InitHolds == Init => IInv
<1> SUFFICES ASSUME Init PROVE IInv
  BY Zenon
<1>1. nodes \in Seq(Member) /\ Distinct(nodes) /\ numNodes = Len(nodes)
  <2>1. <<Self>> \in Seq(Member) /\ <<>> \in Seq(Member)
    BY DEF Member
  <2>2. Distinct(<<Self>>) /\ Distinct(<<>>)
    BY DEF Distinct
  <2> QED BY <2>1, <2>2, Zenon DEF Init
<1>2. Range(nodes) \subseteq Member
  BY <1>1 DEF Range
<1>3. state = [j \in Member |-> IF j \in Range(nodes) THEN "active" ELSE "none"]
  BY Zenon DEF Init
<1>4. state \in [Member -> State] /\ Range(nodes) = {j \in Member : state[j] # "none"}
  BY <1>2, <1>3, Zenon DEF State
<1> QED BY <1>1, <1>4 DEF IInv, Init

\* A change of state between active, dead and expired leaves the list alone.
LEMMA StateKeeps ==
  ASSUME IInv, NEW j \in Member, NEW s \in State \ {"none"},
         state[j] # "none", state' = [state EXCEPT ![j] = s],
         UNCHANGED <<nodes, numNodes, probeIdx>>,
         owed' \subseteq owed, s # "active" => j \notin owed'
  PROVE  IInv'
<1>1. state' \in [Member -> State]
  BY Zenon DEF IInv, State
<1>2. {i \in Member : state'[i] # "none"} = {i \in Member : state[i] # "none"}
  BY Zenon DEF IInv
<1>3. Distinct(nodes)' = Distinct(nodes)
  BY Zenon DEF Distinct
<1>4. owed' \subseteq Active'
  BY Zenon DEF IInv, Active, Member
<1> QED BY <1>1, <1>2, <1>3, <1>4 DEF IInv, at, Range

\* A new node is put into the list once, and who is still owed a probe is moved, if
\* at all, to the end.
LEMMA AddKeeps ==
  ASSUME IInv, NEW j \in Peer, addNode(j)
  PROVE  IInv'
<1> DEFINE n == Len(nodes)
           longer == Append(nodes, j)
<1>1. nodes \in Seq(Member) /\ n \in Nat /\ j \in Member
  BY DEF IInv, Member
<1>2. PICK idx \in randIntN(n) : nodes' = swap(longer, idx, n)
  BY Zenon DEF addNode
<1>3. idx \in 0..n
  BY <1>1, <1>2 DEF randIntN
<1>4. longer \in Seq(Member) /\ Len(longer) = n + 1
      /\ longer[n + 1] = j /\ \A k \in 1..n : longer[k] = nodes[k]
  BY <1>1
<1>5. j \notin Range(nodes)
  BY Zenon DEF IInv, addNode
<1>6. Distinct(longer)
  <2>1. \A k \in 1..n : nodes[k] # j
    BY <1>1, <1>5 DEF Range
  <2> QED BY <1>1, <1>4, <2>1 DEF Distinct, IInv
<1>7. Range(longer) = Range(nodes) \cup {j}
  <2>1. \A k \in 1..(n + 1) : longer[k] \in Range(nodes) \cup {j}
    BY <1>1, <1>4 DEF Range
  <2>2. \A k \in 1..n : nodes[k] \in Range(longer)
    BY <1>1, <1>4 DEF Range
  <2>3. j \in Range(longer)
    BY <1>1, <1>4 DEF Range
  <2>4. DOMAIN longer = 1..(n + 1) /\ DOMAIN nodes = 1..n
    BY <1>1, <1>4
  <2> HIDE DEF longer, n
  <2>5. ASSUME NEW x PROVE x \in Range(longer) <=> x \in Range(nodes) \cup {j}
    <3>1. CASE x \in Range(longer)
      BY <2>1, <2>4, <3>1, Zenon DEF Range
    <3>2. CASE x \in Range(nodes)
      BY <2>2, <2>4, <3>2, Zenon DEF Range
    <3> QED BY <2>3, <3>1, <3>2, Zenon
  <2> QED BY <2>5, Zenon
<1> HIDE DEF longer, n
<1>8. /\ nodes' \in Seq(Member) /\ Len(nodes') = n + 1 /\ Range(nodes') = Range(longer)
      /\ Distinct(nodes')
      /\ at(nodes', n) = at(longer, idx) /\ at(nodes', idx) = at(longer, n)
      /\ \A m \in 0..n : m # idx /\ m # n => at(nodes', m) = at(longer, m)
  <2>1. idx \in 0..(Len(longer) - 1) /\ n \in 0..(Len(longer) - 1)
    BY <1>1, <1>3, <1>4
  <2>2. \A m \in 0..(Len(longer) - 1) : m # idx /\ m # n => at(nodes', m) = at(longer, m)
    BY <1>2, <1>4, <1>6, <2>1, SwapKeeps, Zenon
  <2>3. /\ nodes' \in Seq(Member) /\ Len(nodes') = Len(longer) /\ Range(nodes') = Range(longer)
        /\ Distinct(nodes')
        /\ at(nodes', n) = at(longer, idx) /\ at(nodes', idx) = at(longer, n)
    BY <1>2, <1>4, <1>6, <2>1, SwapKeeps, Zenon
  <2> QED BY <1>1, <1>4, <2>2, <2>3
<1>9. state' \in [Member -> State] /\ state'[j] = "active"
      /\ \A i \in Member : i # j => state'[i] = state[i]
  BY <1>1, Zenon DEF IInv, addNode, State
<1>10. Range(nodes') = {i \in Member : state'[i] # "none"}
  BY <1>1, <1>7, <1>8, <1>9, Zenon DEF IInv, addNode
<1>11. owed' = owed /\ j \notin owed /\ owed' \subseteq Active'
  BY <1>9, Zenon DEF IInv, addNode, Active, Member
<1>12. ASSUME NEW k \in 0..n, at(nodes', k) \in owed PROVE k > probeIdx
  <2>1. \A m \in 0..(n - 1) : at(longer, m) = at(nodes, m)
    BY <1>1, <1>4 DEF at
  <2>2. at(longer, n) = j
    BY <1>4, Zenon DEF at
  <2>3. \A m \in 0..(n - 1) : at(nodes, m) \in owed => m > probeIdx
    BY Zenon DEF IInv, n
  <2>4. probeIdx \in Int
    BY Zenon DEF IInv
  <2>5. CASE k # idx /\ k # n
    BY <1>1, <1>8, <1>12, <2>1, <2>3, <2>5
  <2>6. CASE k = idx /\ k # n
    BY <1>8, <1>11, <1>12, <2>2, <2>6, Zenon
  <2>7. CASE k = n
    BY <1>1, <1>3, <1>8, <1>11, <1>12, <2>1, <2>2, <2>3, <2>4, <2>7
  <2> QED BY <2>5, <2>6, <2>7, Zenon
<1>13. numNodes' = Len(nodes') /\ probeIdx' = probeIdx
  BY <1>1, <1>8, Zenon DEF IInv, addNode, n
<1>14. \A k \in 0..(Len(nodes') - 1) : at(nodes', k) \in owed' => k > probeIdx'
  BY <1>1, <1>8, <1>11, <1>12, <1>13
<1> QED BY <1>8, <1>9, <1>10, <1>11, <1>13, <1>14, Zenon DEF IInv, Distinct, at

\* The loop of nextProbeNode stops exactly at the active peers, and each of them has
\* a place in the list.
LEMMA StopsAtActive ==
  ASSUME IInv
  PROVE  /\ \A k \in 0..(Len(nodes) - 1) : ~skipped(k) <=> at(nodes, k) \in Active
         /\ \A j \in Active : \E k \in 0..(Len(nodes) - 1) : at(nodes, k) = j
<1>1. nodes \in Seq(Member) /\ state \in [Member -> State]
      /\ Range(nodes) = {j \in Member : state[j] # "none"}
  BY Zenon DEF IInv
<1>2. ASSUME NEW k \in 0..(Len(nodes) - 1)
      PROVE  ~skipped(k) <=> at(nodes, k) \in Active
  <2>1. at(nodes, k) \in Range(nodes)
    BY <1>1 DEF at, Range
  <2> QED BY <1>1, <2>1, PeerAssumption, Zenon DEF skipped, DeadOrLeft, Active, Member, State
<1>3. ASSUME NEW j \in Active PROVE \E k \in 0..(Len(nodes) - 1) : at(nodes, k) = j
  <2>1. j \in Range(nodes)
    BY <1>1, Zenon DEF Active, Member
  <2>2. PICK a \in 1..Len(nodes) : nodes[a] = j
    BY <1>1, <2>1 DEF Range
  <2>3. a - 1 \in 0..(Len(nodes) - 1) /\ at(nodes, a - 1) = j
    BY <1>1, <2>2 DEF at
  <2> QED BY <2>3, Zenon
<1> QED BY <1>2, <1>3, Zenon

\* A probe goes to an active peer; a new round begins only when nobody is owed a
\* probe in the old one, and there is an error only if nobody is active.
ProbeStep ==
  \/ \E j \in Active : target' = j /\ owed' = owed \ {j}
  \/ owed = {} /\ \E j \in Active : target' = j /\ owed' = Active \ {j}
  \/ Active = {} /\ owed = {} /\ target' = NoNode /\ owed' = {}

\* nextProbeNode makes such a step and leaves those who are owed a probe ahead of
\* the new probeIdx.
LEMMA NextProbeKeeps ==
  ASSUME IInv, nextProbeNode
  PROVE  IInv' /\ ProbeStep
<1> DEFINE n == Len(nodes)
           ahead == nextIdx(probeIdx + 1)
           again == nextIdx(0)
           found == IF ahead < n THEN ahead ELSE again
<1>1. nodes \in Seq(Member) /\ n \in Nat /\ probeIdx \in Int /\ probeIdx + 1 \in Nat
  BY DEF IInv
<1>2. /\ ahead \in Nat /\ ahead <= n
      /\ ahead < n => ahead >= probeIdx + 1 /\ at(nodes, ahead) \in Active
      /\ \A k \in (probeIdx + 1)..(n - 1) : k < ahead => at(nodes, k) \notin Active
  <2>1. /\ ahead \in Nat /\ ahead <= n
        /\ ahead < n => ahead >= probeIdx + 1 /\ ~skipped(ahead)
        /\ \A k \in (probeIdx + 1)..(n - 1) : k < ahead => skipped(k)
    BY <1>1, NextIdxIs, Zenon
  <2>2. \A k \in 0..(n - 1) : ~skipped(k) <=> at(nodes, k) \in Active
    BY StopsAtActive, Zenon
  <2> HIDE DEF ahead, n
  <2> QED BY <1>1, <2>1, <2>2
<1>3. /\ again \in Nat /\ again <= n
      /\ again < n => at(nodes, again) \in Active
      /\ \A k \in 0..(n - 1) : k < again => at(nodes, k) \notin Active
  BY <1>1, NextIdxIs, StopsAtActive
<1>4. /\ UNCHANGED <<nodes, state, numNodes>> /\ probeIdx' = found
      /\ target' = IF found < n THEN at(nodes, found) ELSE NoNode
      /\ owed' = (IF ahead < n THEN owed ELSE Active) \ {target'}
  BY Zenon DEF nextProbeNode
<1> HIDE DEF ahead, again, n
<1>5. Active' = Active /\ Distinct(nodes)' /\ Active \subseteq Peer
  BY <1>4, Zenon DEF Active, Distinct, IInv
<1>6. \A a, b \in 0..(n - 1) : at(nodes, a) = at(nodes, b) => a = b
  BY <1>1 DEF IInv, Distinct, at, n
<1>7. owed \subseteq Active /\ \A k \in 0..(n - 1) : at(nodes, k) \in owed => k > probeIdx
  BY Zenon DEF IInv, n
<1>8. /\ owed' \subseteq Active
      /\ \A k \in 0..(n - 1) : at(nodes, k) \in owed' => k > found
      /\ found \in Nat
      /\ ProbeStep
  <2>1. CASE ahead < n
    <3>1. found = ahead /\ target' = at(nodes, ahead) /\ owed' = owed \ {at(nodes, ahead)}
      BY <1>4, <2>1, Zenon
    <3>2. ASSUME NEW k \in 0..(n - 1), at(nodes, k) \in owed' PROVE k > ahead
      <4>1. k > probeIdx /\ at(nodes, k) \in Active /\ k # ahead
        BY <1>7, <3>1, <3>2, Zenon
      <4>2. ~ (k < ahead)
        BY <1>1, <1>2, <4>1
      <4> QED BY <1>1, <1>2, <4>1, <4>2
    <3>3. ProbeStep
      BY <1>2, <2>1, <3>1, Zenon DEF ProbeStep
    <3> QED BY <1>2, <1>7, <3>1, <3>2, <3>3, Zenon
  <2>2. CASE ~ (ahead < n)
    <3>1. found = again /\ owed' = Active \ {target'}
      BY <1>4, <2>2, Zenon
    <3>2. owed = {}
      <4> SUFFICES ASSUME NEW j \in owed PROVE FALSE
        BY Zenon
      <4>1. PICK k \in 0..(n - 1) : at(nodes, k) = j
        BY <1>7, StopsAtActive, Zenon DEF n
      <4>2. k \in (probeIdx + 1)..(n - 1) /\ at(nodes, k) \in Active
        BY <1>1, <1>7, <4>1
      <4> QED BY <1>2, <2>2, <4>2, <1>1
    <3>3. CASE again < n
      <4>1. target' = at(nodes, again)
        BY <1>4, <3>1, <3>3, Zenon
      <4>2. ASSUME NEW k \in 0..(n - 1), at(nodes, k) \in owed' PROVE k > again
        <5>1. k # again /\ ~ (k < again)
          BY <1>3, <3>1, <4>1, <4>2, Zenon
        <5> QED BY <1>1, <1>3, <5>1
      <4>3. ProbeStep
        BY <1>3, <3>1, <3>2, <3>3, <4>1, Zenon DEF ProbeStep
      <4> QED BY <1>3, <3>1, <4>2, <4>3, Zenon
    <3>4. CASE ~ (again < n)
      <4>1. target' = NoNode
        BY <1>4, <3>1, <3>4, Zenon
      <4>2. Active = {}
        <5> SUFFICES ASSUME NEW j \in Active PROVE FALSE
          BY Zenon
        <5>1. PICK k \in 0..(n - 1) : at(nodes, k) = j
          BY StopsAtActive, Zenon DEF n
        <5> QED BY <1>1, <1>3, <3>4, <5>1
      <4>3. ProbeStep
        BY <3>1, <3>2, <4>1, <4>2, Zenon DEF ProbeStep
      <4> QED BY <1>3, <3>1, <4>2, <4>3, Zenon
    <3> QED BY <3>3, <3>4, Zenon
  <2> QED BY <2>1, <2>2, Zenon
<1>9. IInv'
  <2>1. probeIdx' \in Int /\ probeIdx' >= -1
    BY <1>4, <1>8
  <2>2. owed' \subseteq Active'
    BY <1>5, <1>8, Zenon
  <2>3. \A k \in 0..(Len(nodes') - 1) : at(nodes', k) \in owed' => k > probeIdx'
    BY <1>4, <1>8, Zenon DEF n
  <2> QED BY <1>4, <1>5, <2>1, <2>2, <2>3 DEF IInv, Range, at
<1> QED BY <1>8, <1>9, Zenon

\* A list without repetition is not longer than there are members, so that Shuffle
\* knows its orders.
LEMMA ListFits ==
  ASSUME NEW list \in Seq(Member), Distinct(list)
  PROVE  Len(list) \in 0..Cardinality(Member)
<1>1. IsFiniteSet(Member) /\ Cardinality(Member) \in Nat
  <2>1. IsFiniteSet(Peer \cup {Self})
    BY PeerAssumption, FS_AddElement, Zenon
  <2> QED BY <2>1, FS_CardinalityType, Zenon DEF Member
<1>2. Range(list) \in SUBSET Member
  BY DEF Range
<1>3. Cardinality(Range(list)) <= Cardinality(Member)
  BY <1>1, <1>2, FS_Subset, Zenon
<1> QED BY <1>1, <1>3, DistinctCounts

\* A shuffled list has the same nodes, each once.
LEMMA ShuffleKeeps ==
  ASSUME NEW list \in Seq(Member), Distinct(list), NEW p \in Shuffle[Len(list)]
  PROVE  LET new == [k \in DOMAIN p |-> list[p[k]]]
         IN  new \in Seq(Member) /\ Len(new) = Len(list) /\ Range(new) = Range(list)
             /\ Distinct(new)
<1> DEFINE n == Len(list)
           new == [k \in DOMAIN p |-> list[p[k]]]
<1>1. n \in Nat /\ list \in [1..n -> Member]
  OBVIOUS
<1>2. p \in [1..n -> 1..n] /\ Range(p) = 1..n
  BY ListFits, Zenon DEF Shuffle
<1>3. new \in [1..n -> Member] /\ \A k \in 1..n : new[k] = list[p[k]]
  BY <1>1, <1>2, Zenon
<1>4. new \in Seq(Member) /\ Len(new) = n
  BY <1>1, <1>3
<1> HIDE DEF new, n
<1>5. Range(new) = Range(list)
  <2>1. ASSUME NEW k \in 1..n PROVE new[k] \in Range(list)
    BY <1>1, <1>2, <1>3, Zenon DEF Range
  <2>2. ASSUME NEW k \in 1..n PROVE list[k] \in Range(new)
    <3>1. PICK m \in 1..n : p[m] = k
      BY <1>2, Zenon DEF Range
    <3> QED BY <1>3, <3>1, Zenon DEF Range
  <2> QED BY <1>1, <1>3, <2>1, <2>2 DEF Range
<1>6. Distinct(new)
  BY <1>4, <1>5, DistinctCounts, Zenon DEF n
<1> QED BY <1>4, <1>5, <1>6, Zenon DEF new, n

\* reap forgets exactly the expired nodes and keeps all others in the list, each once.
ReapStep ==
  /\ \A j \in Member : state'[j] = IF state[j] = "expired" THEN "none" ELSE state[j]
  /\ owed' = {} /\ target' = target

\* Nothing is owed after reap, and the list matches the map it leaves.
LEMMA ReapKeeps ==
  ASSUME IInv, reap
  PROVE  IInv' /\ ReapStep
<1> DEFINE n == Len(nodes)
           moved == swapExpiredToEnd(nodes)
           list == moved.list
           e == moved.expiredIdx
           kept == SubSeq(list, 1, e)
           gone == Range(expiredPart(moved))
<1>1. nodes \in Seq(Member) /\ Distinct(nodes) /\ n \in Nat /\ state \in [Member -> State]
      /\ Range(nodes) = {j \in Member : state[j] # "none"}
  BY DEF IInv
<1>2. /\ list \in Seq(Member) /\ Len(list) = n /\ Range(list) = Range(nodes)
      /\ Distinct(list) /\ e \in 0..n
      /\ \A m \in 0..(n - 1) : state[at(list, m)] = "expired" <=> m >= e
  BY <1>1, ExpiredAtEnd, Zenon
<1>3. /\ state' = [j \in Member |-> IF j \in gone THEN "none" ELSE state[j]]
      /\ numNodes' = e /\ owed' = {} /\ UNCHANGED <<probeIdx, target>>
      /\ \E p \in Shuffle[Len(kept)] : nodes' = [k \in DOMAIN p |-> kept[p[k]]]
  BY Zenon DEF reap
<1>4. gone = Range(SubSeq(list, e + 1, n))
  BY <1>2, Zenon DEF expiredPart
<1> HIDE DEF n, moved, list, e
<1>5. \A a \in 1..n : state[list[a]] = "expired" <=> a > e
  <2>1. ASSUME NEW a \in 1..n PROVE state[list[a]] = "expired" <=> a > e
    <3>1. a - 1 \in 0..(n - 1) /\ at(list, a - 1) = list[a]
      BY <1>1 DEF at
    <3> QED BY <1>1, <1>2, <3>1
  <2> QED BY <2>1, Zenon
<1>6. /\ SubSeq(list, e + 1, n) \in Seq(Member) /\ Len(SubSeq(list, e + 1, n)) = n - e
      /\ \A a \in 1..(n - e) : SubSeq(list, e + 1, n)[a] = list[e + a]
  BY <1>1, <1>2
<1>7. kept \in Seq(Member) /\ Len(kept) = e /\ \A a \in 1..e : kept[a] = list[a]
  BY <1>1, <1>2
<1> HIDE DEF kept, gone
<1>8. \A j \in Member : j \in gone <=> state[j] = "expired"
  <2>1. ASSUME NEW j \in gone PROVE state[j] = "expired"
    <3>1. PICK a \in 1..(n - e) : j = list[e + a]
      BY <1>4, <1>6 DEF Range
    <3> QED BY <1>1, <1>2, <1>5, <3>1
  <2>2. ASSUME NEW j \in Member, state[j] = "expired" PROVE j \in gone
    <3>1. j \in Range(list)
      BY <1>1, <1>2, <2>2, Zenon
    <3>2. PICK a \in 1..n : list[a] = j
      BY <1>2, <3>1 DEF Range
    <3>3. a - e \in 1..(n - e) /\ e + (a - e) = a
      BY <1>1, <1>2, <1>5, <2>2, <3>2
    <3>4. SubSeq(list, e + 1, n)[a - e] = j
      BY <1>6, <3>2, <3>3, Zenon
    <3> QED BY <1>4, <1>6, <3>3, <3>4 DEF Range
  <2> QED BY <2>1, <2>2, Zenon
<1>9. Distinct(kept)
  BY <1>1, <1>2, <1>7 DEF Distinct
<1>10. Range(kept) = {j \in Member : state[j] # "none" /\ state[j] # "expired"}
  <2>1. ASSUME NEW j \in Range(kept)
        PROVE  j \in Member /\ state[j] # "none" /\ state[j] # "expired"
    <3>1. PICK a \in 1..e : j = list[a]
      BY <1>7 DEF Range
    <3>2. a \in 1..n /\ ~ (a > e)
      BY <1>1, <1>2
    <3>3. list[a] \in Range(list)
      BY <1>2, <3>2 DEF Range
    <3> QED BY <1>1, <1>2, <1>5, <3>1, <3>2, <3>3, Zenon
  <2>2. ASSUME NEW j \in Member, state[j] # "none", state[j] # "expired"
        PROVE  j \in Range(kept)
    <3>1. j \in Range(list)
      BY <1>1, <1>2, <2>2, Zenon
    <3>2. PICK a \in 1..n : list[a] = j
      BY <1>2, <3>1 DEF Range
    <3>3. a \in 1..e
      BY <1>1, <1>2, <1>5, <2>2, <3>2
    <3> QED BY <1>7, <3>2, <3>3 DEF Range
  <2> QED BY <2>1, <2>2, Zenon
<1>11. PICK p \in Shuffle[Len(kept)] : nodes' = [k \in DOMAIN p |-> kept[p[k]]]
  BY <1>3, Zenon
<1>12. nodes' \in Seq(Member) /\ Len(nodes') = e /\ Range(nodes') = Range(kept)
       /\ Distinct(nodes')
  BY <1>7, <1>9, <1>11, ShuffleKeeps, Zenon
<1>13. ReapStep
  BY <1>3, <1>8, Zenon DEF ReapStep
<1>14. state' \in [Member -> State] /\ Range(nodes') = {j \in Member : state'[j] # "none"}
  BY <1>1, <1>3, <1>8, <1>10, <1>12, Zenon DEF State
<1>15. IInv'
  BY <1>3, <1>12, <1>14, Zenon DEF IInv, Distinct
<1> QED BY <1>13, <1>15, Zenon

\* aliveNode of a known node, deadNode and the passing of time.
LEMMA ChangeKeeps ==
  ASSUME IInv
  PROVE  /\ \A j \in Peer : renewNode(j) => IInv'
         /\ \A j \in Member : deadNode(j) \/ expire(j) => IInv'
<1>1. ASSUME NEW j \in Peer, renewNode(j) PROVE IInv'
  <2>1. j \in Member /\ state[j] # "none" /\ "active" \in State \ {"none"}
        /\ state' = [state EXCEPT ![j] = "active"]
        /\ UNCHANGED <<nodes, numNodes, probeIdx>> /\ owed' \subseteq owed
    BY <1>1, Zenon DEF renewNode, Member, State
  <2> QED BY <2>1, StateKeeps, Zenon
<1>2. ASSUME NEW j \in Member, deadNode(j) PROVE IInv'
  <2>1. state[j] # "none" /\ "dead" \in State \ {"none"}
        /\ state' = [state EXCEPT ![j] = "dead"]
        /\ UNCHANGED <<nodes, numNodes, probeIdx>> /\ owed' \subseteq owed /\ j \notin owed'
    BY <1>2, Zenon DEF deadNode, State
  <2> QED BY <2>1, StateKeeps, Zenon
<1>3. ASSUME NEW j \in Member, expire(j) PROVE IInv'
  <2>1. state[j] # "none" /\ "expired" \in State \ {"none"}
        /\ state' = [state EXCEPT ![j] = "expired"]
        /\ UNCHANGED <<nodes, numNodes, probeIdx>> /\ owed' \subseteq owed
    BY <1>3, Zenon DEF expire, State
  <2>2. j \notin owed'
    BY <1>3, Zenon DEF expire, IInv, Active
  <2> QED BY <2>1, <2>2, StateKeeps, Zenon
<1> QED BY <1>1, <1>2, <1>3, Zenon

\* Every step keeps the invariant.
LEMMA StepKeeps == IInv /\ [Next]_vars => IInv'
<1> SUFFICES ASSUME IInv, [Next]_vars PROVE IInv'
  BY Zenon
<1>1. ASSUME NEW j \in Peer, addNode(j) PROVE IInv'
  BY <1>1, AddKeeps, Zenon
<1>2. ASSUME NEW j \in Peer, renewNode(j) PROVE IInv'
  BY <1>2, ChangeKeeps, Zenon
<1>3. ASSUME NEW j \in Member, deadNode(j) \/ expire(j) PROVE IInv'
  BY <1>3, ChangeKeeps, Zenon
<1>4. CASE nextProbeNode
  BY <1>4, NextProbeKeeps, Zenon
<1>5. CASE reap
  BY <1>5, ReapKeeps, Zenon
<1>6. CASE UNCHANGED vars
  BY <1>6 DEF vars, IInv, Distinct, Active, at, Range
<1> QED BY <1>1, <1>2, <1>3, <1>4, <1>5, <1>6, Zenon DEF Next

\* The invariant holds throughout.
LEMMA ListInvariant == Spec => []IInv
BY InitHolds, StepKeeps, PTL DEF Spec

\* The list of nodes, nodeMap and numNodes describe the same nodes, each once,
\* through the swaps of aliveNode and of swapExpiredToEnd, the cut and the shuffle
\* of reap, for every number of nodes.
THEOREM ListStaysInStep == Spec => []ListMatchesMap
<1>1. IInv => ListMatchesMap
  <2> SUFFICES ASSUME IInv PROVE ListMatchesMap
    BY Zenon
  <2>1. nodes \in Seq(Member) /\ Distinct(nodes)
    BY Zenon DEF IInv
  <2>2. Len(nodes) = Cardinality(Range(nodes))
    BY <2>1, DistinctCounts, Zenon
  <2> QED BY <2>2, Zenon DEF IInv, ListMatchesMap
<1> QED BY <1>1, ListInvariant, PTL

-----------------------------------------------------------------------------
(* Rounds.                                                                 *)

Known == {j \in Peer : state[j] # "none"}
Expired == {j \in Peer : state[j] = "expired"}

\* The members of a round are the peers in the map.
LEMMA KnownInList == IInv => Range(nodes) \ {Self} = Known
BY PeerAssumption, Zenon DEF IInv, Known, Member

\* What each step does to the rounds.
LEMMA StepsMap ==
  ASSUME IInv, IInv', [Next]_vars
  PROVE  [Rounds!Next]_(Rounds!vars)
<1> USE DEF Rounds!vars
<1>1. /\ Range(nodes) \ {Self} = Known /\ (Range(nodes) \ {Self})' = Known'
      /\ state \in [Member -> State] /\ owed \subseteq Active /\ Peer \subseteq Member
      /\ Self \notin Peer
  BY KnownInList, PeerAssumption, Zenon DEF IInv, Member, Known
<1>2. ASSUME NEW j \in Peer, addNode(j) \/ renewNode(j) PROVE Rounds!Activate(j)
  <2>1. state[j] # "active" /\ state' = [state EXCEPT ![j] = "active"]
        /\ UNCHANGED <<owed, target>>
    BY <1>2, Zenon DEF addNode, renewNode
  <2>2. j \notin Active /\ Known' = Known \cup {j} /\ Active' = Active \cup {j}
        /\ Expired' = Expired \ {j}
    BY <1>1, <2>1, Zenon DEF Known, Active, Expired
  <2> QED BY <1>1, <2>1, <2>2, Zenon DEF Rounds!Activate, Expired
<1>3. ASSUME NEW j \in Peer, deadNode(j) PROVE Rounds!Deactivate(j)
  <2>1. state[j] = "active" /\ state' = [state EXCEPT ![j] = "dead"]
        /\ owed' = owed \ {j} /\ UNCHANGED target
    BY <1>3, Zenon DEF deadNode
  <2>2. j \in Active /\ Known' = Known /\ Active' = Active \ {j} /\ Expired' = Expired
    BY <1>1, <2>1, Zenon DEF Known, Active, Expired
  <2> QED BY <1>1, <2>1, <2>2, Zenon DEF Rounds!Deactivate, Expired
<1>4. ASSUME NEW j \in Peer, expire(j) PROVE Rounds!Expire(j)
  <2>1. state[j] = "dead" /\ state' = [state EXCEPT ![j] = "expired"]
        /\ UNCHANGED <<owed, target>>
    BY <1>4, Zenon DEF expire
  <2>2. j \in Known \ Active /\ Known' = Known /\ Active' = Active
        /\ Expired' = Expired \cup {j}
    BY <1>1, <2>1, Zenon DEF Known, Active, Expired
  <2> QED BY <1>1, <2>1, <2>2, Zenon DEF Rounds!Expire, Expired
<1>5. ASSUME deadNode(Self) \/ expire(Self) PROVE UNCHANGED Rounds!vars
  <2>1. (\A j \in Peer : state'[j] = state[j]) /\ UNCHANGED target
        /\ (owed' = owed \/ owed' = owed \ {Self})
    BY <1>1, <1>5, Zenon DEF deadNode, expire, Member
  <2>2. Self \notin owed
    BY <1>1, Zenon DEF Active
  <2>3. Known' = Known /\ Active' = Active /\ Expired' = Expired
    BY <2>1, Zenon DEF Known, Active, Expired
  <2> QED BY <1>1, <2>1, <2>2, <2>3, Zenon DEF Expired
<1>6. ASSUME nextProbeNode
      PROVE  (\E j \in Peer : Rounds!Probe(j) \/ Rounds!NextRound(j)) \/ Rounds!NoProbe
  <2>1. UNCHANGED <<nodes, state>> /\ ProbeStep
    BY <1>6, NextProbeKeeps, Zenon DEF nextProbeNode
  <2>2. Known' = Known /\ Active' = Active /\ Expired' = Expired
    BY <2>1, Zenon DEF Known, Active, Expired
  <2>3. Active \subseteq Peer
    BY Zenon DEF Active
  <2>4. CASE \E j \in Active : target' = j /\ owed' = owed \ {j}
    BY <1>1, <2>2, <2>3, <2>4, Zenon DEF Rounds!Probe, Expired
  <2>5. CASE owed = {} /\ \E j \in Active : target' = j /\ owed' = Active \ {j}
    BY <1>1, <2>2, <2>3, <2>5, Zenon DEF Rounds!NextRound, Expired
  <2>6. CASE Active = {} /\ owed = {} /\ target' = NoNode /\ owed' = {}
    BY <1>1, <2>2, <2>6, Zenon DEF Rounds!NoProbe, Expired
  <2> QED BY <2>1, <2>4, <2>5, <2>6, Zenon DEF ProbeStep
<1>7. ASSUME reap PROVE Rounds!Forget
  <2>1. ReapStep
    BY <1>7, ReapKeeps, Zenon
  <2>2. Known' = Known \ Expired /\ Active' = Active /\ Expired' = {}
    BY <1>1, <2>1, Zenon DEF ReapStep, Known, Active, Expired
  <2> QED BY <1>1, <2>1, <2>2, Zenon DEF ReapStep, Rounds!Forget, Expired
<1>8. ASSUME UNCHANGED vars PROVE UNCHANGED Rounds!vars
  BY <1>8, Zenon DEF vars, Active, Range
<1>9. Member = Peer \cup {Self}
  BY Zenon DEF Member
<1> HIDE DEF Rounds!vars
<1> QED BY <1>2, <1>3, <1>4, <1>5, <1>6, <1>7, <1>8, <1>9, Zenon DEF Next, Rounds!Next

\* Round robin: whatever joins, dies, comes back, expires or is reaped between two
\* probes, nextProbeNode passes over nobody who is active throughout a round, only
\* reap cuts a round short, and an error means that there is nobody to probe.
THEOREM ProbingGoesInRounds == Spec => RoundsImplemented
<1>1. Init => Rounds!Init
  <2> SUFFICES ASSUME Init PROVE Rounds!Init
    BY Zenon
  <2>1. Range(nodes) \subseteq {Self}
    BY DEF Init, Range
  <2>2. \A j \in Peer : state[j] = "none"
    BY <2>1, PeerAssumption, Zenon DEF Init, Member
  <2> QED BY <2>1, <2>2, Zenon DEF Init, Rounds!Init, Active
<1>2. IInv /\ IInv' /\ [Next]_vars => [Rounds!Next]_(Rounds!vars)
  BY StepsMap, Zenon
<1> QED BY <1>1, <1>2, ListInvariant, PTL DEF Spec, RoundsImplemented, Rounds!Spec
=============================================================================
