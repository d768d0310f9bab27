------------------------- MODULE ReadyChannelsProofs -------------------------
(***************************************************************************)
(* ReadyChannels for any addresses, any length of the list and any range   *)
(* of the index: the round-robin is fair between changes of the list, and  *)
(* the list implements ChannelBag, operation by operation.                 *)
(***************************************************************************)
EXTENDS ReadyChannels, FiniteSetTheorems, SequenceTheorems, TLAPS

-----------------------------------------------------------------------------
(* The index modulo the length of the list.                                *)

\* A remainder is less than the divisor ...
LEMMA ModRange ==
  ASSUME NEW x \in Nat, NEW n \in Nat \ {0}
  PROVE  x % n \in 0 .. n - 1
OBVIOUS

\* ... and is what is left over.
LEMMA ModIs ==
  ASSUME NEW q \in Nat, NEW n \in Nat \ {0}, NEW r \in 0 .. n - 1
  PROVE  (n * q + r) % n = r
OBVIOUS

\* The next index is the next position, or the first one after the last.
LEMMA ModNext ==
  ASSUME NEW x \in Nat, NEW n \in Nat \ {0}
  PROVE  (x + 1) % n = IF (x % n) + 1 = n THEN 0 ELSE (x % n) + 1
<1> DEFINE q == x \div n
           r == x % n
<1>1. x = n * q + r /\ q \in Nat /\ r \in 0 .. n - 1
  OBVIOUS
<1> HIDE DEF q, r
<1>2. CASE r + 1 = n
  <2>1. x + 1 = n * (q + 1) + 0
    BY <1>1, <1>2
  <2>2. (n * (q + 1) + 0) % n = 0
    BY <1>1, ModIs
  <2> QED
    BY <1>2, <2>1, <2>2 DEF r
<1>3. CASE r + 1 # n
  <2>1. x + 1 = n * q + (r + 1) /\ r + 1 \in 0 .. n - 1
    BY <1>1, <1>3
  <2>2. (n * q + (r + 1)) % n = r + 1
    BY <1>1, <2>1, ModIs
  <2> QED
    BY <1>3, <2>1, <2>2 DEF r
<1> QED
  BY <1>2, <1>3

\* An index within the list is its own position.
LEMMA ModSmall ==
  ASSUME NEW n \in Nat \ {0}, NEW x \in 0 .. n - 1
  PROVE  x % n = x
OBVIOUS

\* The index after the last position is the first.
LEMMA ModSelf ==
  ASSUME NEW n \in Nat \ {0}
  PROVE  n % n = 0
OBVIOUS

-----------------------------------------------------------------------------
(* The list.                                                               *)

\* A DNS answer names each address once at most.
LEMMA AnswersAre ==
  ASSUME NEW new \in Answers
  PROVE  /\ new \in Seq(Addr)
         /\ \A i, j \in 1 .. Len(new) : new[i] = new[j] => i = j
<1>1. PICK S \in SUBSET Addr : new \in SetToSeqs(S)
  BY DEF Answers, SetToAllKPermutations
<1>2. Cardinality(S) \in Nat
  BY <1>1, AddrAssumption, FS_Subset, FS_CardinalityType
<1>3. /\ new \in [1 .. Cardinality(S) -> S]
      /\ \A i, j \in 1 .. Cardinality(S) : i # j => new[i] # new[j]
  BY <1>1 DEF SetToSeqs
<1>4. new \in Seq(Addr) /\ Len(new) = Cardinality(S)
  BY <1>2, <1>3
<1> QED
  BY <1>3, <1>4

\* swap_remove puts the last element in the place of the removed one.
LEMMA SwapRemove ==
  ASSUME NEW s \in Seq(Addr), NEW k \in 1 .. Len(s)
  PROVE  /\ swap_remove(s, k) \in Seq(Addr)
         /\ Len(swap_remove(s, k)) = Len(s) - 1
         /\ \A i \in 1 .. Len(s) - 1 : swap_remove(s, k)[i] = IF i = k THEN s[Len(s)] ELSE s[i]
<1> DEFINE t == [s EXCEPT ![k] = s[Len(s)]]
<1>1. t \in Seq(Addr) /\ Len(t) = Len(s) /\ \A i \in 1 .. Len(s) : t[i] = IF i = k THEN s[Len(s)] ELSE s[i]
  BY ExceptSeq
<1>2. swap_remove(s, k) = SubSeq(t, 1, Len(t) - 1)
  BY DEF swap_remove, Front, Last
<1> HIDE DEF t
<1> QED
  BY <1>1, <1>2

\* A set of numbers that is not empty has a least one.
LEMMA LeastOf ==
  ASSUME NEW T, T \subseteq Nat, T # {}
  PROVE  \E i \in T : \A j \in T : i <= j
<1>1. \E R : IsWellFoundedOn(R, Nat) /\ \A i, j \in Nat : i < j => <<i, j>> \in R
  <2>1. \A i, j \in Nat : i < j => <<i, j>> \in OpToRel(<, Nat)
    BY DEF OpToRel
  <2> QED
    BY <2>1, NatLessThanWellFounded, Zenon
<1>2. PICK R : IsWellFoundedOn(R, Nat) /\ \A i, j \in Nat : i < j => <<i, j>> \in R
  BY <1>1
<1>3. PICK i \in T : \A j \in T : ~(<<j, i>> \in R)
  <2>1. IsWellFoundedOn(R, Nat)
    BY <1>2
  <2> QED
    BY <2>1, WFMin, Zenon
<1>4. ASSUME NEW j \in T
      PROVE  i <= j
  <2>1. i \in Nat /\ j \in Nat /\ ~(j < i)
    BY <1>2, <1>3
  <2> QED
    BY <2>1
<1> QED
  BY <1>4

\* remove takes the first position of the address.
LEMMA FirstPosition ==
  ASSUME channels \in Seq(Addr), NEW a, Positions(a) # {}
  PROVE  /\ (CHOOSE i \in Positions(a) : \A j \in Positions(a) : i <= j) \in Positions(a)
         /\ (CHOOSE i \in Positions(a) : \A j \in Positions(a) : i <= j) \in 1 .. Len(channels)
<1>1. Positions(a) \subseteq Nat /\ Positions(a) \subseteq 1 .. Len(channels)
  BY DEF Positions
<1>2. PICK i \in Positions(a) : \A j \in Positions(a) : i <= j
  BY <1>1, LeastOf
<1> QED
  BY <1>1, <1>2

-----------------------------------------------------------------------------
(* The round-robin.                                                        *)

\* The position to be served next, counted from 0.
Pos == index % Len(channels)

\* How many positions were served since position k was, when the rounds are
\* complete: the next one, Pos + 1, is the one that waits longest.
Since(k) == IF k <= Pos THEN Pos - k ELSE Pos - k + Len(channels)

\* In the current round the last m positions before the next one were served,
\* each once.
Window ==
  channels # <<>> =>
    \E m \in 0 .. Len(channels) - 1 :
      served = [k \in 1 .. Len(channels) |-> IF Since(k) < m THEN 1 ELSE 0]

RoundInv == TypeOK /\ Window

\* At most all other positions were served since one was.
LEMMA SinceRange ==
  ASSUME NEW n \in Nat \ {0}, NEW p \in 0 .. n - 1, NEW k \in 1 .. n
  PROVE  (IF k <= p THEN p - k ELSE p - k + n) \in 0 .. n - 1
OBVIOUS

\* A list that was changed starts a round wherever the index is.
LEMMA RestartInv ==
  ASSUME channels' \in Seq(Addr), TypeOK, UNCHANGED <<index, last>>, Restart(channels')
  PROVE  RoundInv'
<1>1. Len(channels') \in Nat
  OBVIOUS
<1>2. served' = [k \in 1 .. Len(channels') |-> 0]
  BY DEF Restart
<1>3. TypeOK'
  BY <1>2 DEF TypeOK
<1>4. ASSUME channels' # <<>>
      PROVE  \E m \in 0 .. Len(channels') - 1 :
               served' = [k \in 1 .. Len(channels') |-> IF Since(k)' < m THEN 1 ELSE 0]
  <2>1. Len(channels') \in Nat \ {0} /\ index' \in Nat
    BY <1>4, IndexModAssumption DEF TypeOK
  <2>2. Pos' \in 0 .. Len(channels') - 1
    BY <2>1, ModRange DEF Pos
  <2>3. ASSUME NEW k \in 1 .. Len(channels')
        PROVE  ~(Since(k)' < 0)
    <3>1. Since(k)' = IF k <= Pos' THEN Pos' - k ELSE Pos' - k + Len(channels')
      BY DEF Since
    <3>2. Since(k)' \in 0 .. Len(channels') - 1
      BY <2>1, <2>2, <3>1, SinceRange
    <3> QED
      BY <2>1, <3>2
  <2>4. served' = [k \in 1 .. Len(channels') |-> IF Since(k)' < 0 THEN 1 ELSE 0]
    BY <1>2, <2>3
  <2>5. 0 \in 0 .. Len(channels') - 1
    BY <2>1
  <2> QED
    BY <2>4, <2>5
<1> QED
  BY <1>3, <1>4 DEF RoundInv, Window

\* fetch_add moves on to the next position, over the end of the list and over
\* the end of the atomic when the length divides its range.
LEMMA PosNext ==
  ASSUME RoundInv, channels # <<>>, UNCHANGED channels, index' = (index + 1) % IndexMod,
         ~WrapsMidRound
  PROVE  Pos' = IF Pos + 1 = Len(channels) THEN 0 ELSE Pos + 1
<1> DEFINE n == Len(channels)
<1>1. n \in Nat \ {0} /\ index \in Nat /\ index \in 0 .. IndexMod - 1 /\ IndexMod \in Nat \ {0}
  BY IndexModAssumption DEF RoundInv, TypeOK
<1> HIDE DEF n
<1>2. (index + 1) % n = IF (index % n) + 1 = n THEN 0 ELSE (index % n) + 1
  BY <1>1, ModNext
<1>3. (index' % n) = (index + 1) % n
  <2>1. CASE index = IndexMod - 1
    <3>1. index' = 0 /\ index + 1 = IndexMod
      BY <1>1, <2>1, ModSelf
    <3>2. IndexMod % n = 0
      BY <2>1 DEF WrapsMidRound, n
    <3>3. 0 % n = 0
      BY <1>1, ModSmall
    <3> QED
      BY <3>1, <3>2, <3>3
  <2>2. CASE index # IndexMod - 1
    <3>1. index + 1 \in 0 .. IndexMod - 1
      BY <1>1, <2>2
    <3>2. index' = index + 1
      BY <1>1, <3>1, ModSmall
    <3> QED
      BY <3>2
  <2> QED
    BY <2>1, <2>2
<1> QED
  BY <1>2, <1>3 DEF Pos, n

\* Serving the next position keeps the window one, or completes the round.
LEMMA ServeInv ==
  ASSUME RoundInv, channels # <<>>, UNCHANGED channels,
         Pos' = (IF Pos + 1 = Len(channels) THEN 0 ELSE Pos + 1), Serve(Pos + 1)
  PROVE  Window' /\ DOMAIN served' = 1 .. Len(channels)
<1> DEFINE n == Len(channels)
           i == Pos + 1
<1>1. n \in Nat \ {0} /\ Pos \in 0 .. n - 1 /\ i \in 1 .. n
  <2>1. n \in Nat \ {0} /\ index \in Nat
    BY IndexModAssumption DEF RoundInv, TypeOK
  <2>2. Pos \in 0 .. n - 1
    BY <2>1, ModRange DEF Pos
  <2> QED
    BY <2>1, <2>2
<1>2. PICK m \in 0 .. n - 1 : served = [k \in 1 .. n |-> IF Since(k) < m THEN 1 ELSE 0]
  BY DEF RoundInv, Window
<1>3. \A k \in 1 .. n : /\ Since(k) \in 0 .. n - 1
                        /\ Since(k)' = IF k = i THEN 0 ELSE Since(k) + 1
  BY <1>1 DEF Since
<1>4. Since(i) = n - 1
  BY <1>1 DEF Since
<1> DEFINE counts == [served EXCEPT ![i] = @ + 1]
<1>5. counts = [k \in 1 .. n |-> IF Since(k)' < m + 1 THEN 1 ELSE 0]
  <2>1. counts = [k \in 1 .. n |-> IF k = i THEN 1 ELSE IF Since(k) < m THEN 1 ELSE 0]
    <3>1. served[i] = 0
      BY <1>1, <1>2, <1>4
    <3>2. counts = [k \in 1 .. n |-> IF k = i THEN served[i] + 1 ELSE served[k]]
      BY <1>2
    <3>3. \A k \in 1 .. n : served[k] = IF Since(k) < m THEN 1 ELSE 0
      BY <1>2
    <3> QED
      BY <3>1, <3>2, <3>3
  <2>2. ASSUME NEW k \in 1 .. n
        PROVE  (IF k = i THEN 1 ELSE IF Since(k) < m THEN 1 ELSE 0) = (IF Since(k)' < m + 1 THEN 1 ELSE 0)
    BY <1>3
  <2> QED
    BY <2>1, <2>2
<1>6. served' = IF \A k \in DOMAIN counts : counts[k] > 0
                  THEN [k \in DOMAIN counts |-> counts[k] - 1]
                  ELSE counts
  BY DEF Serve
<1>7. DOMAIN counts = 1 .. n
  BY <1>5
<1> HIDE DEF counts
<1>8. CASE m + 1 = n
  <2>1. \A k \in 1 .. n : Since(k)' < m + 1
    BY <1>1, <1>3, <1>4, <1>8 DEF Since
  <2>2. \A k \in 1 .. n : counts[k] = 1
    BY <1>5, <2>1
  <2>3. served' = [k \in 1 .. n |-> counts[k] - 1]
    BY <1>6, <1>7, <2>2
  <2>4. \A k \in 1 .. n : ~(Since(k)' < 0)
    BY <1>3
  <2>5. served' = [k \in 1 .. n |-> IF Since(k)' < 0 THEN 1 ELSE 0]
    BY <2>2, <2>3, <2>4
  <2>6. 0 \in 0 .. n - 1
    BY <1>1
  <2> QED
    BY <2>5, <2>6 DEF Window
<1>9. CASE m + 1 # n
  <2>1. m + 1 \in 0 .. n - 1
    BY <1>1, <1>9
  <2>2. \E k \in 1 .. n : Since(k)' = n - 1
    <3>1. CASE Pos + 1 = n
      <4>1. 1 \in 1 .. n /\ Since(1)' = n - 1
        BY <1>1, <3>1 DEF Since
      <4> QED
        BY <4>1
    <3>2. CASE Pos + 1 # n
      <4>1. Pos + 2 \in 1 .. n /\ Since(Pos + 2) = n - 2 /\ Pos + 2 # i
        BY <1>1, <3>2 DEF Since
      <4>2. PICK k \in 1 .. n : k = Pos + 2
        BY <4>1
      <4>3. Since(k)' = Since(k) + 1
        BY <1>3, <4>1, <4>2
      <4> QED
        BY <1>1, <4>1, <4>2, <4>3
    <3> QED
      BY <3>1, <3>2
  <2>3. PICK k \in 1 .. n : Since(k)' = n - 1
    BY <2>2
  <2>4. counts[k] = 0
    BY <1>1, <1>5, <2>1, <2>3
  <2>5. served' = counts
    BY <1>6, <1>7, <2>4
  <2> QED
    BY <1>5, <1>7, <2>1, <2>5 DEF Window
<1> QED
  BY <1>8, <1>9

\* get_any on a list that is not empty.
LEMMA GetAnyInv ==
  ASSUME RoundInv, get_any
  PROVE  RoundInv'
<1> DEFINE n == Len(channels)
<1>1. /\ n \in Nat \ {0} /\ index \in Nat /\ IndexMod \in Nat \ {0}
      /\ channels \in Seq(Addr) /\ channels # <<>> /\ channels' = channels
      /\ index' = (index + 1) % IndexMod
  BY IndexModAssumption DEF RoundInv, TypeOK, get_any
<1>2. Pos \in 0 .. n - 1
  BY <1>1, ModRange DEF Pos
<1>3. index' \in 0 .. IndexMod - 1
  BY <1>1, ModRange
<1>4. last' \in Addr
  <2>1. last' = channels[Pos + 1] /\ Pos + 1 \in 1 .. n
    BY <1>2 DEF get_any, Pos
  <2> QED
    BY <1>1, <2>1
<1>5. Window' /\ DOMAIN served' = 1 .. n
  <2>1. CASE WrapsMidRound
    <3>1. index' = 0 /\ IndexMod % n # 0
      BY <1>1, <2>1, ModSelf DEF WrapsMidRound
    <3>2. Pos' = 0
      BY <1>1, <3>1, ModSmall DEF Pos
    <3>3. served' = [k \in 1 .. n |-> 0]
      BY <2>1 DEF get_any, Restart
    <3>4. \A k \in 1 .. n : ~(Since(k)' < 0)
      BY <1>1, <3>2 DEF Since
    <3>5. served' = [k \in 1 .. n |-> IF Since(k)' < 0 THEN 1 ELSE 0] /\ 0 \in 0 .. n - 1
      BY <1>1, <3>3, <3>4
    <3> QED
      BY <1>1, <3>3, <3>5 DEF Window
  <2>2. CASE ~WrapsMidRound
    <3>1. Pos' = IF Pos + 1 = n THEN 0 ELSE Pos + 1
      BY <1>1, <2>2, PosNext
    <3>2. Serve(Pos + 1)
      BY <2>2 DEF get_any, Pos
    <3> QED
      BY <1>1, <3>1, <3>2, ServeInv
  <2> QED
    BY <2>1, <2>2
<1> QED
  BY <1>1, <1>3, <1>4, <1>5 DEF RoundInv, TypeOK

\* An empty list has no round.
LEMMA RoundInit == Init => RoundInv
<1> SUFFICES ASSUME Init
             PROVE  RoundInv
  OBVIOUS
<1>1. channels = <<>> /\ served = <<>> /\ index = 0 /\ last = NoAddr
  BY DEF Init
<1>2. channels \in Seq(Addr) /\ Len(channels) = 0 /\ DOMAIN served = {} /\ 1 .. 0 = {}
  BY <1>1
<1> QED
  BY <1>1, <1>2, IndexModAssumption DEF RoundInv, TypeOK, Window

\* Every operation.
LEMMA RoundStep == RoundInv /\ [Next]_vars => RoundInv'
<1> SUFFICES ASSUME RoundInv, [Next]_vars
             PROVE  RoundInv'
  OBVIOUS
<1>0. TypeOK /\ channels \in Seq(Addr)
  BY DEF RoundInv, TypeOK
<1>1. ASSUME UNCHANGED <<channels, index, served>>, last' \in Addr \cup {NoAddr}
      PROVE  RoundInv'
  BY <1>1 DEF RoundInv, TypeOK, Window, Since, Pos
<1>2. CASE get_any
  BY <1>2, GetAnyInv
<1>3. CASE get_any_empty
  BY <1>1, <1>3 DEF get_any_empty
<1>4. ASSUME NEW a \in Addr, add(a)
      PROVE  RoundInv'
  BY <1>0, <1>4, RestartInv DEF add
<1>5. ASSUME NEW a \in Addr, remove(a)
      PROVE  RoundInv'
  <2>1. CASE Positions(a) = {}
    BY <1>0, <1>1, <1>5, <2>1 DEF remove, TypeOK
  <2>2. CASE Positions(a) # {}
    <3> DEFINE first == CHOOSE i \in Positions(a) : \A j \in Positions(a) : i <= j
    <3>1. first \in 1 .. Len(channels)
      BY <1>0, <2>2, FirstPosition
    <3>2. /\ channels' = swap_remove(channels, first) /\ Restart(channels')
          /\ UNCHANGED <<index, last>>
      BY <1>5, <2>2 DEF remove
    <3> HIDE DEF first
    <3>3. channels' \in Seq(Addr)
      BY <1>0, <3>1, <3>2, SwapRemove
    <3> QED
      BY <1>0, <3>2, <3>3, RestartInv
  <2> QED
    BY <2>1, <2>2
<1>6. ASSUME NEW new \in Answers, replace_with(new)
      PROVE  RoundInv'
  BY <1>0, <1>6, AnswersAre, RestartInv DEF replace_with
<1>7. CASE UNCHANGED vars
  BY <1>0, <1>1, <1>7 DEF vars, TypeOK
<1> QED
  BY <1>2, <1>3, <1>4, <1>5, <1>6, <1>7 DEF Next

\* Whatever the list was replaced with or lost before, the positions served in
\* this round are the last ones before the index (get_any).
THEOREM RoundInvariant == Spec => []RoundInv
BY RoundInit, RoundStep, PTL DEF Spec

\* The index stays in the range of the AtomicUsize, and what is handed out is
\* an address or None.
THEOREM TypeCorrect == Spec => []TypeOK
<1>1. RoundInv => TypeOK
  BY DEF RoundInv
<1> QED
  BY <1>1, RoundInvariant, PTL

\* While the list stays the same no channel is handed out twice more often than
\* another, for any length of the list and wherever the shared index stands
\* (get_any; a wrap of the atomic in the middle of a round begins a new one).
THEOREM RoundRobin == Spec => []Balanced
<1>1. RoundInv => Balanced
  <2> SUFFICES ASSUME RoundInv, NEW i \in DOMAIN served
               PROVE  served[i] \in {0, 1}
    BY DEF Balanced
  <2>1. channels \in Seq(Addr) /\ i \in 1 .. Len(channels)
    BY DEF RoundInv, TypeOK
  <2>2. channels # <<>>
    BY <2>1
  <2> QED
    BY <2>1, <2>2 DEF RoundInv, Window
<1> QED
  BY <1>1, RoundInvariant, PTL

-----------------------------------------------------------------------------
(* The list as a bag.                                                      *)

\* The channels to an address are counted with natural numbers.
LEMMA PositionsFinite ==
  ASSUME NEW s \in Seq(Addr), NEW a
  PROVE  /\ IsFiniteSet({i \in DOMAIN s : s[i] = a})
         /\ Cardinality({i \in DOMAIN s : s[i] = a}) \in Nat
<1>1. IsFiniteSet(1 .. Len(s))
  BY FS_Interval
<1>2. {i \in DOMAIN s : s[i] = a} \in SUBSET (1 .. Len(s))
  OBVIOUS
<1>3. IsFiniteSet({i \in DOMAIN s : s[i] = a})
  BY <1>1, <1>2, FS_Subset
<1> QED
  BY <1>3, FS_CardinalityType

\* get_any returns an element of the list, for every value of the index.
LEMMA GetAnyAgrees ==
  ASSUME TypeOK, get_any \/ get_any_empty
  PROVE  Abs!GetAny
<1>0. channels \in Seq(Addr) /\ channels' = channels
  BY DEF TypeOK, get_any, get_any_empty
<1>1. UNCHANGED [a \in Addr |-> Cardinality(Positions(a))]
  BY <1>0 DEF Positions
<1>2. \A a \in Addr : /\ Cardinality(Positions(a)) \in Nat
                      /\ Cardinality(Positions(a)) = 0 <=> Positions(a) = {}
  BY <1>0, PositionsFinite, FS_EmptySet DEF Positions
<1>3. Abs!Available = {a \in Addr : Positions(a) # {}}
  BY <1>2 DEF Abs!Available
<1>4. CASE get_any
  <2>1. Len(channels) \in Nat \ {0} /\ index \in Nat
    BY <1>0, <1>4, IndexModAssumption DEF get_any, TypeOK
  <2>2. index % Len(channels) \in 0 .. Len(channels) - 1
    BY <2>1, ModRange
  <2>3. PICK i \in 1 .. Len(channels) : last' = channels[i]
    BY <1>4, <2>1, <2>2 DEF get_any
  <2>4. last' \in Addr /\ i \in Positions(channels[i])
    BY <1>0, <2>3 DEF Positions
  <2>5. last' \in Abs!Available
    BY <1>3, <2>3, <2>4
  <2> QED
    BY <1>1, <2>5 DEF Abs!GetAny, Abs!AnyOf
<1>5. CASE get_any_empty
  <2>1. \A a \in Addr : Positions(a) = {}
    BY <1>5 DEF get_any_empty, Positions
  <2> QED
    BY <1>1, <1>3, <1>5, <2>1 DEF get_any_empty, Abs!GetAny, Abs!AnyOf
<1> QED
  BY <1>4, <1>5

\* push adds one channel to the address.
LEMMA AddAgrees ==
  ASSUME TypeOK, NEW a \in Addr, add(a)
  PROVE  Abs!Add(a)
<1>1. channels \in Seq(Addr) /\ channels' = Append(channels, a)
  BY DEF TypeOK, add
<1> DEFINE n == Len(channels)
<1>2. /\ Len(channels') = n + 1 /\ channels'[n + 1] = a /\ n \in Nat /\ channels' \in Seq(Addr)
      /\ \A i \in 1 .. n : channels'[i] = channels[i]
  BY <1>1
<1>3. Positions(a)' = Positions(a) \cup {n + 1} /\ n + 1 \notin Positions(a)
  BY <1>1, <1>2 DEF Positions
<1>4. \A b \in Addr \ {a} : Positions(b)' = Positions(b)
  BY <1>1, <1>2 DEF Positions
<1>5. Cardinality(Positions(a)') = Cardinality(Positions(a)) + 1
  <2>1. IsFiniteSet(Positions(a))
    BY <1>1, PositionsFinite DEF Positions
  <2> QED
    BY <1>3, <2>1, FS_AddElement
<1> QED
  BY <1>4, <1>5 DEF Abs!Add

\* swap_remove takes out one channel to the address and nothing else: whatever
\* takes the free place was in the list before, at its end.
LEMMA RemoveAgrees ==
  ASSUME TypeOK, NEW a \in Addr, remove(a)
  PROVE  Abs!Remove(a)
<1>1. channels \in Seq(Addr)
  BY DEF TypeOK
<1>2. \A b \in Addr : IsFiniteSet(Positions(b)) /\ Cardinality(Positions(b)) \in Nat
  BY <1>1, PositionsFinite DEF Positions
<1>3. CASE Positions(a) = {}
  <2>1. channels' = channels /\ Cardinality(Positions(a)) = 0
    BY <1>3, FS_EmptySet DEF remove
  <2>2. \A b \in Addr : Positions(b)' = Positions(b)
    BY <2>1 DEF Positions
  <2> QED
    BY <2>1, <2>2 DEF Abs!Remove
<1>4. CASE Positions(a) # {}
  <2> DEFINE first == CHOOSE i \in Positions(a) : \A j \in Positions(a) : i <= j
  <2>1. first \in Positions(a) /\ first \in 1 .. Len(channels) /\ channels' = swap_remove(channels, first)
    BY <1>1, <1>4, FirstPosition DEF remove
  <2>2. PICK k \in 1 .. Len(channels) : k \in Positions(a) /\ channels' = swap_remove(channels, k)
    BY <2>1
  <2> DEFINE n == Len(channels)
  <2>3. /\ n \in Nat /\ channels' \in Seq(Addr) /\ Len(channels') = n - 1 /\ channels[k] = a
        /\ \A i \in 1 .. n - 1 : channels'[i] = IF i = k THEN channels[n] ELSE channels[i]
    <3>1. channels \in Seq(Addr) /\ n \in Nat
      BY <1>1
    <3>2. channels[k] = a
      BY <2>2 DEF Positions
    <3> QED
      BY <2>2, <3>1, <3>2, SwapRemove
  <2> HIDE DEF first
  <2>4. DOMAIN channels = 1 .. n /\ DOMAIN channels' = 1 .. n - 1 /\ n \in 1 .. n
    BY <1>1, <2>2, <2>3
  <2> HIDE DEF n
  <2>5. \E i \in Positions(a) : Positions(a)' = Positions(a) \ {i}
    <3>1. CASE channels[n] = a
      <4>1. n \in Positions(a) /\ Positions(a)' = Positions(a) \ {n}
        BY <2>3, <2>4, <3>1 DEF Positions
      <4> QED
        BY <4>1
    <3>2. CASE channels[n] # a
      <4>1. k \in Positions(a) /\ k \in 1 .. n /\ k # n
        BY <2>2, <2>3, <3>2 DEF n
      <4>2. Positions(a)' = Positions(a) \ {k}
        BY <2>3, <2>4, <3>2, <4>1 DEF Positions
      <4> QED
        BY <4>1, <4>2
    <3> QED
      BY <3>1, <3>2
  <2>6. Cardinality(Positions(a)') = Cardinality(Positions(a)) - 1 /\ Cardinality(Positions(a)) > 0
    BY <1>2, <1>4, <2>5, FS_RemoveElement, FS_EmptySet
  <2>7. ASSUME NEW b \in Addr, b # a
        PROVE  Cardinality(Positions(b)') = Cardinality(Positions(b))
    <3>0. k \in 1 .. n /\ k \notin Positions(b)
      BY <2>2, <2>3, <2>7 DEF Positions, n
    <3>1. CASE channels[n] = b
      <4>1. n \in Positions(b) /\ k # n /\ Positions(b)' = (Positions(b) \ {n}) \cup {k}
        BY <2>3, <2>4, <2>7, <3>0, <3>1 DEF Positions
      <4>2. /\ IsFiniteSet(Positions(b) \ {n})
            /\ Cardinality(Positions(b) \ {n}) = Cardinality(Positions(b)) - 1
        BY <1>2, <4>1, FS_RemoveElement
      <4>3. Cardinality((Positions(b) \ {n}) \cup {k}) = Cardinality(Positions(b) \ {n}) + 1
        BY <3>0, <4>2, FS_AddElement
      <4> QED
        BY <1>2, <4>1, <4>2, <4>3
    <3>2. CASE channels[n] # b
      <4>1. Positions(b)' = Positions(b)
        BY <2>3, <2>4, <2>7, <3>0, <3>2 DEF Positions
      <4> QED
        BY <4>1
    <3> QED
      BY <3>1, <3>2
  <2> QED
    BY <1>2, <2>6, <2>7 DEF Abs!Remove
<1> QED
  BY <1>3, <1>4

\* replace_with leaves one channel to each address of the answer.
LEMMA ReplaceAgrees ==
  ASSUME NEW new \in Answers, replace_with(new)
  PROVE  Abs!ReplaceWith(ToSet(new))
<1>1. /\ channels' = new /\ new \in Seq(Addr) /\ DOMAIN new = 1 .. Len(new)
      /\ \A i, j \in 1 .. Len(new) : new[i] = new[j] => i = j
  BY AnswersAre DEF replace_with
<1>2. ASSUME NEW a \in Addr
      PROVE  Cardinality(Positions(a)') = IF a \in ToSet(new) THEN 1 ELSE 0
  <2>1. CASE a \in ToSet(new)
    <3>1. PICK i \in 1 .. Len(new) : new[i] = a
      BY <1>1, <2>1 DEF ToSet
    <3>2. Positions(a)' = {i}
      BY <1>1, <3>1 DEF Positions
    <3> QED
      BY <2>1, <3>2, FS_Singleton
  <2>2. CASE a \notin ToSet(new)
    <3>1. Positions(a)' = {}
      BY <1>1, <2>2 DEF Positions, ToSet
    <3> QED
      BY <2>2, <3>1, FS_EmptySet
  <2> QED
    BY <2>1, <2>2
<1> QED
  BY <1>2 DEF Abs!ReplaceWith

\* Each operation of the list is the bag operation of the same name on the same
\* address, which is what ManagedChannelPool builds on (add, remove with
\* swap_remove, replace_with, get_any).
THEOREM OperationsImplement == Spec => OperationsAgree
<1>1. TypeOK => [/\ get_any \/ get_any_empty => Abs!GetAny
                 /\ \A a \in Addr : (add(a) => Abs!Add(a)) /\ (remove(a) => Abs!Remove(a))
                 /\ \A new \in Answers : replace_with(new) => Abs!ReplaceWith(ToSet(new))]_vars
  BY GetAnyAgrees, AddAgrees, RemoveAgrees, ReplaceAgrees
<1> QED
  BY <1>1, TypeCorrect, PTL DEF OperationsAgree

\* The list with its index implements a bag of channels, from which get_any
\* takes any (ready_channels.rs).
THEOREM ImplementsChannelBag == Spec => RefinesChannelBag
<1>1. Init => Abs!Init
  <2> SUFFICES ASSUME Init
               PROVE  Abs!Init
    OBVIOUS
  <2>1. \A a \in Addr : Positions(a) = {}
    BY DEF Init, Positions
  <2> QED
    BY <2>1, FS_EmptySet DEF Init, Abs!Init, Abs!Empty
<1>2. TypeOK /\ [Next]_vars => [Abs!Next]_(Abs!vars)
  <2> SUFFICES ASSUME TypeOK, [Next]_vars
               PROVE  [Abs!Next]_(Abs!vars)
    OBVIOUS
  <2>1. CASE get_any \/ get_any_empty
    BY <2>1, GetAnyAgrees DEF Abs!Next
  <2>2. ASSUME NEW a \in Addr, add(a)
        PROVE  Abs!Next
    BY <2>2, AddAgrees DEF Abs!Next, Abs!Write, add
  <2>3. ASSUME NEW a \in Addr, remove(a)
        PROVE  Abs!Next
    BY <2>3, RemoveAgrees DEF Abs!Next, Abs!Write, remove
  <2>4. ASSUME NEW new \in Answers, replace_with(new)
        PROVE  Abs!Next
    <3>1. ToSet(new) \in SUBSET Addr
      BY AnswersAre DEF ToSet
    <3> QED
      BY <2>4, <3>1, ReplaceAgrees DEF Abs!Next, Abs!Write, replace_with
  <2>5. CASE UNCHANGED vars
    BY <2>5 DEF vars, Abs!vars, Positions
  <2> QED
    BY <2>1, <2>2, <2>3, <2>4, <2>5 DEF Next
<1> QED
  BY <1>1, <1>2, TypeCorrect, PTL DEF Spec, RefinesChannelBag, Abs!Spec

=============================================================================
