-------------------------- MODULE PublishLoopProofs --------------------------
(***************************************************************************)
(* Proofs about the publishing rotation of a session, for any number of    *)
(* subscriptions, requests and parameters: publish_order_ lists every      *)
(* subscription exactly once with the cursor in range, and the rotation is *)
(* fair to a subscription that is due.                                     *)
(***************************************************************************)
EXTENDS PublishLoop, FiniteSetTheorems, SequenceTheorems, TLAPS

(***************************************************************************)
(* Numbers and sequences.                                                  *)
(***************************************************************************)
\* A non-empty set of natural numbers has a least one.
LEMMA LeastNumber ==
    ASSUME NEW S, S \subseteq Nat, S # {}
    PROVE  \E x \in S : \A y \in S : x <= y
  <1> DEFINE R == {p \in Nat \X Nat : p[1] < p[2]}
  <1>1. IsWellFoundedOn(R, Nat)
    BY NatLessThanWellFounded, Zenon DEF OpToRel
  <1>2. PICK x \in S : \A y \in S : <<y, x>> \notin R
    <2> HIDE DEF R
    <2> QED BY WFMin, <1>1
  <1>3. ASSUME NEW y \in S, y < x PROVE <<y, x>> \in R
    BY <1>3
  <1>4. \A y \in S : ~(y < x)
    BY <1>2, <1>3
  <1> QED BY <1>4

\* The remainder of a sum below twice the divisor.
LEMMA RemainderOfSum ==
    ASSUME NEW n \in Nat \ {0}, NEW a \in Nat, NEW b \in Nat, a < n, b <= n
    PROVE  (a + b) % n = IF a + b < n THEN a + b ELSE a + b - n
  OBVIOUS

\* What RemoveAt leaves: the entries behind the position move up by one.
LEMMA RemoveAtFacts ==
    ASSUME NEW S, NEW s \in Seq(S), NEW p \in 1..Len(s)
    PROVE  /\ RemoveAt(s, p) \in Seq(S)
           /\ Len(RemoveAt(s, p)) = Len(s) - 1
           /\ \A i \in 1..(Len(s) - 1) :
                 RemoveAt(s, p)[i] = IF i < p THEN s[i] ELSE s[i + 1]
  <1> DEFINE front == SubSeq(s, 1, p - 1)
             back == SubSeq(s, p + 1, Len(s))
  <1>1. /\ front \in Seq(S) /\ Len(front) = p - 1
        /\ \A i \in 1..(p - 1) : front[i] = s[i]
    OBVIOUS
  <1>2. /\ back \in Seq(S) /\ Len(back) = Len(s) - p
        /\ \A i \in 1..(Len(s) - p) : back[i] = s[p + i]
    OBVIOUS
  <1> HIDE DEF front, back
  <1>3. /\ front \o back \in Seq(S) /\ Len(front \o back) = Len(s) - 1
        /\ \A i \in 1..(Len(s) - 1) :
              (front \o back)[i] = IF i < p THEN front[i] ELSE back[i - (p - 1)]
    <2>1. /\ front \o back \in Seq(S)
          /\ Len(front \o back) = Len(front) + Len(back)
          /\ \A i \in 1..(Len(front) + Len(back)) : (front \o back)[i] =
                IF i <= Len(front) THEN front[i] ELSE back[i - Len(front)]
      BY <1>1, <1>2, ConcatProperties
    <2>2. Len(front) + Len(back) = Len(s) - 1
      BY <1>1, <1>2
    <2> QED BY <1>1, <2>1, <2>2
  <1>4. ASSUME NEW i \in 1..(Len(s) - 1)
        PROVE  (front \o back)[i] = IF i < p THEN s[i] ELSE s[i + 1]
    BY <1>1, <1>2, <1>3
  <1> QED BY <1>3, <1>4 DEF RemoveAt, front, back

(***************************************************************************)
(* The inductive invariant.                                                *)
(***************************************************************************)
Subscription ==
    [parameters : Parameters, enabled : BOOLEAN, pending : Nat, queued : Nat,
     next_sequence_number : Nat, retransmit : SUBSET Nat, elapsed : Nat,
     initial_message_sent : BOOLEAN]

SessionTypeOK ==
    /\ next_subscription_id \in Nat \ {0}
    /\ publish_order \in Seq(Nat \ {0})
    /\ next_publish_index \in Nat
    /\ \A id \in DOMAIN subscriptions :
          /\ id \in Nat \ {0} /\ id < next_subscription_id
          /\ subscriptions[id] \in Subscription
    /\ DOMAIN answers = Requests
    /\ overtaken \in [SubscriptionIds -> SUBSET (Nat \ {0})]

\* publish_order lists the subscriptions, each at one place; OrderIsExact counts
\* them instead.
ListsEachOnce ==
    /\ \A i \in 1..Len(publish_order) : publish_order[i] \in DOMAIN subscriptions
    /\ \A id \in DOMAIN subscriptions :
          \E i \in 1..Len(publish_order) : publish_order[i] = id
    /\ \A i, j \in 1..Len(publish_order) :
          publish_order[i] = publish_order[j] => i = j
    /\ next_publish_index < Len(publish_order) \/ next_publish_index = 0

\* How many entries the search passes before it comes to position i.
RotationOffset(i) ==
    IF i - 1 >= next_publish_index THEN (i - 1) - next_publish_index
    ELSE (i - 1) - next_publish_index + Len(publish_order)

\* The search comes to a before it comes to b.
ComesBefore(a, b) ==
    \E i, j \in 1..Len(publish_order) :
        /\ publish_order[i] = a /\ publish_order[j] = b
        /\ RotationOffset(i) < RotationOffset(j)

IsDue(s) == HasPublishable(s) /\ IsPublishReady(s)

\* Whoever overtook a subscription that is still due stands behind it now.
OvertakersStandBehind ==
    \A id \in SubscriptionIds : \A other \in overtaken[id] :
        /\ id \in DOMAIN subscriptions
        /\ IsDue(subscriptions[id])
        /\ ComesBefore(id, other)

RotationInv == SessionTypeOK /\ ListsEachOnce /\ OvertakersStandBehind

(***************************************************************************)
(* What the search of PollPublish finds.                                   *)
(***************************************************************************)
\* Offsets and positions are inverse to each other.
LEMMA OffsetsAndPositions ==
    ASSUME SessionTypeOK, ListsEachOnce
    PROVE  /\ \A i \in 1..Len(publish_order) :
                 /\ RotationOffset(i) \in 0..(Len(publish_order) - 1)
                 /\ IndexAt(RotationOffset(i)) = i - 1
           /\ \A o \in 0..(Len(publish_order) - 1) :
                 /\ IndexAt(o) \in 0..(Len(publish_order) - 1)
                 /\ RotationOffset(IndexAt(o) + 1) = o
  <1> DEFINE n == Len(publish_order)
             c == next_publish_index
  <1>1. n \in Nat /\ c \in Nat /\ (c < n \/ c = 0)
    BY DEF SessionTypeOK, ListsEachOnce
  <1>2. ASSUME NEW o \in 0..(n - 1)
        PROVE  IndexAt(o) = IF c + o < n THEN c + o ELSE c + o - n
    <2>1. n \in Nat \ {0} /\ o \in Nat /\ c < n /\ o <= n
      BY <1>1
    <2>2. IndexAt(o) = (c + o) % n
      BY DEF IndexAt
    <2> HIDE DEF n, c
    <2> QED BY <1>1, <2>1, <2>2, RemainderOfSum
  <1>3. ASSUME NEW i \in 1..n
        PROVE  RotationOffset(i) = IF i - 1 >= c THEN i - 1 - c ELSE i - 1 - c + n
    BY DEF RotationOffset
  <1> HIDE DEF n, c
  <1>4. ASSUME NEW i \in 1..n
        PROVE  RotationOffset(i) \in 0..(n - 1) /\ IndexAt(RotationOffset(i)) = i - 1
    <2>1. RotationOffset(i) \in 0..(n - 1)
      BY <1>1, <1>3
    <2> QED BY <1>1, <1>2, <1>3, <2>1
  <1>5. ASSUME NEW o \in 0..(n - 1)
        PROVE  IndexAt(o) \in 0..(n - 1) /\ RotationOffset(IndexAt(o) + 1) = o
    <2>1. IndexAt(o) \in 0..(n - 1) /\ IndexAt(o) + 1 \in 1..n
      BY <1>1, <1>2
    <2> QED BY <1>1, <1>2, <1>3, <2>1
  <1> QED BY <1>4, <1>5 DEF n

\* FindNextReadySubscription returns a position of the order, and nothing it
\* looks for stands before it.
LEMMA SearchFindsFirst ==
    ASSUME SessionTypeOK, ListsEachOnce,
           NEW table, NEW require \in BOOLEAN
    PROVE  LET found == FindNextReadySubscription(table, require)
               Sought(i) == /\ require => table[publish_order[i]].pending > 0
                            /\ IsPublishReady(table[publish_order[i]])
           IN  /\ found = NotFound => \A i \in 1..Len(publish_order) : ~Sought(i)
               /\ found # NotFound =>
                     /\ found \in 0..(Len(publish_order) - 1)
                     /\ \A i \in 1..Len(publish_order) : Sought(i) =>
                           RotationOffset(found + 1) <= RotationOffset(i)
  <1> DEFINE n == Len(publish_order)
             Sought(i) == /\ require => table[publish_order[i]].pending > 0
                          /\ IsPublishReady(table[publish_order[i]])
             ready == {o \in 0..(n - 1) : Sought(IndexAt(o) + 1)}
             first == CHOOSE o \in ready : \A p \in ready : o <= p
             found == IF ready = {} THEN NotFound ELSE IndexAt(first)
  <1>1. found = FindNextReadySubscription(table, require)
    BY DEF FindNextReadySubscription
  <1>2. n \in Nat
    BY DEF SessionTypeOK
  <1>3. ASSUME NEW i \in 1..n, Sought(i)
        PROVE  RotationOffset(i) \in ready
    <2>1. RotationOffset(i) \in 0..(n - 1) /\ IndexAt(RotationOffset(i)) = i - 1
      BY OffsetsAndPositions
    <2>2. IndexAt(RotationOffset(i)) + 1 = i
      BY <2>1
    <2> HIDE DEF Sought
    <2> QED BY <1>3, <2>1, <2>2
  <1>4. ASSUME ready # {}
        PROVE  first \in ready /\ \A p \in ready : first <= p
    <2>1. ready \subseteq Nat
      BY <1>2
    <2> HIDE DEF ready
    <2> QED BY <1>4, <2>1, LeastNumber
  <1>5. ASSUME ready # {}
        PROVE  /\ IndexAt(first) \in 0..(n - 1)
               /\ RotationOffset(IndexAt(first) + 1) = first
    <2>1. first \in 0..(n - 1)
      BY <1>4, <1>5
    <2> HIDE DEF first
    <2> QED BY <2>1, OffsetsAndPositions
  <1> HIDE DEF ready, first, Sought
  <1>6. found = NotFound => \A i \in 1..n : ~Sought(i)
    BY <1>2, <1>3, <1>5 DEF NotFound
  <1>7. found # NotFound => /\ found \in 0..(n - 1)
                            /\ \A i \in 1..n : Sought(i) =>
                                  RotationOffset(found + 1) <= RotationOffset(i)
    BY <1>3, <1>4, <1>5
  <1> QED BY <1>1, <1>6, <1>7 DEF Sought

\* PollPublish picks a subscription of the order, and no subscription that is
\* due with something to publish stands before it.
LEMMA PublishIndexIsFirst ==
    ASSUME SessionTypeOK, ListsEachOnce, NEW table,
           PublishIndex(table) # NotFound
    PROVE  /\ PublishIndex(table) \in 0..(Len(publish_order) - 1)
           /\ \A i \in 1..Len(publish_order) : IsDue(table[publish_order[i]]) =>
                 RotationOffset(PublishIndex(table) + 1) <= RotationOffset(i)
  <1> DEFINE pending == FindNextReadySubscription(table, TRUE)
             any == FindNextReadySubscription(table, FALSE)
  <1>1. CASE pending # NotFound
    <2>1. PublishIndex(table) = pending
      BY <1>1 DEF PublishIndex
    <2> QED BY <1>1, <2>1, SearchFindsFirst DEF IsDue, HasPublishable
  <1>2. CASE pending = NotFound
    <2>1. PublishIndex(table) = any
      BY <1>2 DEF PublishIndex
    <2>2. \A i \in 1..Len(publish_order) : ~IsDue(table[publish_order[i]])
      BY <1>2, SearchFindsFirst DEF IsDue, HasPublishable
    <2> QED BY <2>1, <2>2, SearchFindsFirst
  <1> QED BY <1>1, <1>2

(***************************************************************************)
(* The steps of the session.                                               *)
(***************************************************************************)
\* A step that changes subscriptions in place, each still well-formed, and keeps
\* of every list of overtakers what is still due.
LEMMA ChangedInPlace ==
    ASSUME RotationInv, NEW table, subscriptions' = table,
           DOMAIN table = DOMAIN subscriptions,
           \A id \in DOMAIN table : table[id] \in Subscription,
           overtaken' = Overtakers(table, {}),
           DOMAIN answers' = DOMAIN answers,
           UNCHANGED <<publish_order, next_publish_index, next_subscription_id>>
    PROVE  RotationInv'
  <1>1. SessionTypeOK'
    BY DEF RotationInv, SessionTypeOK, Overtakers
  <1>2. ListsEachOnce'
    BY DEF RotationInv, ListsEachOnce
  <1>3. OvertakersStandBehind'
    BY DEF RotationInv, OvertakersStandBehind, Overtakers, IsDue, ComesBefore,
           RotationOffset
  <1> QED BY <1>1, <1>2, <1>3 DEF RotationInv

\* A step that keeps the rotation as it is and everyone due or not due.
LEMMA KeptAsDue ==
    ASSUME RotationInv, NEW table, subscriptions' = table,
           DOMAIN table = DOMAIN subscriptions,
           \A id \in DOMAIN table : /\ table[id] \in Subscription
                                    /\ IsDue(table[id]) = IsDue(subscriptions[id]),
           UNCHANGED overtaken,
           DOMAIN answers' = DOMAIN answers,
           UNCHANGED <<publish_order, next_publish_index, next_subscription_id>>
    PROVE  RotationInv'
  <1>1. SessionTypeOK'
    BY DEF RotationInv, SessionTypeOK
  <1>2. ListsEachOnce'
    BY DEF RotationInv, ListsEachOnce
  <1>3. OvertakersStandBehind'
    <2>1. ASSUME NEW id \in SubscriptionIds, NEW other \in overtaken[id]
          PROVE  /\ id \in DOMAIN table /\ IsDue(table[id])
                 /\ ComesBefore(id, other)
      BY DEF RotationInv, OvertakersStandBehind
    <2> QED BY <2>1 DEF OvertakersStandBehind, IsDue, ComesBefore, RotationOffset
  <1> QED BY <1>1, <1>2, <1>3 DEF RotationInv

\* CreateSubscription and TransferIn: a new subscription joins at the end.
LEMMA JoinedAtTheEnd ==
    ASSUME RotationInv, NEW s \in Subscription,
           SubscriptionsBecome(With(subscriptions, next_subscription_id, s)),
           publish_order' = Append(publish_order, next_subscription_id),
           next_subscription_id' = next_subscription_id + 1,
           UNCHANGED next_publish_index
    PROVE  RotationInv'
  <1> DEFINE new == next_subscription_id
             n == Len(publish_order)
  <1>1. /\ DOMAIN subscriptions' = DOMAIN subscriptions \cup {new}
        /\ subscriptions'[new] = s
        /\ \A id \in DOMAIN subscriptions : id # new => subscriptions'[id] = subscriptions[id]
        /\ new \notin DOMAIN subscriptions
        /\ new \in Nat \ {0}
    BY DEF SubscriptionsBecome, With, RotationInv, SessionTypeOK
  <1>2. /\ publish_order' \in Seq(Nat \ {0})
        /\ n \in Nat
        /\ Len(publish_order') = n + 1
        /\ \A i \in 1..n : publish_order'[i] = publish_order[i]
        /\ publish_order'[n + 1] = new
    BY <1>1 DEF RotationInv, SessionTypeOK
  <1>3. SessionTypeOK'
    <2>1. overtaken' \in [SubscriptionIds -> SUBSET (Nat \ {0})]
      BY DEF SubscriptionsBecome, Overtakers, RotationInv, SessionTypeOK
    <2>2. \A id \in DOMAIN subscriptions' :
              /\ id \in Nat \ {0} /\ id < next_subscription_id'
              /\ subscriptions'[id] \in Subscription
      BY <1>1 DEF RotationInv, SessionTypeOK
    <2> QED BY <1>2, <2>1, <2>2
            DEF SubscriptionsBecome, RotationInv, SessionTypeOK
  <1>4. ListsEachOnce'
    <2>1. \A i \in 1..(n + 1) : publish_order'[i] \in DOMAIN subscriptions'
      BY <1>1, <1>2 DEF RotationInv, ListsEachOnce
    <2>2. ASSUME NEW id \in DOMAIN subscriptions'
          PROVE  \E i \in 1..(n + 1) : publish_order'[i] = id
      BY <1>1, <1>2 DEF RotationInv, ListsEachOnce
    <2>3. \A i, j \in 1..(n + 1) : publish_order'[i] = publish_order'[j] => i = j
      BY <1>1, <1>2 DEF RotationInv, ListsEachOnce
    <2>4. next_publish_index' < n + 1 \/ next_publish_index' = 0
      BY <1>2 DEF RotationInv, ListsEachOnce, SessionTypeOK
    <2> QED BY <1>2, <2>1, <2>2, <2>3, <2>4 DEF ListsEachOnce
  <1>5. ASSUME NEW a, NEW b, ComesBefore(a, b)
        PROVE  ComesBefore(a, b)'
    <2>1. PICK i, j \in 1..n : /\ publish_order[i] = a /\ publish_order[j] = b
                               /\ RotationOffset(i) < RotationOffset(j)
      BY <1>5 DEF ComesBefore
    <2>2. RotationOffset(i)' < RotationOffset(j)'
      <3> DEFINE c == next_publish_index
      <3>1. /\ RotationOffset(i) = IF i - 1 >= c THEN i - 1 - c ELSE i - 1 - c + n
            /\ RotationOffset(j) = IF j - 1 >= c THEN j - 1 - c ELSE j - 1 - c + n
        BY DEF RotationOffset
      <3>2. /\ RotationOffset(i)' =
                   IF i - 1 >= c THEN i - 1 - c ELSE i - 1 - c + (n + 1)
            /\ RotationOffset(j)' =
                   IF j - 1 >= c THEN j - 1 - c ELSE j - 1 - c + (n + 1)
        BY <1>2 DEF RotationOffset
      <3>3. c \in Nat
        BY DEF RotationInv, SessionTypeOK
      <3> HIDE DEF c, n
      <3> QED BY <1>2, <2>1, <3>1, <3>2, <3>3
    <2>3. i \in 1..(n + 1) /\ j \in 1..(n + 1)
      BY <1>2
    <2> QED BY <1>2, <2>1, <2>2, <2>3 DEF ComesBefore
  <1>6. OvertakersStandBehind'
    <2> SUFFICES ASSUME NEW id \in SubscriptionIds, NEW other \in overtaken'[id]
                 PROVE  /\ id \in DOMAIN subscriptions' /\ IsDue(subscriptions'[id])
                        /\ ComesBefore(id, other)'
      BY DEF OvertakersStandBehind, IsDue
    <2>1. /\ id \in DOMAIN subscriptions' /\ IsDue(subscriptions'[id])
          /\ other \in overtaken[id]
      BY DEF SubscriptionsBecome, Overtakers, IsDue
    <2>2. ComesBefore(id, other)
      BY <2>1 DEF RotationInv, OvertakersStandBehind
    <2> QED BY <1>5, <2>1, <2>2
  <1> QED BY <1>3, <1>4, <1>6 DEF RotationInv

\* DeleteSubscription: whoever stood before another in the search still does.
LEMMA ErasedFromOrder ==
    ASSUME RotationInv, NEW id, DeleteSubscription(id)
    PROVE  RotationInv'
  <1> DEFINE n == Len(publish_order)
             c == next_publish_index
  <1>1. /\ n \in Nat /\ c \in Nat /\ (c < n \/ c = 0)
        /\ DOMAIN publish_order = 1..n
        /\ publish_order \in Seq(Nat \ {0})
    BY DEF RotationInv, SessionTypeOK, ListsEachOnce
  <1>2. PICK position \in 1..n :
            /\ publish_order[position] = id
            /\ position = CHOOSE i \in DOMAIN publish_order : publish_order[i] = id
    <2>1. \E i \in 1..n : publish_order[i] = id
      BY DEF DeleteSubscription, HasSubscription, RotationInv, ListsEachOnce
    <2> QED BY <1>1, <2>1
  <1> DEFINE moved == IF position - 1 < c THEN c - 1 ELSE c
  <1>3. /\ publish_order' = RemoveAt(publish_order, position)
        /\ next_publish_index' = IF moved >= Len(publish_order') THEN 0 ELSE moved
    BY <1>2 DEF DeleteSubscription, EraseFromOrder
  <1> HIDE DEF n
  <1>n. n \in Nat /\ c \in Nat /\ (c < n \/ c = 0)
    BY <1>1
  <1>p. publish_order[position] = id
    BY <1>2
  <1>4. /\ publish_order' \in Seq(Nat \ {0})
        /\ Len(publish_order') = n - 1
        /\ \A i \in 1..(n - 1) : publish_order'[i] =
              IF i < position THEN publish_order[i] ELSE publish_order[i + 1]
    BY <1>1, <1>2, <1>3, RemoveAtFacts DEF n
  <1>5. /\ next_publish_index' = IF moved >= n - 1 THEN 0 ELSE moved
        /\ next_publish_index' \in Nat
        /\ next_publish_index' < n - 1 \/ next_publish_index' = 0
    BY <1>1, <1>2, <1>3, <1>4
  <1>6. /\ DOMAIN subscriptions' = DOMAIN subscriptions \ {id}
        /\ \A other \in DOMAIN subscriptions' : subscriptions'[other] = subscriptions[other]
    BY DEF DeleteSubscription, SubscriptionsBecome, Without
  <1>7. SessionTypeOK'
    <2>1. overtaken' \in [SubscriptionIds -> SUBSET (Nat \ {0})]
      BY DEF DeleteSubscription, SubscriptionsBecome, Overtakers, RotationInv,
             SessionTypeOK
    <2> QED BY <1>4, <1>5, <1>6, <2>1
            DEF DeleteSubscription, SubscriptionsBecome, RotationInv, SessionTypeOK
  \* Where an entry that stays is found afterwards.
  <1> DEFINE Place(i) == IF i < position THEN i ELSE i - 1
  <1>8. ASSUME NEW i \in 1..n, i # position
        PROVE  Place(i) \in 1..(n - 1) /\ publish_order'[Place(i)] = publish_order[i]
    BY <1>n, <1>4, <1>8
  <1>9. ListsEachOnce'
    <2>1. ASSUME NEW i \in 1..(n - 1)
          PROVE  publish_order'[i] \in DOMAIN subscriptions'
      <3>1. \A k \in 1..n : publish_order[k] = id => k = position
        BY <1>p DEF RotationInv, ListsEachOnce, n
      <3>2. \A k \in 1..n : publish_order[k] \in DOMAIN subscriptions
        BY DEF RotationInv, ListsEachOnce, n
      <3>3. CASE i < position
        BY <1>n, <1>4, <1>6, <3>1, <3>2, <3>3
      <3>4. CASE ~(i < position)
        <4>1. i + 1 \in 1..n /\ i + 1 # position
          BY <1>n, <3>4
        <4> QED BY <1>4, <1>6, <3>1, <3>2, <3>4, <4>1
      <3> QED BY <3>3, <3>4
    <2>2. ASSUME NEW other \in DOMAIN subscriptions'
          PROVE  \E i \in 1..(n - 1) : publish_order'[i] = other
      <3>1. PICK i \in 1..n : publish_order[i] = other
        BY <1>6 DEF RotationInv, ListsEachOnce, n
      <3>2. i # position
        BY <1>p, <1>6, <3>1
      <3> QED BY <1>8, <3>1, <3>2
    <2>3. ASSUME NEW i \in 1..(n - 1), NEW j \in 1..(n - 1),
                 publish_order'[i] = publish_order'[j]
          PROVE  i = j
      <3>1. \A k, l \in 1..n : publish_order[k] = publish_order[l] => k = l
        BY DEF RotationInv, ListsEachOnce, n
      <3> DEFINE From(k) == IF k < position THEN k ELSE k + 1
      <3>2. ASSUME NEW k \in 1..(n - 1)
            PROVE  From(k) \in 1..n /\ publish_order'[k] = publish_order[From(k)]
        BY <1>n, <1>4
      <3>3. From(i) = From(j)
        <4> HIDE DEF From
        <4> QED BY <2>3, <3>1, <3>2
      <3> QED BY <1>n, <3>3
    <2> QED BY <1>4, <1>5, <2>1, <2>2, <2>3 DEF ListsEachOnce
  <1>10. ASSUME NEW a, NEW b, a # id, b # id, ComesBefore(a, b)
         PROVE  ComesBefore(a, b)'
    <2>1. PICK i, j \in 1..n : /\ publish_order[i] = a /\ publish_order[j] = b
                               /\ RotationOffset(i) < RotationOffset(j)
      BY <1>10 DEF ComesBefore, n
    <2>2. i # position /\ j # position
      BY <1>p, <1>10, <2>1
    <2>3. RotationOffset(Place(i))' < RotationOffset(Place(j))'
      <3> DEFINE d == next_publish_index'
      <3>1. /\ RotationOffset(i) = IF i - 1 >= c THEN i - 1 - c ELSE i - 1 - c + n
            /\ RotationOffset(j) = IF j - 1 >= c THEN j - 1 - c ELSE j - 1 - c + n
        BY DEF RotationOffset, n
      <3>2. \A k \in 1..(n - 1) : RotationOffset(k)' =
                   IF k - 1 >= d THEN k - 1 - d ELSE k - 1 - d + (n - 1)
        BY <1>4 DEF RotationOffset
      <3>3. RotationOffset(Place(i))' =
              (IF Place(i) - 1 >= d THEN Place(i) - 1 - d
               ELSE Place(i) - 1 - d + (n - 1))
        BY <1>8, <2>2, <3>2
      <3>4. RotationOffset(Place(j))' =
              (IF Place(j) - 1 >= d THEN Place(j) - 1 - d
               ELSE Place(j) - 1 - d + (n - 1))
        BY <1>8, <2>2, <3>2
      <3>5. d = IF (IF position - 1 < c THEN c - 1 ELSE c) >= n - 1 THEN 0
                ELSE IF position - 1 < c THEN c - 1 ELSE c
        BY <1>5
      <3> HIDE DEF c, d
      <3> QED BY <1>n, <2>1, <2>2, <3>1, <3>3, <3>4, <3>5
    <2> QED BY <1>4, <1>8, <2>1, <2>2, <2>3 DEF ComesBefore
  <1>11. OvertakersStandBehind'
    <2> SUFFICES ASSUME NEW k \in SubscriptionIds, NEW other \in overtaken'[k]
                 PROVE  /\ k \in DOMAIN subscriptions' /\ IsDue(subscriptions'[k])
                        /\ ComesBefore(k, other)'
      BY DEF OvertakersStandBehind, IsDue
    <2>1. /\ k \in DOMAIN subscriptions' /\ IsDue(subscriptions'[k])
          /\ other \in overtaken[k] /\ other \in DOMAIN subscriptions'
      BY DEF DeleteSubscription, SubscriptionsBecome, Overtakers, IsDue
    <2>2. ComesBefore(k, other)
      BY <2>1 DEF RotationInv, OvertakersStandBehind
    <2> QED BY <1>6, <1>10, <2>1, <2>2
  <1> QED BY <1>7, <1>9, <1>11 DEF RotationInv

\* TryPublish leaves a subscription well-formed.
LEMMA PublishedIsSubscription ==
    ASSUME NEW s \in Subscription
    PROVE  Published(s) \in Subscription
  <1> DEFINE sent == [s EXCEPT !.elapsed = 0, !.initial_message_sent = TRUE]
             left == IF s.pending > MaxPerPublish THEN s.pending - MaxPerPublish ELSE 0
  <1>1. MaxPerPublish \in Nat
    BY ServerSessionAssumption
  <1>2. /\ left \in Nat
        /\ s.retransmit \cup {s.next_sequence_number} \in SUBSET Nat
        /\ s.next_sequence_number + 1 \in Nat
    BY <1>1 DEF Subscription
  <1>3. sent \in Subscription
    BY DEF Subscription
  <1>4. [sent EXCEPT !.pending = left,
                     !.retransmit = s.retransmit \cup {s.next_sequence_number},
                     !.next_sequence_number = s.next_sequence_number + 1]
          \in Subscription
    <2> HIDE DEF sent, left
    <2> QED BY <1>2, <1>3 DEF Subscription
  <1> QED BY <1>3, <1>4 DEF Published

\* PollPublish answers: the one published goes to the end of the search, and
\* nobody who is due was passed over.  It was not in anyone's list.
LEMMA PollAnswersOneRound ==
    ASSUME RotationInv, NEW r, NEW table, PollAnswers(r, table),
           DOMAIN table = DOMAIN subscriptions,
           \A id \in DOMAIN table : /\ table[id] \in Subscription
                                    /\ IsDue(table[id]) = IsDue(subscriptions[id])
    PROVE  /\ RotationInv'
           /\ \E published \in DOMAIN table :
                 /\ \E number, count :
                       answers' = [answers EXCEPT ![r] =
                                      Response(published, number, count)]
                 /\ \A id \in SubscriptionIds : published \notin overtaken[id]
  <1> DEFINE n == Len(publish_order)
             c == next_publish_index
  <1>1. PICK index \in {PublishIndex(table)} \ {NotFound} :
          LET id == publish_order[index + 1]
              after == [table EXCEPT ![id] = Published(@)]
              s == table[id]
          IN  /\ subscriptions' = after
              /\ AdvancePublishCursorAfter(index)
              /\ answers' = [answers EXCEPT ![r] =
                    Response(id, s.next_sequence_number, s.pending - after[id].pending)]
              /\ overtaken' = Overtakers(after, {id})
              /\ UNCHANGED <<publish_order, next_subscription_id>>
    BY DEF PollAnswers
  <1> DEFINE published == publish_order[index + 1]
             after == [table EXCEPT ![published] = Published(@)]
  <1>2. /\ n \in Nat /\ c \in Nat /\ (c < n \/ c = 0)
        /\ publish_order \in Seq(Nat \ {0})
    BY DEF RotationInv, SessionTypeOK, ListsEachOnce
  <1>3. /\ index \in 0..(n - 1)
        /\ \A i \in 1..n : IsDue(table[publish_order[i]]) =>
              RotationOffset(index + 1) <= RotationOffset(i)
    BY <1>1, PublishIndexIsFirst DEF RotationInv
  <1>p. PICK place \in 1..n : place = index + 1
    BY <1>2, <1>3
  <1>4. /\ published = publish_order[place]
        /\ published \in DOMAIN table /\ published \in Nat \ {0}
    BY <1>2, <1>p DEF RotationInv, ListsEachOnce
  <1>5. /\ DOMAIN after = DOMAIN table
        /\ \A id \in DOMAIN table : id # published => after[id] = table[id]
        /\ after[published] = Published(table[published])
    BY <1>4
  <1>6. /\ subscriptions' = after
        /\ overtaken' = Overtakers(after, {published})
        /\ UNCHANGED <<publish_order, next_subscription_id>>
    BY <1>1
  <1>7. next_publish_index' = IF index + 1 < n THEN index + 1 ELSE 0
    <2>1. next_publish_index' = (index + 1) % n
      BY <1>1 DEF AdvancePublishCursorAfter
    <2>2. n \in Nat \ {0} /\ index \in Nat /\ index < n /\ 1 \in Nat /\ 1 <= n
      BY <1>2, <1>3
    <2> HIDE DEF n
    <2>3. (index + 1) % n = IF index + 1 < n THEN index + 1 ELSE index + 1 - n
      BY <2>2, RemainderOfSum
    <2>4. ~(index + 1 < n) => index + 1 - n = 0
      BY <2>2
    <2> QED BY <2>1, <2>3, <2>4
  <1> HIDE DEF after, published
  <1>8. SessionTypeOK'
    <2>1. \A id \in DOMAIN after : after[id] \in Subscription
      BY <1>4, <1>5, PublishedIsSubscription
    <2>2. overtaken' \in [SubscriptionIds -> SUBSET (Nat \ {0})]
      BY <1>4, <1>6 DEF Overtakers, RotationInv, SessionTypeOK
    <2>3. DOMAIN answers' = Requests
      BY <1>1 DEF RotationInv, SessionTypeOK
    <2>4. next_publish_index' \in Nat
      BY <1>2, <1>3, <1>7
    <2> QED BY <1>5, <1>6, <2>1, <2>2, <2>3, <2>4
            DEF RotationInv, SessionTypeOK
  <1>9. ListsEachOnce'
    <2>1. next_publish_index' < n \/ next_publish_index' = 0
      BY <1>7
    <2> QED BY <1>5, <1>6, <2>1 DEF RotationInv, ListsEachOnce
  \* The offset of every position once the cursor has moved.
  <1>10. ASSUME NEW i \in 1..n
         PROVE  /\ RotationOffset(i) > RotationOffset(place) =>
                      RotationOffset(i)' =
                         RotationOffset(i) - RotationOffset(place) - 1
                /\ RotationOffset(place)' = n - 1
                /\ i # place => RotationOffset(i)' < n - 1
    <2> DEFINE d == next_publish_index'
    <2>1. \A k \in 1..n : RotationOffset(k) =
              IF k - 1 >= c THEN k - 1 - c ELSE k - 1 - c + n
      BY DEF RotationOffset
    <2>2. \A k \in 1..n : RotationOffset(k)' =
              IF k - 1 >= d THEN k - 1 - d ELSE k - 1 - d + n
      BY <1>6 DEF RotationOffset
    <2>3. /\ RotationOffset(i) = IF i - 1 >= c THEN i - 1 - c ELSE i - 1 - c + n
          /\ RotationOffset(place) =
                IF place - 1 >= c THEN place - 1 - c ELSE place - 1 - c + n
      BY <2>1
    <2>4. /\ RotationOffset(i)' = IF i - 1 >= d THEN i - 1 - d ELSE i - 1 - d + n
          /\ RotationOffset(place)' =
                IF place - 1 >= d THEN place - 1 - d ELSE place - 1 - d + n
      BY <2>2
    <2>5. n \in Nat /\ c \in Nat /\ (c < n \/ c = 0)
      BY <1>2
    <2>6. d = IF place < n THEN place ELSE 0
      BY <1>7, <1>p
    <2> HIDE DEF n, c, d
    <2>7. RotationOffset(i) > RotationOffset(place) =>
             RotationOffset(i)' = RotationOffset(i) - RotationOffset(place) - 1
      BY <2>3, <2>4, <2>5, <2>6
    <2>8. RotationOffset(place)' = n - 1
      BY <2>4, <2>5, <2>6
    <2>9. i # place => RotationOffset(i)' < n - 1
      BY <2>4, <2>5, <2>6
    <2> QED BY <2>7, <2>8, <2>9
  <1>11. ASSUME NEW id \in SubscriptionIds, NEW other \in overtaken[id],
                id # published
         PROVE  ComesBefore(id, other)' /\ other # published
    <2>1. PICK i, j \in 1..n : /\ publish_order[i] = id /\ publish_order[j] = other
                               /\ RotationOffset(i) < RotationOffset(j)
      BY DEF RotationInv, OvertakersStandBehind, ComesBefore
    <2>2. RotationOffset(place) < RotationOffset(i)
      <3>1. IsDue(table[publish_order[i]])
        BY <2>1 DEF RotationInv, OvertakersStandBehind
      <3>2. RotationOffset(place) <= RotationOffset(i)
        BY <1>3, <1>p, <3>1
      <3>3. i # place
        BY <1>4, <1>11, <2>1
      <3>4. RotationOffset(place) # RotationOffset(i)
        <4>1. \A k \in 1..n : IndexAt(RotationOffset(k)) = k - 1
          BY OffsetsAndPositions DEF RotationInv
        <4> QED BY <3>3, <4>1
      <3>5. RotationOffset(place) \in Int /\ RotationOffset(i) \in Int
        BY <1>2 DEF RotationOffset
      <3> QED BY <3>2, <3>4, <3>5
    <2>3. /\ RotationOffset(place) \in Int /\ RotationOffset(i) \in Int
          /\ RotationOffset(j) \in Int
      BY <1>2 DEF RotationOffset
    <2>4. RotationOffset(i)' < RotationOffset(j)'
      BY <1>10, <2>1, <2>2, <2>3
    <2>5. j # place
      BY <2>1, <2>2, <2>3
    <2>6. other # published
      BY <1>4, <2>1, <2>5 DEF RotationInv, ListsEachOnce
    <2> QED BY <1>6, <2>1, <2>4, <2>6 DEF ComesBefore
  <1>12. OvertakersStandBehind'
    <2> SUFFICES ASSUME NEW id \in SubscriptionIds, NEW other \in overtaken'[id]
                 PROVE  /\ id \in DOMAIN subscriptions' /\ IsDue(subscriptions'[id])
                        /\ ComesBefore(id, other)'
      BY DEF OvertakersStandBehind, IsDue
    <2>1. /\ id \in DOMAIN after /\ IsDue(after[id])
          /\ other \in overtaken[id] \/ (other = published /\ id # published)
      BY <1>6 DEF Overtakers, IsDue
    <2>2. id # published
      <3>1. ASSUME id = published PROVE FALSE
        <4>1. after[published].elapsed = 0
          BY <1>4, <1>5 DEF Published, Subscription
        <4>2. Published(table[published]) \in Subscription
          BY <1>4, PublishedIsSubscription
        <4>3. /\ PublishDeadline(after[published]) \in Int
              /\ PublishDeadline(after[published]) > 0
          <5> DEFINE i == after[published].parameters.interval
                     k == after[published].parameters.keep_alive_count
          <5>1. i \in Nat \ {0} /\ k \in Nat \ {0}
            BY <1>5, <4>2, ServerSessionAssumption DEF Subscription
          <5>2. PublishDeadline(after[published]) \in {i, i * k}
            BY DEF PublishDeadline
          <5> HIDE DEF i, k
          <5>3. i * k \in Int /\ i * k > 0
            BY <5>1
          <5> QED BY <5>1, <5>2, <5>3
        <4> QED BY <2>1, <3>1, <4>1, <4>3 DEF IsDue, IsPublishReady
      <3> QED BY <3>1
    <2>3. CASE other \in overtaken[id]
      BY <1>6, <1>11, <2>1, <2>2, <2>3
    <2>4. CASE other = published
      <3>1. PICK i \in 1..n : publish_order[i] = id
        BY <1>5, <2>1 DEF RotationInv, ListsEachOnce
      <3>2. i # place
        BY <1>4, <2>2, <3>1
      <3>3. RotationOffset(i)' < RotationOffset(place)'
        BY <1>10, <3>2
      <3> QED BY <1>4, <1>6, <2>1, <2>4, <3>1, <3>3 DEF ComesBefore
    <2> QED BY <2>1, <2>3, <2>4
  <1>13. \A id \in SubscriptionIds : published \notin overtaken[id]
    <2> SUFFICES ASSUME NEW id \in SubscriptionIds, published \in overtaken[id]
                 PROVE  FALSE
      OBVIOUS
    <2>1. CASE id # published
      BY <1>11, <2>1
    <2>2. CASE id = published
      <3>1. PICK i, j \in 1..n :
               /\ publish_order[i] = published /\ publish_order[j] = published
               /\ RotationOffset(i) < RotationOffset(j)
        BY <2>2 DEF RotationInv, OvertakersStandBehind, ComesBefore
      <3>2. i = j
        BY <3>1 DEF RotationInv, ListsEachOnce
      <3>3. RotationOffset(i) \in Int
        BY <1>2 DEF RotationOffset
      <3> QED BY <3>1, <3>2, <3>3
    <2> QED BY <2>1, <2>2
  <1>14. \E number, count :
            answers' = [answers EXCEPT ![r] = Response(published, number, count)]
    BY <1>1 DEF published
  <1> QED BY <1>4, <1>8, <1>9, <1>12, <1>13, <1>14 DEF RotationInv

\* Acknowledging keeps every subscription well-formed and as due as it was.
LEMMA AcknowledgedIsAsDue ==
    ASSUME RotationInv, NEW acks
    PROVE  LET table == Acknowledged(subscriptions, acks)
           IN  /\ DOMAIN table = DOMAIN subscriptions
               /\ \A id \in DOMAIN table :
                     /\ table[id] \in Subscription
                     /\ IsDue(table[id]) = IsDue(subscriptions[id])
  <1> DEFINE table == Acknowledged(subscriptions, acks)
  <1>1. DOMAIN table = DOMAIN subscriptions
    BY DEF Acknowledged
  <1>2. ASSUME NEW id \in DOMAIN subscriptions
        PROVE  /\ table[id] \in Subscription
               /\ IsDue(table[id]) = IsDue(subscriptions[id])
    <2> DEFINE s == subscriptions[id]
    <2>1. s \in Subscription
      BY DEF RotationInv, SessionTypeOK
    <2>2. table[id] =
             [s EXCEPT !.retransmit = {n \in s.retransmit : <<id, n>> \notin acks}]
      BY DEF Acknowledged
    <2>3. table[id] \in Subscription
      BY <2>1, <2>2 DEF Subscription
    <2>4. /\ table[id].enabled = s.enabled
          /\ table[id].pending = s.pending
          /\ table[id].elapsed = s.elapsed
          /\ table[id].parameters = s.parameters
          /\ table[id].initial_message_sent = s.initial_message_sent
      BY <2>1, <2>2 DEF Subscription
    <2> HIDE DEF table, s
    <2>5. IsDue(table[id]) <=> IsDue(s)
      BY <2>4 DEF IsDue, HasPublishable, IsPublishReady, PublishDeadline
    <2> QED BY <2>3, <2>5 DEF s, IsDue
  <1> QED BY <1>1, <1>2

\* What any poll does to the rotation and to the answers.
LEMMA PollKeepsRotation ==
    ASSUME RotationInv, NEW r, NEW table, Poll(r, table),
           DOMAIN table = DOMAIN subscriptions,
           \A id \in DOMAIN table : /\ table[id] \in Subscription
                                    /\ IsDue(table[id]) = IsDue(subscriptions[id])
    PROVE  /\ RotationInv'
           /\ \A q \in Requests : answers'[q] # answers[q] =>
                 \A id \in SubscriptionIds : answers'[q].id \notin overtaken[id]
  <1>0. DOMAIN answers = Requests
    BY DEF RotationInv, SessionTypeOK
  <1>1. CASE PollAnswers(r, table)
    <2>1. RotationInv'
      BY <1>1, PollAnswersOneRound
    <2>2. PICK published \in DOMAIN table :
             /\ \E number, count :
                   answers' = [answers EXCEPT ![r] =
                                  Response(published, number, count)]
             /\ \A id \in SubscriptionIds : published \notin overtaken[id]
      BY <1>1, PollAnswersOneRound
    <2>3. PICK number, count :
             answers' = [answers EXCEPT ![r] = Response(published, number, count)]
      BY <2>2
    <2>4. ASSUME NEW q \in Requests, answers'[q] # answers[q]
          PROVE  answers'[q].id = published
      BY <1>0, <2>3, <2>4 DEF Response
    <2> QED BY <2>1, <2>2, <2>4
  <1>2. CASE PollNoSubscription(r, table)
    <2>1. /\ answers' = [answers EXCEPT ![r] = NoSubscription]
          /\ UNCHANGED <<session_vars, overtaken>>
      BY <1>2 DEF PollNoSubscription
    <2>2. RotationInv'
      BY <2>1 DEF RotationInv, SessionTypeOK, ListsEachOnce, OvertakersStandBehind,
                  ComesBefore, RotationOffset, IsDue, session_vars
    <2>3. ASSUME NEW q \in Requests, answers'[q] # answers[q]
          PROVE  answers'[q].id = 0
      BY <1>0, <2>1, <2>3 DEF NoSubscription
    <2>4. \A id \in SubscriptionIds : 0 \notin overtaken[id]
      BY DEF RotationInv, SessionTypeOK
    <2> QED BY <2>2, <2>3, <2>4
  <1>3. CASE PollWaits(r, table)
    <2>1. /\ subscriptions' = table
          /\ UNCHANGED <<publish_order, next_publish_index,
                         next_subscription_id, answers, overtaken>>
      BY <1>3 DEF PollWaits
    <2>2. RotationInv'
      BY <2>1, KeptAsDue
    <2> QED BY <2>1, <2>2
  <1> QED BY <1>1, <1>2, <1>3 DEF Poll

(***************************************************************************)
(* The steps of the whole loop.                                            *)
(***************************************************************************)
\* The answers a step writes are fair to everyone who waits.
AnswersAreFair ==
    \A r \in Requests :
        (answers'[r] # answers[r] /\ answers'[r] # None) =>
            \A id \in SubscriptionIds : answers'[r].id \notin overtaken[id]

\* The services of the session other than Publish.
LEMMA ServicesKeepRotation ==
    ASSUME RotationInv, SessionStep, ~\E r \in Requests : ResumePublish(r)
    PROVE  RotationInv' /\ UNCHANGED answers
  <1>0. \A id \in DOMAIN subscriptions : subscriptions[id] \in Subscription
    BY DEF RotationInv, SessionTypeOK
  <1>1. ASSUME NEW p \in Parameters, CreateSubscription(p)
        PROVE  RotationInv' /\ UNCHANGED answers
    <2>1. NewSubscription(p) \in Subscription
      BY DEF NewSubscription, Subscription
    <2> QED BY <1>1, <2>1, JoinedAtTheEnd DEF CreateSubscription, SubscriptionsBecome
  <1>2. ASSUME NEW p \in Parameters, TransferIn(p)
        PROVE  RotationInv' /\ UNCHANGED answers
    <2> DEFINE s == [NewSubscription(p) EXCEPT !.pending = MaxPerPublish + 1,
                                               !.queued = MaxPerPublish + 1,
                                               !.elapsed = MaxElapsed]
    <2>1. /\ NewSubscription(p) \in Subscription
          /\ MaxPerPublish + 1 \in Nat /\ MaxElapsed \in Nat
      BY ServerSessionAssumption DEF NewSubscription, Subscription
    <2>2. s \in Subscription
      <3> DEFINE new == NewSubscription(p)
      <3> HIDE DEF new
      <3>1. [new EXCEPT !.pending = MaxPerPublish + 1, !.queued = MaxPerPublish + 1,
                        !.elapsed = MaxElapsed] \in Subscription
        BY <2>1 DEF Subscription, new
      <3> QED BY <3>1 DEF new
    <2>3. /\ SubscriptionsBecome(With(subscriptions, next_subscription_id, s))
          /\ publish_order' = Append(publish_order, next_subscription_id)
          /\ next_subscription_id' = next_subscription_id + 1
          /\ UNCHANGED next_publish_index
      BY <1>2 DEF TransferIn
    <2> HIDE DEF s
    <2> QED BY <2>2, <2>3, JoinedAtTheEnd DEF SubscriptionsBecome
  <1>3. ASSUME NEW id, DeleteSubscription(id)
        PROVE  RotationInv' /\ UNCHANGED answers
    BY <1>3, ErasedFromOrder DEF DeleteSubscription, SubscriptionsBecome
  <1>4. ASSUME NEW table, SubscriptionsBecome(table),
               DOMAIN table = DOMAIN subscriptions,
               \A id \in DOMAIN table : table[id] \in Subscription,
               UNCHANGED <<publish_order, next_publish_index, next_subscription_id>>
        PROVE  RotationInv' /\ UNCHANGED answers
    BY <1>4, ChangedInPlace DEF SubscriptionsBecome
  <1>5. ASSUME NEW id, NEW p \in Parameters, ModifySubscription(id, p)
        PROVE  RotationInv' /\ UNCHANGED answers
    <2> DEFINE table == [subscriptions EXCEPT ![id].parameters = p, ![id].enabled = TRUE]
    <2>1. \A other \in DOMAIN table : table[other] \in Subscription
      BY <1>0 DEF Subscription
    <2>2. DOMAIN table = DOMAIN subscriptions
      OBVIOUS
    <2> QED BY <1>4, <1>5, <2>1, <2>2 DEF ModifySubscription
  <1>6. ASSUME NEW id, NEW enabled \in BOOLEAN, SetPublishingMode(id, enabled)
        PROVE  RotationInv' /\ UNCHANGED answers
    <2> DEFINE table == [subscriptions EXCEPT ![id].enabled = enabled]
    <2>1. \A other \in DOMAIN table : table[other] \in Subscription
      BY <1>0 DEF Subscription
    <2>2. DOMAIN table = DOMAIN subscriptions
      OBVIOUS
    <2> QED BY <1>4, <1>6, <2>1, <2>2 DEF SetPublishingMode
  <1>7. ASSUME NEW id, QueueNotification(id)
        PROVE  RotationInv' /\ UNCHANGED answers
    <2> DEFINE table == [subscriptions EXCEPT ![id].pending = @ + 1,
                                              ![id].queued = @ + 1]
    <2>1. \A other \in DOMAIN table : table[other] \in Subscription
      BY <1>0 DEF Subscription
    <2>2. DOMAIN table = DOMAIN subscriptions
      OBVIOUS
    <2> QED BY <1>4, <1>7, <2>1, <2>2 DEF QueueNotification
  <1>8. ASSUME TimePasses
        PROVE  RotationInv' /\ UNCHANGED answers
    <2> DEFINE Older(s) == [s EXCEPT !.elapsed = IF @ < MaxElapsed THEN @ + 1 ELSE @]
               table == [id \in DOMAIN subscriptions |-> Older(subscriptions[id])]
    <2>1. \A id \in DOMAIN table : table[id] \in Subscription
      <3>1. ASSUME NEW s \in Subscription PROVE Older(s) \in Subscription
        BY DEF Subscription
      <3> QED BY <1>0, <3>1
    <2>2. DOMAIN table = DOMAIN subscriptions
      OBVIOUS
    <2>3. /\ subscriptions' = table
          /\ overtaken' = Overtakers(table, {})
          /\ UNCHANGED <<publish_order, next_publish_index, next_subscription_id,
                         answers>>
      BY <1>8 DEF TimePasses
    <2> HIDE DEF table
    <2> QED BY <2>1, <2>2, <2>3, ChangedInPlace
  <1> QED BY <1>1, <1>2, <1>3, <1>5, <1>6, <1>7, <1>8 DEF SessionStep

\* A sleeping handler polls again, a new request polls for the first time.
LEMMA HandlersKeepRotation ==
    ASSUME RotationInv, NEW r,
           ResumePublish(r) \/ \E acks : HandlePublish(r, acks)
    PROVE  RotationInv' /\ AnswersAreFair
  <1>1. CASE ResumePublish(r)
    <2>1. \A id \in DOMAIN subscriptions : subscriptions[id] \in Subscription
      BY DEF RotationInv, SessionTypeOK
    <2>2. Poll(r, subscriptions)
      BY <1>1 DEF ResumePublish
    <2> QED BY <2>1, <2>2, PollKeepsRotation DEF AnswersAreFair
  <1>2. ASSUME NEW acks, HandlePublish(r, acks)
        PROVE  RotationInv' /\ AnswersAreFair
    <2> DEFINE table == Acknowledged(subscriptions, acks)
    <2>1. Poll(r, table)
      BY <1>2 DEF HandlePublish
    <2>2. /\ DOMAIN table = DOMAIN subscriptions
          /\ \A id \in DOMAIN table :
                /\ table[id] \in Subscription
                /\ IsDue(table[id]) = IsDue(subscriptions[id])
      BY AcknowledgedIsAsDue
    <2> HIDE DEF table
    <2> QED BY <2>1, <2>2, PollKeepsRotation DEF AnswersAreFair
  <1> QED BY <1>1, <1>2

\* Steps of the client and the channel: the session is not concerned, and
\* answers are only taken away.
LEMMA ClientKeepsRotation ==
    ASSUME RotationInv, UNCHANGED <<session_vars, overtaken>>,
           DOMAIN answers' = DOMAIN answers,
           \A r \in Requests : answers'[r] \in {answers[r], None}
    PROVE  RotationInv' /\ AnswersAreFair
  <1>1. SessionTypeOK'
    BY DEF RotationInv, SessionTypeOK, session_vars
  <1>2. ListsEachOnce'
    BY DEF RotationInv, ListsEachOnce, session_vars
  <1>3. OvertakersStandBehind'
    BY DEF RotationInv, OvertakersStandBehind, ComesBefore, RotationOffset, IsDue,
           session_vars
  <1>4. AnswersAreFair
    BY DEF AnswersAreFair
  <1> QED BY <1>1, <1>2, <1>3, <1>4 DEF RotationInv

\* Every step of the server and of the client keeps the rotation: one case per
\* action of Next.
LEMMA StepKeepsRotation ==
    ASSUME RotationInv, [Next]_vars
    PROVE  RotationInv' /\ AnswersAreFair
  <1>0. DOMAIN answers = Requests
    BY DEF RotationInv, SessionTypeOK
  <1>1. CASE SessionStep
    <2>1. CASE \E r \in Requests : ResumePublish(r)
      BY <2>1, HandlersKeepRotation
    <2>2. CASE ~\E r \in Requests : ResumePublish(r)
      <3>1. RotationInv' /\ UNCHANGED answers
        BY <1>1, <2>2, ServicesKeepRotation
      <3> QED BY <3>1 DEF AnswersAreFair
    <2> QED BY <2>1, <2>2
  <1>2. CASE DeliverRequest
    BY <1>2, HandlersKeepRotation DEF DeliverRequest
  <1>3. CASE HandlePublishResponse
    <2>1. /\ UNCHANGED <<session_vars, overtaken>>
          /\ answers' = [answers EXCEPT ![receiving] = None]
      BY <1>3 DEF HandlePublishResponse
    <2>2. /\ DOMAIN answers' = DOMAIN answers
          /\ \A r \in Requests : answers'[r] \in {answers[r], None}
      BY <1>0, <2>1
    <2> QED BY <2>1, <2>2, ClientKeepsRotation
  <1>4. CASE ConnectionLost
    <2>1. /\ UNCHANGED <<session_vars, overtaken>>
          /\ answers' = [r \in Requests |-> None]
      BY <1>4 DEF ConnectionLost
    <2>2. /\ DOMAIN answers' = DOMAIN answers
          /\ \A r \in Requests : answers'[r] \in {answers[r], None}
      BY <1>0, <2>1
    <2> QED BY <2>1, <2>2, ClientKeepsRotation
  <1>5. CASE \/ SendPublishRequest \/ Receive \/ PublishFails \/ StartPublishLoop
             \/ UNCHANGED vars
    <2>1. UNCHANGED server_vars
      BY <1>5 DEF SendPublishRequest, Receive, PublishFails, StartPublishLoop, vars
    <2> QED BY <2>1, ClientKeepsRotation DEF server_vars
  <1> QED BY <1>1, <1>2, <1>3, <1>4, <1>5 DEF Next

\* The rotation is in order in every state of the loop: the inductive invariant
\* the two theorems below rest on.
THEOREM RotationInductive == Spec => []RotationInv
  <1>1. Init => RotationInv
    BY DEF Init, SessionInit, RotationInv, SessionTypeOK, ListsEachOnce,
           OvertakersStandBehind
  <1>2. RotationInv /\ [Next]_vars => RotationInv'
    BY StepKeepsRotation
  <1> QED BY <1>1, <1>2, PTL DEF Spec

\* CreateSubscriptionWithId, EraseSubscription, AdvancePublishCursorAfter: for any
\* number of subscriptions publish_order_ lists each of them exactly once and
\* next_publish_index_ never leaves it.
THEOREM OrderStaysExact == Spec => []OrderIsExact
  <1>1. RotationInv => OrderIsExact
    <2> SUFFICES ASSUME RotationInv PROVE OrderIsExact
      OBVIOUS
    <2> DEFINE n == Len(publish_order)
    <2>1. /\ n \in Nat /\ DOMAIN publish_order = 1..n
          /\ publish_order \in [1..n -> Nat \ {0}]
      BY DEF RotationInv, SessionTypeOK
    <2>2. ToSet(publish_order) = DOMAIN subscriptions
      <3>1. \A x \in ToSet(publish_order) : x \in DOMAIN subscriptions
        BY <2>1 DEF RotationInv, ListsEachOnce, ToSet
      <3>2. \A x \in DOMAIN subscriptions : x \in ToSet(publish_order)
        BY <2>1 DEF RotationInv, ListsEachOnce, ToSet
      <3> QED BY <3>1, <3>2
    <2>3. publish_order \in Bijection(1..n, DOMAIN subscriptions)
      BY <2>1 DEF RotationInv, ListsEachOnce, Bijection, Injection, Surjection,
                  IsInjective
    <2>4. IsFiniteSet(1..n) /\ Cardinality(1..n) = n
      BY <2>1, FS_Interval
    <2>5. Cardinality(DOMAIN subscriptions) = n
      BY <2>3, <2>4, FS_Bijection DEF ExistsBijection
    <2> QED BY <2>2, <2>5 DEF OrderIsExact, RotationInv, ListsEachOnce
  <1> QED BY <1>1, RotationInductive, PTL

\* FindNextReadySubscription and AdvancePublishCursorAfter: for any number of
\* subscriptions and requests, while one of them is due with something to
\* publish no other one is published twice.
THEOREM RotationIsFair == Spec => NobodyOvertakesTwice
  <1>1. RotationInv /\ [Next]_vars => [AnswersAreFair]_server_vars
    BY StepKeepsRotation
  <1>2. RotationInv /\ [Next]_vars =>
          [\A r \in Requests :
             (answers'[r] # answers[r] /\ answers'[r] # None) =>
                \A id \in SubscriptionIds : answers'[r].id \notin overtaken[id]
          ]_server_vars
    BY <1>1 DEF AnswersAreFair
  <1> QED BY <1>2, RotationInductive, PTL DEF Spec, NobodyOvertakesTwice
=============================================================================
