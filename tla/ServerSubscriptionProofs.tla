------------------------ MODULE ServerSubscriptionProofs ------------------------
(***************************************************************************)
(* Proofs about a whole subscription, for any number of items, parameters, *)
(* bindings, limits and batches.                                           *)
(*                                                                         *)
(* The notification queue first: the retained total is exact and bounded,  *)
(* notifications are delivered in order and none is lost.  Facts about its *)
(* recursive functions are proved over their bounded domains 0..n, by      *)
(* StepwiseInduction: the set of the numbers for which a fact holds        *)
(* contains 0 and, with k, also k + 1.                                     *)
(*                                                                         *)
(* Then the subscription around it: no binding on the backing subscription *)
(* is leaked or released under an item that uses it; the publishing half   *)
(* implements the notification queue whatever the items do, so that        *)
(* everything proved of the queue holds here; and an item's share of the   *)
(* deque only grows within its limit.                                      *)
(***************************************************************************)
EXTENDS ServerSubscription, FiniteSetTheorems, SequenceTheorems, TLAPS

(***************************************************************************)
(* Numbers and sequences.                                                  *)
(***************************************************************************)
\* A non-empty set of natural numbers has a least one.
LEMMA LeastNumber ==
    ASSUME NEW S, S \subseteq Nat, S # {}
    PROVE  \E x \in S : \A y \in S : x <= y
  <1> DEFINE R == {p \in Nat \X Nat : p[1] < p[2]}
  <1>1. IsWellFoundedOn(R, Nat)
    BY NatLessThanWellFounded, Zenon DEF OpToRel
  <1>2. PICK x \in S : \A y \in S : <<y, x>> \notin R
    <2> HIDE DEF R
    <2> QED BY WFMin, <1>1
  <1>3. ASSUME NEW y \in S, y < x PROVE <<y, x>> \in R
    BY <1>3
  <1>4. \A y \in S : ~(y < x)
    BY <1>2, <1>3
  <1> QED BY <1>4

\* Min of a non-empty set of natural numbers.
LEMMA MinFacts ==
    ASSUME NEW S, S \subseteq Nat, S # {}
    PROVE  Min(S) \in S /\ \A x \in S : Min(S) <= x
  BY LeastNumber DEF Min

\* Induction over a bounded range, the statement being membership of a set.
LEMMA StepwiseInduction ==
    ASSUME NEW n \in Nat, NEW S, 0 \in S,
           \A k \in 0..(n - 1) : k \in S => k + 1 \in S
    PROVE  \A k \in 0..n : k \in S
  <1> DEFINE rest == {k \in 0..n : k \notin S}
  <1>1. SUFFICES ASSUME rest # {} PROVE FALSE
    OBVIOUS
  <1>2. PICK x \in rest : \A y \in rest : x <= y
    <2>1. rest \subseteq Nat
      OBVIOUS
    <2> HIDE DEF rest
    <2> QED BY <1>1, <2>1, LeastNumber
  <1>3. x # 0 /\ x - 1 \in 0..(n - 1) /\ x - 1 \notin rest
    BY <1>2
  <1>4. x - 1 \in S
    BY <1>3
  <1>5. (x - 1) + 1 \in S
    BY <1>3, <1>4
  <1> QED BY <1>5

\* What RemoveAt leaves: the entries behind the position move up by one.
LEMMA RemoveAtFacts ==
    ASSUME NEW S, NEW s \in Seq(S), NEW p \in 1..Len(s)
    PROVE  /\ RemoveAt(s, p) \in Seq(S)
           /\ Len(RemoveAt(s, p)) = Len(s) - 1
           /\ \A i \in 1..(Len(s) - 1) :
                 RemoveAt(s, p)[i] = IF i < p THEN s[i] ELSE s[i + 1]
  <1> DEFINE front == SubSeq(s, 1, p - 1)
             back == SubSeq(s, p + 1, Len(s))
  <1>1. /\ front \in Seq(S) /\ Len(front) = p - 1
        /\ \A i \in 1..(p - 1) : front[i] = s[i]
    OBVIOUS
  <1>2. /\ back \in Seq(S) /\ Len(back) = Len(s) - p
        /\ \A i \in 1..(Len(s) - p) : back[i] = s[p + i]
    OBVIOUS
  <1> HIDE DEF front, back
  <1>3. /\ front \o back \in Seq(S) /\ Len(front \o back) = Len(s) - 1
        /\ \A i \in 1..(Len(s) - 1) :
              (front \o back)[i] = IF i < p THEN front[i] ELSE back[i - (p - 1)]
    <2>1. /\ front \o back \in Seq(S)
          /\ Len(front \o back) = Len(front) + Len(back)
          /\ \A i \in 1..(Len(front) + Len(back)) : (front \o back)[i] =
                IF i <= Len(front) THEN front[i] ELSE back[i - Len(front)]
      BY <1>1, <1>2, ConcatProperties
    <2>2. Len(front) + Len(back) = Len(s) - 1
      BY <1>1, <1>2
    <2> QED BY <1>1, <2>1, <2>2
  <1>4. ASSUME NEW i \in 1..(Len(s) - 1)
        PROVE  (front \o back)[i] = IF i < p THEN s[i] ELSE s[i + 1]
    BY <1>1, <1>2, <1>3
  <1> QED BY <1>3, <1>4 DEF RemoveAt, front, back

(***************************************************************************)
(* How many notifications a queue carries.                                 *)
(***************************************************************************)
Entry == [source : Items, serial : Nat]
Message == [sequence_number : Nat, notification_data : Seq(Entry)]

\* The recursive definition of Totals defines a function.
LEMMA TotalsFacts ==
    ASSUME NEW queue \in Seq(Message)
    PROVE  /\ Totals(queue) \in [0..Len(queue) -> Nat]
           /\ Totals(queue)[0] = 0
           /\ \A n \in 1..Len(queue) : Totals(queue)[n] =
                 Totals(queue)[n - 1] + Len(queue[n].notification_data)
  <1> DEFINE len == Len(queue)
             size(n) == Len(queue[n].notification_data)
             Defines(g, k) ==
                g = [n \in 0..k |-> IF n = 0 THEN 0 ELSE g[n - 1] + size(n)]
             defined == {k \in 0..len : \E g : Defines(g, k)}
  <1>1. len \in Nat
    OBVIOUS
  <1>2. \A k \in 0..len : k \in defined
    <2>1. 0 \in defined
      <3>1. Defines([n \in 0..0 |-> 0], 0)
        OBVIOUS
      <3>2. 0 \in 0..len
        BY <1>1
      <3> HIDE DEF Defines
      <3> QED BY <3>1, <3>2
    <2>2. ASSUME NEW k \in 0..(len - 1), k \in defined
          PROVE  k + 1 \in defined
      <3>1. PICK g : Defines(g, k)
        BY <2>2
      <3> DEFINE h == [n \in 0..(k + 1) |-> IF n = k + 1 THEN g[k] + size(k + 1) ELSE g[n]]
      <3>2. Defines(h, k + 1)
        BY <3>1
      <3>3. k + 1 \in 0..len
        BY <1>1
      <3> HIDE DEF Defines, h
      <3> QED BY <3>2, <3>3
    <2> HIDE DEF defined, len
    <2> QED BY <1>1, <2>1, <2>2, StepwiseInduction
  <1> DEFINE total == CHOOSE g : Defines(g, len)
  <1>3. Defines(total, len)
    <2>1. len \in 0..len
      BY <1>1
    <2>2. \E g : Defines(g, len)
      BY <1>2, <2>1
    <2> HIDE DEF Defines, len
    <2> QED BY <2>2
  <1>4. Totals(queue) = total
    BY DEF Totals
  <1> HIDE DEF total
  <1>5. /\ DOMAIN total = 0..len /\ total[0] = 0
        /\ \A n \in 1..len : total[n] = total[n - 1] + size(n)
    BY <1>1, <1>3
  <1>6. \A n \in 1..len : size(n) \in Nat
    BY DEF Message
  <1>7. \A n \in 0..len : total[n] \in Nat
    <2> DEFINE natural == {k \in 0..len : total[k] \in Nat}
    <2>1. 0 \in natural
      BY <1>1, <1>5
    <2>2. ASSUME NEW k \in 0..(len - 1), k \in natural PROVE k + 1 \in natural
      <3>1. k + 1 \in 1..len /\ (k + 1) - 1 = k
        BY <1>1
      <3>2. total[k + 1] = total[k] + size(k + 1) /\ size(k + 1) \in Nat
        BY <1>5, <1>6, <3>1
      <3> HIDE DEF size, len
      <3> QED BY <2>2, <3>1, <3>2
    <2> HIDE DEF natural, len
    <2>3. \A k \in 0..len : k \in natural
      BY <1>1, <2>1, <2>2, StepwiseInduction
    <2> QED BY <2>3 DEF natural
  <1>8. total \in [0..len -> Nat]
    BY <1>3, <1>5, <1>7
  <1> QED BY <1>4, <1>5, <1>8

\* Queues that agree from some place on have totals that differ by a constant.
LEMMA TotalsShifted ==
    ASSUME NEW q \in Seq(Message), NEW r \in Seq(Message), NEW m \in Nat, NEW n \in Nat,
           m + n <= Len(q), n <= Len(r), \A i \in 1..n : r[i] = q[m + i]
    PROVE  \A i \in 0..n : Totals(r)[i] = Totals(q)[m + i] - Totals(q)[m]
  <1> DEFINE agree == {i \in 0..n : Totals(r)[i] = Totals(q)[m + i] - Totals(q)[m]}
  <1>1. /\ \A i \in 0..Len(q) : Totals(q)[i] \in Nat
        /\ \A i \in 1..Len(q) : Totals(q)[i] =
              Totals(q)[i - 1] + Len(q[i].notification_data)
    BY TotalsFacts
  <1>2. /\ \A i \in 0..Len(r) : Totals(r)[i] \in Nat
        /\ Totals(r)[0] = 0
        /\ \A i \in 1..Len(r) : Totals(r)[i] =
              Totals(r)[i - 1] + Len(r[i].notification_data)
    BY TotalsFacts
  <1>3. 0 \in agree
    BY <1>1, <1>2
  <1>4. ASSUME NEW k \in 0..(n - 1), k \in agree PROVE k + 1 \in agree
    <2>1. /\ k + 1 \in 1..n /\ k + 1 \in 1..Len(r) /\ (k + 1) - 1 = k
          /\ m + (k + 1) \in 1..Len(q) /\ (m + (k + 1)) - 1 = m + k
          /\ m + k \in 0..Len(q) /\ m \in 0..Len(q)
      OBVIOUS
    <2>2. Totals(r)[k + 1] = Totals(r)[k] + Len(r[k + 1].notification_data)
      BY <1>2, <2>1
    <2>3. Totals(q)[m + (k + 1)] =
             Totals(q)[m + k] + Len(q[m + (k + 1)].notification_data)
      BY <1>1, <2>1
    <2>4. r[k + 1] = q[m + (k + 1)]
      BY <2>1
    <2>5. /\ Totals(q)[m + k] \in Nat /\ Totals(q)[m] \in Nat
          /\ Len(r[k + 1].notification_data) \in Nat
      <3>1. r[k + 1] \in Message
        BY <2>1
      <3>2. \A message \in Message : Len(message.notification_data) \in Nat
        BY DEF Message
      <3>3. Totals(q)[m + k] \in Nat /\ Totals(q)[m] \in Nat
        BY <1>1, <2>1
      <3> QED BY <3>1, <3>2, <3>3
    <2>6. Totals(r)[k] = Totals(q)[m + k] - Totals(q)[m]
      BY <1>4
    <2>7. Totals(r)[k + 1] = Totals(q)[m + (k + 1)] - Totals(q)[m]
      BY <2>2, <2>3, <2>4, <2>5, <2>6
    <2> QED BY <2>1, <2>7
  <1> HIDE DEF agree
  <1>5. \A i \in 0..n : i \in agree
    BY <1>3, <1>4, StepwiseInduction
  <1> QED BY <1>5 DEF agree

\* A message at the back adds its own notifications to the count.
LEMMA NotificationsOfAppend ==
    ASSUME NEW queue \in Seq(Message), NEW message \in Message
    PROVE  /\ Notifications(Append(queue, message)) =
                 Notifications(queue) + Len(message.notification_data)
           /\ Notifications(queue) \in Nat
  <1> DEFINE longer == Append(queue, message)
             len == Len(queue)
  <1>1. /\ longer \in Seq(Message) /\ Len(longer) = len + 1 /\ len \in Nat
        /\ longer[len + 1] = message
        /\ \A i \in 1..len : queue[i] = longer[0 + i]
    OBVIOUS
  <1>2. Totals(longer)[0] = 0 /\ \A i \in 0..(len + 1) : Totals(longer)[i] \in Nat
    BY <1>1, TotalsFacts
  <1>3. Totals(longer)[len + 1] =
           Totals(longer)[(len + 1) - 1] + Len(longer[len + 1].notification_data)
    <2>1. len + 1 \in 1..Len(longer)
      BY <1>1
    <2> QED BY <1>1, <2>1, TotalsFacts
  <1>4. Totals(queue)[len] = Totals(longer)[0 + len] - Totals(longer)[0]
    <2>1. 0 + len <= Len(longer) /\ len <= Len(queue) /\ len \in 0..len /\ 0 \in Nat
      BY <1>1
    <2> HIDE DEF longer, len
    <2> QED BY <1>1, <2>1, TotalsShifted
  <1>5. 0 + len = len /\ (len + 1) - 1 = len /\ len \in 0..(len + 1)
    BY <1>1
  <1> HIDE DEF longer, len
  <1>6. Totals(queue)[len] = Totals(longer)[len] /\ Totals(longer)[len] \in Nat
    BY <1>2, <1>4, <1>5
  <1> QED BY <1>1, <1>3, <1>5, <1>6 DEF Notifications, longer, len

\* What is left when the oldest messages are evicted.
LEMMA NotificationsOfRest ==
    ASSUME NEW queue \in Seq(Message), NEW n \in 0..Len(queue)
    PROVE  /\ Notifications(SubSeq(queue, n + 1, Len(queue))) =
                 Notifications(queue) - Totals(queue)[n]
           /\ Totals(queue)[n] \in Nat
  <1> DEFINE rest == SubSeq(queue, n + 1, Len(queue))
             len == Len(queue) - n
  <1>1. /\ rest \in Seq(Message) /\ Len(rest) = len /\ len \in Nat
        /\ \A i \in 1..len : rest[i] = queue[n + i]
    OBVIOUS
  <1>2. n + len = Len(queue) /\ len \in 0..len
    BY <1>1
  <1>3. Totals(rest)[len] = Totals(queue)[n + len] - Totals(queue)[n]
    <2>1. n + len <= Len(queue) /\ len <= Len(rest) /\ n \in Nat
      BY <1>1
    <2> HIDE DEF rest, len
    <2> QED BY <1>1, <1>2, <2>1, TotalsShifted
  <1>4. Totals(queue)[n] \in Nat
    BY TotalsFacts
  <1> QED BY <1>1, <1>2, <1>3, <1>4 DEF Notifications

(***************************************************************************)
(* What is kept of a sequence.                                             *)
(***************************************************************************)
\* r is q with some entries left out: e tells where each one was.
Embeds(e, r, q) ==
    /\ e \in [1..Len(r) -> 1..Len(q)]
    /\ \A i, j \in 1..Len(r) : i < j => e[i] < e[j]
    /\ \A i \in 1..Len(r) : r[i] = q[e[i]]

\* The recursive definition of Kept defines a function.
LEMMA KeptFacts ==
    ASSUME NEW S, NEW seq \in Seq(S), NEW keep
    PROVE  /\ Kept(seq, keep)[0] = <<>>
           /\ \A k \in 1..Len(seq) : Kept(seq, keep)[k] =
                 IF k \in keep THEN Append(Kept(seq, keep)[k - 1], seq[k])
                 ELSE Kept(seq, keep)[k - 1]
           /\ \A k \in 0..Len(seq) : Kept(seq, keep)[k] \in Seq(S)
  <1> DEFINE len == Len(seq)
             Next1(s, k) == IF k \in keep THEN Append(s, seq[k]) ELSE s
             Defines(g, n) ==
                g = [k \in 0..n |-> IF k = 0 THEN <<>> ELSE Next1(g[k - 1], k)]
             defined == {k \in 0..len : \E g : Defines(g, k)}
  <1>1. len \in Nat
    OBVIOUS
  <1>2. \A k \in 0..len : k \in defined
    <2>1. 0 \in defined
      <3>1. Defines([k \in 0..0 |-> <<>>], 0)
        OBVIOUS
      <3>2. 0 \in 0..len
        BY <1>1
      <3> HIDE DEF Defines
      <3> QED BY <3>1, <3>2
    <2>2. ASSUME NEW k \in 0..(len - 1), k \in defined
          PROVE  k + 1 \in defined
      <3>1. PICK g : Defines(g, k)
        BY <2>2
      <3> DEFINE h == [n \in 0..(k + 1) |->
                          IF n = k + 1 THEN Next1(g[k], k + 1) ELSE g[n]]
      <3>2. Defines(h, k + 1)
        <4> HIDE DEF Next1
        <4> QED BY <3>1
      <3>3. k + 1 \in 0..len
        BY <1>1
      <3> HIDE DEF Defines, h
      <3> QED BY <3>2, <3>3
    <2> HIDE DEF defined, len
    <2> QED BY <1>1, <2>1, <2>2, StepwiseInduction
  <1> DEFINE kept == CHOOSE g : Defines(g, len)
  <1>3. Defines(kept, len)
    <2>1. len \in 0..len
      BY <1>1
    <2>2. \E g : Defines(g, len)
      BY <1>2, <2>1
    <2> HIDE DEF Defines, len
    <2> QED BY <2>2
  <1>4. Kept(seq, keep) = kept
    BY DEF Kept
  <1> HIDE DEF kept
  <1>5. kept[0] = <<>> /\ \A k \in 1..len : kept[k] = Next1(kept[k - 1], k)
    <2> HIDE DEF Next1
    <2> QED BY <1>1, <1>3
  <1>6. \A k \in 0..len : kept[k] \in Seq(S)
    <2> DEFINE typed == {k \in 0..len : kept[k] \in Seq(S)}
    <2>1. 0 \in typed
      <3>1. 0 \in 0..len /\ <<>> \in Seq(S)
        BY <1>1
      <3> QED BY <1>5, <3>1
    <2>2. ASSUME NEW k \in 0..(len - 1), k \in typed PROVE k + 1 \in typed
      <3>1. k + 1 \in 1..len /\ k + 1 \in 0..len /\ (k + 1) - 1 = k
        BY <1>1
      <3>2. kept[k + 1] = Next1(kept[k], k + 1)
        BY <1>5, <3>1
      <3>3. kept[k] \in Seq(S) /\ seq[k + 1] \in S
        BY <2>2, <3>1
      <3>4. Next1(kept[k], k + 1) \in Seq(S)
        BY <3>3
      <3> QED BY <3>1, <3>2, <3>4
    <2> HIDE DEF typed, len
    <2>3. \A k \in 0..len : k \in typed
      BY <1>1, <2>1, <2>2, StepwiseInduction
    <2> QED BY <2>3 DEF typed
  <1> QED BY <1>4, <1>5, <1>6

\* KeepAt leaves the order as it is and keeps exactly the chosen places.
LEMMA KeepAtEmbeds ==
    ASSUME NEW S, NEW seq \in Seq(S), NEW keep
    PROVE  /\ KeepAt(seq, keep) \in Seq(S)
           /\ \E e : /\ Embeds(e, KeepAt(seq, keep), seq)
                     /\ \A i \in DOMAIN e : e[i] \in keep
                     /\ \A k \in 1..Len(seq) : k \in keep =>
                           \E i \in DOMAIN e : e[i] = k
  <1> DEFINE len == Len(seq)
             kept == Kept(seq, keep)
             \* Of the first k entries, e tells where those that are kept were.
             Places(e, k) ==
                /\ e \in [1..Len(kept[k]) -> 1..k]
                /\ \A i, j \in 1..Len(kept[k]) : i < j => e[i] < e[j]
                /\ \A i \in 1..Len(kept[k]) : kept[k][i] = seq[e[i]] /\ e[i] \in keep
                /\ \A n \in 1..k : n \in keep => \E i \in 1..Len(kept[k]) : e[i] = n
             placed == {k \in 0..len : \E e : Places(e, k)}
  <1>0. len \in Nat
    OBVIOUS
  <1>1. /\ kept[0] = <<>>
        /\ \A k \in 1..len : kept[k] =
              IF k \in keep THEN Append(kept[k - 1], seq[k]) ELSE kept[k - 1]
        /\ \A k \in 0..len : kept[k] \in Seq(S)
    BY KeptFacts
  <1> HIDE DEF kept
  <1>2. 0 \in placed
    <2>1. Len(kept[0]) = 0 /\ 0 \in 0..len
      BY <1>0, <1>1
    <2>2. Places([i \in 1..0 |-> 0], 0)
      BY <2>1
    <2> HIDE DEF Places
    <2> QED BY <2>1, <2>2
  <1>3. ASSUME NEW k \in 0..(len - 1), k \in placed PROVE k + 1 \in placed
    <2>1. k + 1 \in 1..len /\ k + 1 \in 0..len /\ (k + 1) - 1 = k /\ k \in 0..len
      BY <1>0
    <2>2. PICK e : Places(e, k)
      BY <1>3
    <2>3. /\ kept[k + 1] = IF k + 1 \in keep THEN Append(kept[k], seq[k + 1]) ELSE kept[k]
          /\ kept[k] \in Seq(S) /\ seq[k + 1] \in S
      BY <1>1, <2>1
    <2> DEFINE n == Len(kept[k])
    <2>4. n \in Nat
      BY <2>3
    <2>5. CASE k + 1 \notin keep
      <3>1. kept[k + 1] = kept[k]
        BY <2>3, <2>5
      <3>2. e \in [1..n -> 1..(k + 1)]
        BY <2>2, <2>4
      <3>3. \A m \in 1..(k + 1) : m \in keep => \E i \in 1..n : e[i] = m
        BY <2>2, <2>4, <2>5
      <3>4. Places(e, k + 1)
        BY <2>2, <3>1, <3>2, <3>3
      <3> HIDE DEF Places
      <3> QED BY <2>1, <3>4
    <2>6. CASE k + 1 \in keep
      <3>1. /\ Len(kept[k + 1]) = n + 1
            /\ \A i \in 1..n : kept[k + 1][i] = kept[k][i]
            /\ kept[k + 1][n + 1] = seq[k + 1]
        BY <2>3, <2>6
      <3> DEFINE f == [i \in 1..(n + 1) |-> IF i = n + 1 THEN k + 1 ELSE e[i]]
      <3>0. e \in [1..n -> 1..k]
        BY <2>2
      <3> HIDE DEF n
      <3>2. /\ \A i \in 1..n : f[i] = e[i] /\ e[i] \in 1..k
            /\ f[n + 1] = k + 1
        BY <2>4, <3>0
      <3>3. f \in [1..(n + 1) -> 1..(k + 1)]
        BY <2>4, <3>0
      <3> HIDE DEF f
      <3>4. \A i, j \in 1..(n + 1) : i < j => f[i] < f[j]
        <4>1. \A i, j \in 1..n : i < j => e[i] < e[j]
          BY <2>2 DEF n
        <4> QED BY <2>4, <3>2, <4>1
      <3>5. ASSUME NEW i \in 1..(n + 1)
            PROVE  kept[k + 1][i] = seq[f[i]] /\ f[i] \in keep
        <4>1. \A j \in 1..n : kept[k][j] = seq[e[j]] /\ e[j] \in keep
          BY <2>2 DEF n
        <4> QED BY <2>4, <2>6, <3>1, <3>2, <4>1
      <3>6. ASSUME NEW m \in 1..(k + 1), m \in keep
            PROVE  \E i \in 1..(n + 1) : f[i] = m
        <4>1. CASE m = k + 1
          BY <2>4, <3>2, <4>1
        <4>2. CASE m # k + 1
          <5>1. m \in 1..k
            BY <4>2
          <5>2. PICK i \in 1..n : e[i] = m
            BY <2>2, <3>6, <5>1 DEF n
          <5>3. i \in 1..(n + 1)
            BY <2>4
          <5> QED BY <3>2, <5>2, <5>3
        <4> QED BY <4>1, <4>2
      <3>7. Places(f, k + 1)
        BY <3>1, <3>3, <3>4, <3>5, <3>6
      <3> HIDE DEF Places
      <3> QED BY <2>1, <3>7
    <2> QED BY <2>5, <2>6
  <1>4. len \in placed
    <2> HIDE DEF placed, len
    <2>1. \A k \in 0..len : k \in placed
      BY <1>0, <1>2, <1>3, StepwiseInduction
    <2> QED BY <1>0, <2>1
  <1>5. PICK e : Places(e, len)
    BY <1>4
  <1>6. KeepAt(seq, keep) = kept[len]
    BY DEF KeepAt, kept
  <1>7. KeepAt(seq, keep) \in Seq(S)
    BY <1>0, <1>1, <1>6
  <1>8. Embeds(e, KeepAt(seq, keep), seq)
    BY <1>5, <1>6 DEF Embeds
  <1>9. /\ \A i \in DOMAIN e : e[i] \in keep
        /\ \A k \in 1..len : k \in keep => \E i \in DOMAIN e : e[i] = k
    BY <1>5
  <1> QED BY <1>7, <1>8, <1>9

\* What is kept and what is not carry together what there was.
LEMMA NotificationsOfKeepAt ==
    ASSUME NEW queue \in Seq(Message), NEW places \in SUBSET DOMAIN queue
    PROVE  Notifications(KeepAt(queue, DOMAIN queue \ places)) =
              Notifications(queue) - Notifications(KeepAt(queue, places))
  <1> DEFINE len == Len(queue)
             in == Kept(queue, places)
             out == Kept(queue, DOMAIN queue \ places)
             shared == {k \in 0..len : Notifications(out[k]) =
                           Totals(queue)[k] - Notifications(in[k])}
  <1>0. len \in Nat /\ DOMAIN queue = 1..len
    OBVIOUS
  <1>1. /\ in[0] = <<>>
        /\ \A k \in 1..len : in[k] =
              IF k \in places THEN Append(in[k - 1], queue[k]) ELSE in[k - 1]
        /\ \A k \in 0..len : in[k] \in Seq(Message)
    BY KeptFacts
  <1>2. /\ out[0] = <<>>
        /\ \A k \in 1..len : out[k] =
              IF k \in DOMAIN queue \ places THEN Append(out[k - 1], queue[k])
              ELSE out[k - 1]
        /\ \A k \in 0..len : out[k] \in Seq(Message)
    BY KeptFacts
  <1>3. /\ Totals(queue)[0] = 0
        /\ \A k \in 0..len : Totals(queue)[k] \in Nat
        /\ \A k \in 1..len : Totals(queue)[k] =
              Totals(queue)[k - 1] + Len(queue[k].notification_data)
    BY TotalsFacts
  <1> HIDE DEF in, out
  <1>4. 0 \in shared
    <2>1. <<>> \in Seq(Message) /\ Len(<<>>) = 0
      OBVIOUS
    <2>2. Notifications(<<>>) = 0
      BY <2>1, TotalsFacts DEF Notifications
    <2> QED BY <1>0, <1>1, <1>2, <1>3, <2>2
  <1>5. ASSUME NEW k \in 0..(len - 1), k \in shared PROVE k + 1 \in shared
    <2>1. k + 1 \in 1..len /\ k + 1 \in 0..len /\ (k + 1) - 1 = k /\ k \in 0..len
      BY <1>0
    <2> DEFINE message == queue[k + 1]
    <2>2. /\ in[k] \in Seq(Message) /\ out[k] \in Seq(Message) /\ message \in Message
          /\ in[k + 1] = IF k + 1 \in places THEN Append(in[k], message) ELSE in[k]
          /\ out[k + 1] = IF k + 1 \in places THEN out[k] ELSE Append(out[k], message)
          /\ Totals(queue)[k + 1] = Totals(queue)[k] + Len(message.notification_data)
          /\ Totals(queue)[k] \in Nat
      BY <1>0, <1>1, <1>2, <1>3, <2>1
    <2>3. Notifications(out[k]) = Totals(queue)[k] - Notifications(in[k])
      BY <1>5
    <2> HIDE DEF message
    <2>4. /\ Notifications(Append(in[k], message)) =
                Notifications(in[k]) + Len(message.notification_data)
          /\ Notifications(Append(out[k], message)) =
                Notifications(out[k]) + Len(message.notification_data)
          /\ Notifications(in[k]) \in Nat /\ Notifications(out[k]) \in Nat
      BY <2>2, NotificationsOfAppend
    <2>5. Len(message.notification_data) \in Nat
      BY <2>2 DEF Message
    <2>6. Notifications(out[k + 1]) = Totals(queue)[k + 1] - Notifications(in[k + 1])
      BY <2>2, <2>3, <2>4, <2>5
    <2> QED BY <2>1, <2>6
  <1>6. len \in shared
    <2> HIDE DEF shared, len
    <2>1. \A k \in 0..len : k \in shared
      BY <1>0, <1>4, <1>5, StepwiseInduction
    <2> QED BY <1>0, <2>1
  <1> QED BY <1>6 DEF Notifications, KeepAt, in, out

(***************************************************************************)
(* An item's share of a deque.                                             *)
(***************************************************************************)
\* Max of a non-empty bounded set of natural numbers.
LEMMA MaxIsMember ==
    ASSUME NEW n \in Nat, NEW S, S \subseteq 0..n, S # {}
    PROVE  Max(S) \in S
  <1> DEFINE mirrored == {n - x : x \in S}
  <1>1. mirrored \subseteq Nat /\ mirrored # {}
    <2>1. PICK x \in S : TRUE
      OBVIOUS
    <2>2. n - x \in mirrored
      OBVIOUS
    <2>3. \A y \in S : n - y \in Nat
      OBVIOUS
    <2> QED BY <2>2, <2>3
  <1>2. PICK m \in mirrored : \A y \in mirrored : m <= y
    <2> HIDE DEF mirrored
    <2> QED BY <1>1, LeastNumber
  <1>3. PICK x \in S : m = n - x
    BY <1>2
  <1>4. \A y \in S : n - y \in mirrored
    OBVIOUS
  <1>5. \A y \in S : x >= y
    BY <1>2, <1>3, <1>4
  <1> QED BY <1>5 DEF Max

\* The places of an item in a deque are finitely many.
LEMMA PlacesAreFinite ==
    ASSUME NEW queue \in Seq(Entry), NEW item
    PROVE  LET places == {i \in DOMAIN queue : queue[i].source = item}
           IN  /\ IsFiniteSet(places)
               /\ Cardinality(places) \in Nat
               /\ QueuedOf(queue, item) = Cardinality(places)
  <1> DEFINE places == {i \in DOMAIN queue : queue[i].source = item}
  <1>1. IsFiniteSet(1..Len(queue)) /\ DOMAIN queue = 1..Len(queue)
    BY FS_Interval
  <1>2. IsFiniteSet(places)
    BY <1>1, FS_Subset
  <1> QED BY <1>2, FS_CardinalityType DEF QueuedOf

\* An entry at the back counts for its own item and for no other.
LEMMA ShareOfAppend ==
    ASSUME NEW queue \in Seq(Entry), NEW entry \in Entry, NEW item
    PROVE  /\ QueuedOf(queue, item) \in Nat
           /\ QueuedOf(Append(queue, entry), item) =
                 IF entry.source = item THEN QueuedOf(queue, item) + 1
                 ELSE QueuedOf(queue, item)
  <1> DEFINE longer == Append(queue, entry)
             len == Len(queue)
             places == {i \in DOMAIN queue : queue[i].source = item}
             more == {i \in DOMAIN longer : longer[i].source = item}
  <1>1. /\ len \in Nat /\ DOMAIN queue = 1..len /\ DOMAIN longer = 1..(len + 1)
        /\ longer[len + 1] = entry /\ \A i \in 1..len : longer[i] = queue[i]
    OBVIOUS
  <1>2. /\ IsFiniteSet(places) /\ Cardinality(places) \in Nat
        /\ QueuedOf(queue, item) = Cardinality(places)
    BY PlacesAreFinite
  <1>3. more = IF entry.source = item THEN places \cup {len + 1} ELSE places
    BY <1>1
  <1>4. len + 1 \notin places
    BY <1>1
  <1> HIDE DEF places
  <1>5. Cardinality(places \cup {len + 1}) = Cardinality(places) + 1
    BY <1>2, <1>4, FS_AddElement
  <1> QED BY <1>2, <1>3, <1>5 DEF QueuedOf

\* Leaving entries out never adds to a share, and leaving out one of the item's
\* own takes from it.
LEMMA ShareOfEmbedded ==
    ASSUME NEW q \in Seq(Entry), NEW r \in Seq(Entry), NEW e, Embeds(e, r, q), NEW item
    PROVE  /\ QueuedOf(r, item) <= QueuedOf(q, item)
           /\ \A k \in 1..Len(q) :
                 q[k].source = item /\ (\A i \in 1..Len(r) : e[i] # k) =>
                    QueuedOf(r, item) <= QueuedOf(q, item) - 1
  <1> DEFINE A == {i \in DOMAIN r : r[i].source = item}
             B == {i \in DOMAIN q : q[i].source = item}
             f == [i \in A |-> e[i]]
  <1>1. DOMAIN r = 1..Len(r) /\ DOMAIN q = 1..Len(q)
    OBVIOUS
  <1>2. /\ IsFiniteSet(A) /\ Cardinality(A) \in Nat /\ QueuedOf(r, item) = Cardinality(A)
        /\ IsFiniteSet(B) /\ Cardinality(B) \in Nat /\ QueuedOf(q, item) = Cardinality(B)
    BY PlacesAreFinite
  <1>3. \A i, j \in A : e[i] = e[j] => i = j
    <2> SUFFICES ASSUME NEW i \in A, NEW j \in A, i # j PROVE e[i] # e[j]
      OBVIOUS
    <2>1. /\ i < j => e[i] < e[j]
          /\ j < i => e[j] < e[i]
          /\ e[i] \in Int /\ e[j] \in Int /\ (i < j \/ j < i)
      BY <1>1 DEF Embeds
    <2> QED BY <2>1
  <1>4. ASSUME NEW C, C \subseteq B, \A i \in A : e[i] \in C
        PROVE  Cardinality(A) <= Cardinality(C)
    <2>1. f \in Injection(A, C)
      BY <1>3, <1>4 DEF Injection, IsInjective
    <2>2. IsFiniteSet(C)
      BY <1>2, <1>4, FS_Subset
    <2> QED BY <2>1, <2>2, FS_Injection
  <1>5. \A i \in A : e[i] \in B
    BY <1>1 DEF Embeds
  <1>6. Cardinality(A) <= Cardinality(B)
    BY <1>4, <1>5
  <1>7. ASSUME NEW k \in 1..Len(q), q[k].source = item,
               \A i \in 1..Len(r) : e[i] # k
        PROVE  Cardinality(A) <= Cardinality(B) - 1
    <2>1. k \in B
      BY <1>1, <1>7
    <2>2. \A i \in A : e[i] \in B \ {k}
      BY <1>1, <1>5, <1>7
    <2> HIDE DEF A, B
    <2>3. Cardinality(A) <= Cardinality(B \ {k})
      BY <1>4, <2>2
    <2>4. Cardinality(B \ {k}) = Cardinality(B) - 1
      BY <1>2, <2>1, FS_RemoveElement
    <2> QED BY <2>3, <2>4
  <1> QED BY <1>2, <1>6, <1>7

\* RemoveAt leaves the order as it is and takes out exactly one place.
LEMMA RemoveAtEmbeds ==
    ASSUME NEW S, NEW s \in Seq(S), NEW p \in 1..Len(s)
    PROVE  \E e : /\ Embeds(e, RemoveAt(s, p), s)
                  /\ \A i \in 1..Len(RemoveAt(s, p)) : e[i] # p
                  /\ \A k \in 1..Len(s) : k # p =>
                        \E i \in 1..Len(RemoveAt(s, p)) : e[i] = k
  <1> DEFINE n == Len(s) - 1
             e == [i \in 1..n |-> IF i < p THEN i ELSE i + 1]
  <1>1. /\ Len(RemoveAt(s, p)) = n /\ n \in Nat
        /\ \A i \in 1..n : RemoveAt(s, p)[i] = IF i < p THEN s[i] ELSE s[i + 1]
    BY RemoveAtFacts
  <1>2. /\ e \in [1..n -> 1..Len(s)]
        /\ \A i, j \in 1..n : i < j => e[i] < e[j]
        /\ \A i \in 1..n : e[i] # p
    OBVIOUS
  <1>3. \A i \in 1..n : RemoveAt(s, p)[i] = s[e[i]]
    BY <1>1
  <1>4. ASSUME NEW k \in 1..Len(s), k # p PROVE \E i \in 1..n : e[i] = k
    <2>1. CASE k < p
      <3>1. k \in 1..n /\ e[k] = k
        BY <2>1
      <3> QED BY <3>1
    <2>2. CASE k > p
      <3>1. k - 1 \in 1..n /\ e[k - 1] = k
        BY <2>2
      <3> QED BY <3>1
    <2> QED BY <1>4, <2>1, <2>2
  <1> HIDE DEF n, e
  <1> QED BY <1>1, <1>2, <1>3, <1>4 DEF Embeds


(***************************************************************************)
(* Queueing.                                                               *)
(***************************************************************************)
\* No notification of the deque was queued after number n.
UpTo(queue, n) == \A i \in DOMAIN queue : queue[i].serial <= n

\* The limit drops at most one notification, of the item itself, and only if
\* another one of that item stays.
LEMMA EnforcedEmbeds ==
    ASSUME NEW queue \in Seq(Entry), NEW item, NEW p, p.queue_size \in Nat,
           \E i \in 1..Len(queue) : queue[i].source = item,
           NEW r, r = EnforceQueueLimit(queue, item, p)
    PROVE  /\ r \in Seq(Entry)
           /\ \E i \in 1..Len(r) : r[i].source = item
           /\ \/ /\ r = queue
                 /\ QueuedOf(queue, item) <= AtLeastOne(p.queue_size)
              \/ /\ QueuedOf(r, item) <= QueuedOf(queue, item) - 1
                 /\ \E e : /\ Embeds(e, r, queue)
                           /\ \A k \in 1..Len(queue) : queue[k].source # item =>
                                 \E i \in 1..Len(r) : e[i] = k
  <1> DEFINE indices == {i \in DOMAIN queue : queue[i].source = item}
             limit == AtLeastOne(p.queue_size)
             k == IF p.discard_oldest THEN Min(indices) ELSE Max(indices)
  <1>1. DOMAIN queue = 1..Len(queue) /\ Len(queue) \in Nat /\ limit \in Nat /\ limit >= 1
    BY DEF AtLeastOne
  <1>2. /\ IsFiniteSet(indices) /\ Cardinality(indices) \in Nat
        /\ QueuedOf(queue, item) = Cardinality(indices)
    BY PlacesAreFinite
  <1>3. CASE QueuedOf(queue, item) <= limit
    <2>1. r = queue
      BY <1>3 DEF EnforceQueueLimit
    <2> QED BY <1>3, <2>1
  <1>4. CASE ~(QueuedOf(queue, item) <= limit)
    <2>1. r = RemoveAt(queue, k)
      BY <1>4 DEF EnforceQueueLimit
    <2>2. k \in indices
      <3>1. indices \subseteq 0..Len(queue) /\ indices \subseteq Nat /\ indices # {}
        BY <1>1
      <3> HIDE DEF indices
      <3>2. Min(indices) \in indices /\ Max(indices) \in indices
        BY <1>1, <3>1, MinFacts, MaxIsMember
      <3> QED BY <3>2
    <2> HIDE DEF k
    <2>3. k \in 1..Len(queue) /\ queue[k].source = item
      BY <1>1, <2>2
    <2>4. PICK e : /\ Embeds(e, r, queue)
                   /\ \A i \in 1..Len(r) : e[i] # k
                   /\ \A j \in 1..Len(queue) : j # k => \E i \in 1..Len(r) : e[i] = j
      BY <2>1, <2>3, RemoveAtEmbeds
    <2>5. r \in Seq(Entry)
      BY <2>1, <2>3, RemoveAtFacts
    <2>6. QueuedOf(r, item) <= QueuedOf(queue, item) - 1
      BY <2>3, <2>4, <2>5, ShareOfEmbedded
    <2>7. PICK other \in indices : other # k
      <3>1. Cardinality(indices) # 1
        BY <1>1, <1>2, <1>4
      <3>2. indices # {k}
        <4> HIDE DEF indices
        <4> QED BY <3>1, FS_Singleton
      <3> QED BY <2>2, <3>2
    <2>8. PICK i \in 1..Len(r) : e[i] = other
      BY <1>1, <2>4, <2>7
    <2>9. r[i].source = item
      BY <2>4, <2>7, <2>8 DEF Embeds
    <2>10. \A j \in 1..Len(queue) : queue[j].source # item =>
              \E h \in 1..Len(r) : e[h] = j
      BY <2>3, <2>4
    <2> QED BY <2>4, <2>5, <2>6, <2>9, <2>10
  <1> QED BY <1>3, <1>4

\* What holds of a deque r that one QueueNotification made of `queue`, of which
\* the last notification had number n.
PushedOnto(r, queue, item, n, p) ==
    /\ r \in Seq(Entry) /\ Ascending(r) /\ UpTo(r, n + 1)
    /\ \A i \in DOMAIN r : \/ r[i].serial = n + 1
                           \/ \E j \in DOMAIN queue : r[i] = queue[j]
    /\ \A j \in DOMAIN queue : \E i \in DOMAIN r : r[i].source = queue[j].source
    /\ \A other : \/ QueuedOf(r, other) <= QueuedOf(queue, other)
                  \/ /\ other = item
                     /\ QueuedOf(r, other) <= AtLeastOne(p.queue_size)

\* One QueueNotification.
LEMMA PushedFacts ==
    ASSUME NEW queue \in Seq(Entry), NEW item \in Items, NEW n \in Nat, NEW p,
           p.queue_size \in Nat, Ascending(queue), UpTo(queue, n)
    PROVE  PushedOnto(Pushed(queue, item, n + 1, p), queue, item, n, p)
  <1> DEFINE entry == [source |-> item, serial |-> n + 1]
             longer == Append(queue, entry)
             len == Len(queue)
             r == Pushed(queue, item, n + 1, p)
  <1>1. /\ entry \in Entry /\ entry.source = item /\ entry.serial = n + 1
    BY DEF Entry
  <1> HIDE DEF entry
  <1>2. /\ len \in Nat /\ DOMAIN queue = 1..len /\ DOMAIN longer = 1..(len + 1)
        /\ longer \in Seq(Entry) /\ Len(longer) = len + 1
        /\ longer[len + 1] = entry /\ \A i \in 1..len : longer[i] = queue[i]
    BY <1>1
  <1>3. \A i \in 1..len : queue[i].serial \in Nat /\ queue[i].serial <= n
    <2>1. \A x \in Entry : x.serial \in Nat
      BY DEF Entry
    <2> QED BY <1>2, <2>1 DEF UpTo
  <1>4. r = EnforceQueueLimit(longer, item, p)
    BY DEF Pushed, entry
  <1> HIDE DEF longer, len, r
  <1>5. /\ Ascending(longer) /\ UpTo(longer, n + 1)
        /\ \A i \in 1..(len + 1) : longer[i].serial \in Nat
    <2>1. \A i \in 1..(len + 1) : \/ i = len + 1 /\ longer[i].serial = n + 1
                                  \/ /\ i \in 1..len /\ longer[i] = queue[i]
                                     /\ queue[i].serial \in Nat /\ queue[i].serial <= n
      BY <1>1, <1>2, <1>3
    <2>2. \A i \in 1..(len + 1) : longer[i].serial \in Nat /\ longer[i].serial <= n + 1
      BY <2>1
    <2>3. ASSUME NEW i \in 1..(len + 1), NEW j \in 1..(len + 1), i < j
          PROVE  longer[i].serial < longer[j].serial
      <3>1. i \in 1..len /\ longer[i] = queue[i] /\ queue[i].serial <= n /\ queue[i].serial \in Nat
        BY <1>2, <2>1, <2>3
      <3>2. CASE j = len + 1
        BY <1>1, <1>2, <3>1, <3>2
      <3>3. CASE j \in 1..len
        <4>1. longer[j] = queue[j] /\ queue[i].serial < queue[j].serial
          BY <1>2, <2>3, <3>1, <3>3 DEF Ascending
        <4> QED BY <3>1, <4>1
      <3> QED BY <1>2, <3>2, <3>3
    <2> QED BY <1>2, <2>2, <2>3 DEF Ascending, UpTo
  <1>6. /\ r \in Seq(Entry) /\ DOMAIN r = 1..Len(r)
        /\ \E i \in 1..Len(r) : r[i].source = item
        /\ \/ r = longer /\ QueuedOf(longer, item) <= AtLeastOne(p.queue_size)
           \/ /\ QueuedOf(r, item) <= QueuedOf(longer, item) - 1
              /\ \E e : /\ Embeds(e, r, longer)
                        /\ \A k \in 1..Len(longer) : longer[k].source # item =>
                              \E i \in 1..Len(r) : e[i] = k
    <2>1. \E i \in 1..Len(longer) : longer[i].source = item
      <3>1. len + 1 \in 1..Len(longer)
        BY <1>2
      <3> QED BY <1>1, <1>2, <3>1
    <2>2. /\ r \in Seq(Entry)
          /\ \E i \in 1..Len(r) : r[i].source = item
          /\ \/ r = longer /\ QueuedOf(longer, item) <= AtLeastOne(p.queue_size)
             \/ /\ QueuedOf(r, item) <= QueuedOf(longer, item) - 1
                /\ \E e : /\ Embeds(e, r, longer)
                          /\ \A k \in 1..Len(longer) : longer[k].source # item =>
                                \E i \in 1..Len(r) : e[i] = k
      BY <1>2, <1>4, <2>1, EnforcedEmbeds
    <2>3. DOMAIN r = 1..Len(r)
      BY <2>2
    <2> QED BY <2>2, <2>3
  <1>7. \A other : /\ QueuedOf(queue, other) \in Nat
                   /\ QueuedOf(longer, other) =
                         IF item = other THEN QueuedOf(queue, other) + 1
                         ELSE QueuedOf(queue, other)
    BY <1>1, ShareOfAppend DEF longer
  <1>8. ASSUME NEW j \in 1..len
        PROVE  longer[j] = queue[j] /\ j \in 1..(len + 1)
    BY <1>2
  <1>9. CASE r = longer /\ QueuedOf(longer, item) <= AtLeastOne(p.queue_size)
    <2>1. \A i \in DOMAIN r : \/ r[i].serial = n + 1
                              \/ \E j \in DOMAIN queue : r[i] = queue[j]
      BY <1>1, <1>2, <1>9
    <2>2. \A j \in DOMAIN queue : \E i \in DOMAIN r : r[i].source = queue[j].source
      BY <1>2, <1>8, <1>9
    <2>3. \A other : \/ QueuedOf(r, other) <= QueuedOf(queue, other)
                     \/ /\ other = item
                        /\ QueuedOf(r, other) <= AtLeastOne(p.queue_size)
      BY <1>7, <1>9
    <2> QED BY <1>2, <1>5, <1>9, <2>1, <2>2, <2>3 DEF r, PushedOnto
  <1>10. ASSUME QueuedOf(r, item) <= QueuedOf(longer, item) - 1,
                NEW e, Embeds(e, r, longer),
                \A k \in 1..Len(longer) : longer[k].source # item =>
                              \E i \in 1..Len(r) : e[i] = k
         PROVE  /\ Ascending(r) /\ UpTo(r, n + 1)
                /\ \A i \in DOMAIN r : \/ r[i].serial = n + 1
                                       \/ \E j \in DOMAIN queue : r[i] = queue[j]
                /\ \A j \in DOMAIN queue :
                      \E i \in DOMAIN r : r[i].source = queue[j].source
                /\ \A other : \/ QueuedOf(r, other) <= QueuedOf(queue, other)
                              \/ /\ other = item
                                 /\ QueuedOf(r, other) <= AtLeastOne(p.queue_size)
    <2>0. \A i \in 1..Len(r) : e[i] \in 1..(len + 1) /\ r[i] = longer[e[i]]
      BY <1>2, <1>10 DEF Embeds
    <2>1. Ascending(r)
      <3> SUFFICES ASSUME NEW i \in 1..Len(r), NEW j \in 1..Len(r), i < j
                   PROVE  r[i].serial < r[j].serial
        BY <1>6 DEF Ascending
      <3>1. e[i] < e[j]
        BY <1>10 DEF Embeds
      <3> QED BY <1>2, <1>5, <2>0, <3>1 DEF Ascending
    <2>2. UpTo(r, n + 1)
      BY <1>2, <1>5, <1>6, <2>0 DEF UpTo
    <2>3. \A i \in DOMAIN r : \/ r[i].serial = n + 1
                              \/ \E j \in DOMAIN queue : r[i] = queue[j]
      <3>1. \A i \in 1..(len + 1) : \/ longer[i].serial = n + 1
                                    \/ \E j \in DOMAIN queue : longer[i] = queue[j]
        BY <1>1, <1>2
      <3>2. ASSUME NEW i \in 1..Len(r)
            PROVE  r[i].serial = n + 1 \/ \E j \in DOMAIN queue : r[i] = queue[j]
        <4>1. e[i] \in 1..(len + 1) /\ r[i] = longer[e[i]]
          BY <2>0
        <4> QED BY <3>1, <4>1
      <3>3. DOMAIN r = 1..Len(r)
        BY <1>6
      <3> QED BY <3>2, <3>3
    <2>4. ASSUME NEW j \in DOMAIN queue
          PROVE  \E i \in DOMAIN r : r[i].source = queue[j].source
      <3>1. CASE queue[j].source = item
        BY <1>6, <3>1
      <3>2. CASE queue[j].source # item
        <4>1. PICK i \in 1..Len(r) : e[i] = j
          BY <1>2, <1>8, <1>10, <3>2
        <4> QED BY <1>2, <1>6, <1>8, <2>0, <4>1
      <3> QED BY <3>1, <3>2
    <2>5. ASSUME NEW other
          PROVE  \/ QueuedOf(r, other) <= QueuedOf(queue, other)
                 \/ /\ other = item
                    /\ QueuedOf(r, other) <= AtLeastOne(p.queue_size)
      <3>1. QueuedOf(r, other) <= QueuedOf(longer, other)
        BY <1>2, <1>6, <1>10, ShareOfEmbedded
      <3>2. /\ QueuedOf(queue, other) \in Nat
            /\ QueuedOf(longer, other) = IF item = other THEN QueuedOf(queue, other) + 1
                                         ELSE QueuedOf(queue, other)
        BY <1>7
      <3>3. CASE other = item
        <4>1. QueuedOf(r, other) <= QueuedOf(longer, other) - 1
          BY <1>10, <3>3
        <4>2. QueuedOf(longer, other) - 1 = QueuedOf(queue, other)
          BY <3>2, <3>3
        <4> QED BY <4>1, <4>2
      <3>4. CASE other # item
        <4>1. QueuedOf(longer, other) = QueuedOf(queue, other)
          BY <3>2, <3>4
        <4> QED BY <3>1, <4>1
      <3> QED BY <3>3, <3>4
    <2> QED BY <2>1, <2>2, <2>3, <2>4, <2>5
  <1> QED BY <1>6, <1>9, <1>10 DEF r, PushedOnto

\* The recursive definition of Pushes defines a function.
LEMMA PushesFacts ==
    ASSUME NEW n \in Nat, NEW sources, Len(sources) = n, NEW p
    PROVE  /\ Pushes(sources, p)[0] = pending_notifications
           /\ \A k \in 1..n : Pushes(sources, p)[k] =
                 Pushed(Pushes(sources, p)[k - 1], sources[k], queued + k, p[sources[k]])
  <1> DEFINE Next1(s, k) == Pushed(s, sources[k], queued + k, p[sources[k]])
             Defines(g, m) ==
                g = [k \in 0..m |-> IF k = 0 THEN pending_notifications
                                    ELSE Next1(g[k - 1], k)]
             defined == {k \in 0..n : \E g : Defines(g, k)}
  <1>1. \A k \in 0..n : k \in defined
    <2>1. 0 \in defined
      <3>1. Defines([k \in 0..0 |-> pending_notifications], 0)
        OBVIOUS
      <3> HIDE DEF Defines
      <3> QED BY <3>1
    <2>2. ASSUME NEW k \in 0..(n - 1), k \in defined
          PROVE  k + 1 \in defined
      <3>1. PICK g : Defines(g, k)
        BY <2>2
      <3> DEFINE h == [m \in 0..(k + 1) |->
                          IF m = k + 1 THEN Next1(g[k], k + 1) ELSE g[m]]
      <3>2. Defines(h, k + 1)
        <4> HIDE DEF Next1
        <4> QED BY <3>1
      <3>3. k + 1 \in 0..n
        OBVIOUS
      <3> HIDE DEF Defines, h
      <3> QED BY <3>2, <3>3
    <2> HIDE DEF defined
    <2> QED BY <2>1, <2>2, StepwiseInduction
  <1> DEFINE after == CHOOSE g : Defines(g, n)
  <1>2. Defines(after, n)
    <2>1. n \in 0..n
      OBVIOUS
    <2>2. \E g : Defines(g, n)
      BY <1>1, <2>1
    <2> HIDE DEF Defines
    <2> QED BY <2>2
  <1>3. Pushes(sources, p) = after
    BY DEF Pushes
  <1> HIDE DEF after
  <1>4. after[0] = pending_notifications /\ \A k \in 1..n : after[k] = Next1(after[k - 1], k)
    <2> HIDE DEF Next1
    <2> QED BY <1>2
  <1> QED BY <1>3, <1>4


\* Only the parameters of the items queued for matter.
LEMMA PushesAgree ==
    ASSUME NEW sources, Len(sources) \in Nat, NEW p1, NEW p2,
           \A k \in 1..Len(sources) : p1[sources[k]] = p2[sources[k]]
    PROVE  Pushes(sources, p1)[Len(sources)] = Pushes(sources, p2)[Len(sources)]
  <1> DEFINE n == Len(sources)
             f == Pushes(sources, p1)
             g == Pushes(sources, p2)
             same == {k \in 0..n : f[k] = g[k]}
  <1>1. /\ f[0] = pending_notifications
        /\ \A k \in 1..n : f[k] =
              Pushed(f[k - 1], sources[k], queued + k, p1[sources[k]])
    BY PushesFacts
  <1>2. /\ g[0] = pending_notifications
        /\ \A k \in 1..n : g[k] =
              Pushed(g[k - 1], sources[k], queued + k, p2[sources[k]])
    BY PushesFacts
  <1> HIDE DEF f, g
  <1>3. 0 \in same
    BY <1>1, <1>2
  <1>4. ASSUME NEW k \in 0..(n - 1), k \in same PROVE k + 1 \in same
    <2>1. k + 1 \in 1..n /\ k + 1 \in 0..n /\ (k + 1) - 1 = k
      OBVIOUS
    <2>2. f[k] = g[k] /\ p1[sources[k + 1]] = p2[sources[k + 1]]
      BY <1>4, <2>1
    <2>3. f[k + 1] = g[k + 1]
      BY <1>1, <1>2, <2>1, <2>2
    <2> QED BY <2>1, <2>3
  <1>5. n \in same
    <2>1. n \in Nat /\ n \in 0..n
      OBVIOUS
    <2> HIDE DEF same, n
    <2> QED BY <1>3, <1>4, <2>1, StepwiseInduction
  <1> QED BY <1>5 DEF f, g

\* What holds of a deque that a handler's pushes for `sources` made of `queue`;
\* notification n was the last before them and notification m is now.
PushedFrom(r, queue, n, m, sources, p) ==
    /\ r \in Seq(Entry) /\ Ascending(r) /\ UpTo(r, m)
    /\ \A i \in DOMAIN r : \/ r[i].serial > n
                           \/ \E j \in DOMAIN queue : r[i] = queue[j]
    /\ \A j \in DOMAIN queue : \E i \in DOMAIN r : r[i].source = queue[j].source
    /\ \A item \in Items : \/ QueuedOf(r, item) <= QueuedOf(queue, item)
                           \/ /\ \E k \in 1..Len(sources) : sources[k] = item
                              /\ QueuedOf(r, item) <= AtLeastOne(p[item].queue_size)

\* All the QueueNotifications of a handler.
LEMMA BatchFacts ==
    ASSUME NEW sources \in Seq(Items), NEW p, NEW n \in Nat, queued = n,
           \A k \in 1..Len(sources) : p[sources[k]].queue_size \in Nat,
           pending_notifications \in Seq(Entry), Ascending(pending_notifications),
           UpTo(pending_notifications, n)
    PROVE  PushedFrom(Pushes(sources, p)[Len(sources)], pending_notifications,
                      n, n + Len(sources), sources, p)
  <1> DEFINE len == Len(sources)
             after == Pushes(sources, p)
             Good(k) == PushedFrom(after[k], pending_notifications, n, n + k, sources, p)
             good == {k \in 0..len : Good(k)}
  <1>1. /\ len \in Nat /\ after[0] = pending_notifications
        /\ \A k \in 1..len : after[k] =
              Pushed(after[k - 1], sources[k], n + k, p[sources[k]])
    BY PushesFacts
  <1> HIDE DEF after
  <1>2. \A item \in Items : QueuedOf(pending_notifications, item) \in Nat
    BY PlacesAreFinite
  <1>3. 0 \in good
    <2>1. n + 0 = n /\ 0 \in 0..len
      BY <1>1
    <2>2. \A item \in Items :
             QueuedOf(pending_notifications, item) <= QueuedOf(pending_notifications, item)
      BY <1>2
    <2>3. Good(0)
      BY <1>1, <2>1, <2>2 DEF PushedFrom
    <2> HIDE DEF Good
    <2> QED BY <2>1, <2>3
  <1>4. ASSUME NEW k \in 0..(len - 1), k \in good PROVE k + 1 \in good
    <2> DEFINE item == sources[k + 1]
               before == after[k]
               r == after[k + 1]
    <2>1. /\ k + 1 \in 1..len /\ k + 1 \in 0..len /\ (k + 1) - 1 = k /\ k \in 0..len
          /\ n + (k + 1) = (n + k) + 1 /\ n + k \in Nat /\ n + k >= n
      BY <1>1
    <2>2. /\ r = Pushed(before, item, (n + k) + 1, p[item])
          /\ item \in Items /\ p[item].queue_size \in Nat
      BY <1>1, <2>1
    <2>3. PushedFrom(before, pending_notifications, n, n + k, sources, p)
      BY <1>4
    <2>4. PICK m \in Nat : m = n + k
      BY <2>1
    <2> HIDE DEF item, before, r
    <2>5. before \in Seq(Entry) /\ Ascending(before) /\ UpTo(before, n + k)
      BY <2>3 DEF PushedFrom
    <2>6. /\ r \in Seq(Entry) /\ Ascending(r) /\ UpTo(r, m + 1)
          /\ \A i \in DOMAIN r : \/ r[i].serial = m + 1
                                 \/ \E j \in DOMAIN before : r[i] = before[j]
          /\ \A j \in DOMAIN before :
                \E i \in DOMAIN r : r[i].source = before[j].source
          /\ \A other : \/ QueuedOf(r, other) <= QueuedOf(before, other)
                        \/ /\ other = item
                           /\ QueuedOf(r, other) <= AtLeastOne(p[item].queue_size)
      <3>1. r = Pushed(before, item, m + 1, p[item]) /\ UpTo(before, m)
        BY <2>2, <2>4, <2>5
      <3>2. PushedOnto(r, before, item, m, p[item])
        BY <2>2, <2>4, <2>5, <3>1, PushedFacts
      <3> QED BY <3>2 DEF PushedOnto
    <2>7. ASSUME NEW i \in DOMAIN r
          PROVE  \/ r[i].serial > n
                 \/ \E j \in DOMAIN pending_notifications : r[i] = pending_notifications[j]
      <3>1. CASE r[i].serial = m + 1
        BY <2>1, <2>4, <3>1
      <3>2. CASE \E j \in DOMAIN before : r[i] = before[j]
        BY <2>3, <3>2 DEF PushedFrom
      <3> QED BY <2>6, <3>1, <3>2
    <2>8. ASSUME NEW j \in DOMAIN pending_notifications
          PROVE  \E i \in DOMAIN r : r[i].source = pending_notifications[j].source
      <3>1. PICK h \in DOMAIN before : before[h].source = pending_notifications[j].source
        BY <2>3 DEF PushedFrom
      <3>2. PICK i \in DOMAIN r : r[i].source = before[h].source
        BY <2>6
      <3> QED BY <3>1, <3>2
    <2>9. ASSUME NEW other \in Items
          PROVE  \/ QueuedOf(r, other) <= QueuedOf(pending_notifications, other)
                 \/ /\ \E h \in 1..Len(sources) : sources[h] = other
                    /\ QueuedOf(r, other) <= AtLeastOne(p[other].queue_size)
      <3>1. CASE other = item /\ QueuedOf(r, other) <= AtLeastOne(p[item].queue_size)
        <4>1. sources[k + 1] = other /\ k + 1 \in 1..Len(sources)
          BY <2>1, <3>1 DEF item
        <4> QED BY <3>1, <4>1
      <3>2. CASE QueuedOf(r, other) <= QueuedOf(before, other)
        <4>1. /\ QueuedOf(r, other) \in Nat /\ QueuedOf(before, other) \in Nat
              /\ QueuedOf(pending_notifications, other) \in Nat
          BY <1>2, <2>5, <2>6, PlacesAreFinite
        <4>2. \/ QueuedOf(before, other) <= QueuedOf(pending_notifications, other)
              \/ /\ \E h \in 1..Len(sources) : sources[h] = other
                 /\ QueuedOf(before, other) <= AtLeastOne(p[other].queue_size)
          BY <2>3 DEF PushedFrom
        <4>3. (\E h \in 1..Len(sources) : sources[h] = other) =>
                 AtLeastOne(p[other].queue_size) \in Nat
          BY DEF AtLeastOne
        <4> HIDE DEF len
        <4> QED BY <3>2, <4>1, <4>2, <4>3
      <3> QED BY <2>6, <3>1, <3>2
    <2>10. PushedFrom(r, pending_notifications, n, n + (k + 1), sources, p)
      BY <2>1, <2>4, <2>6, <2>7, <2>8, <2>9 DEF PushedFrom
    <2> QED BY <2>1, <2>10 DEF r
  <1>5. len \in good
    <2> HIDE DEF good, len
    <2>1. \A k \in 0..len : k \in good
      BY <1>1, <1>3, <1>4, StepwiseInduction
    <2> QED BY <1>1, <2>1
  <1> QED BY <1>5 DEF after


(***************************************************************************)
(* The order of what is delivered.                                         *)
(***************************************************************************)
\* DeliveryInOrder for a queue of messages, the deque behind it and the next
\* sequence number; every notification of a message was queued by number last.
InOrder(queue, pending, next, last) ==
    \A i \in DOMAIN queue :
       /\ Ascending(queue[i].notification_data)
       /\ Precedes(queue[i].notification_data, pending)
       /\ UpTo(queue[i].notification_data, last)
       /\ queue[i].sequence_number < next
       /\ \A j \in DOMAIN queue : i < j =>
             /\ queue[i].sequence_number < queue[j].sequence_number
             /\ Precedes(queue[i].notification_data, queue[j].notification_data)

\* Leaving messages out keeps the others in order.
LEMMA InOrderOfEmbedded ==
    ASSUME NEW q \in Seq(Message), NEW r \in Seq(Message), NEW e, Embeds(e, r, q),
           NEW pending, NEW next, NEW last, InOrder(q, pending, next, last)
    PROVE  InOrder(r, pending, next, last)
  <1>1. DOMAIN r = 1..Len(r) /\ DOMAIN q = 1..Len(q)
    OBVIOUS
  <1>2. \A i \in 1..Len(r) : e[i] \in 1..Len(q) /\ r[i] = q[e[i]]
    BY DEF Embeds
  <1>3. \A i, j \in 1..Len(r) : i < j => e[i] < e[j]
    BY DEF Embeds
  <1> QED BY <1>1, <1>2, <1>3 DEF InOrder

\* So is leaving notifications out of the deque, or queueing new ones.
LEMMA InOrderOfPending ==
    ASSUME NEW q \in Seq(Message), NEW p, NEW s, NEW next,
           NEW last \in Nat, NEW later \in Nat, last <= later,
           InOrder(q, p, next, last),
           \A i \in DOMAIN s : /\ s[i].serial \in Nat
                               /\ \/ s[i].serial > last
                                  \/ \E j \in DOMAIN p : s[i] = p[j]
    PROVE  InOrder(q, s, next, later)
  <1> SUFFICES ASSUME NEW i \in DOMAIN q
               PROVE  /\ Precedes(q[i].notification_data, s)
                      /\ UpTo(q[i].notification_data, later)
    BY DEF InOrder
  <1> DEFINE data == q[i].notification_data
  <1>1. data \in Seq(Entry)
    <2>1. \A message \in Message : message.notification_data \in Seq(Entry)
      BY DEF Message
    <2> QED BY <2>1
  <1>2. Precedes(data, p) /\ UpTo(data, last)
    BY DEF InOrder
  <1> HIDE DEF data
  <1>3. \A k \in DOMAIN data : data[k].serial \in Nat
    <2>1. \A entry \in Entry : entry.serial \in Nat
      BY DEF Entry
    <2> QED BY <1>1, <2>1
  <1>4. Precedes(data, s)
    BY <1>2, <1>3 DEF Precedes, UpTo
  <1>5. UpTo(data, later)
    BY <1>2, <1>3 DEF UpTo
  <1> QED BY <1>4, <1>5 DEF data

\* A deque of which entries are left out is still in order.
LEMMA AscendingOfEmbedded ==
    ASSUME NEW q \in Seq(Entry), NEW r \in Seq(Entry), NEW e, Embeds(e, r, q),
           NEW n, Ascending(q), UpTo(q, n)
    PROVE  /\ Ascending(r) /\ UpTo(r, n)
           /\ \A i \in DOMAIN r : \E j \in DOMAIN q : r[i] = q[j]
  <1>1. DOMAIN r = 1..Len(r) /\ DOMAIN q = 1..Len(q)
    OBVIOUS
  <1>2. \A i \in 1..Len(r) : e[i] \in 1..Len(q) /\ r[i] = q[e[i]]
    BY DEF Embeds
  <1>3. \A i, j \in 1..Len(r) : i < j => e[i] < e[j]
    BY DEF Embeds
  <1> QED BY <1>1, <1>2, <1>3 DEF Ascending, UpTo

\* What is behind the first n entries embeds into the whole.
LEMMA RestEmbeds ==
    ASSUME NEW S, NEW s \in Seq(S), NEW n \in 0..Len(s)
    PROVE  /\ SubSeq(s, n + 1, Len(s)) \in Seq(S)
           /\ Len(SubSeq(s, n + 1, Len(s))) = Len(s) - n
           /\ \A i \in 1..(Len(s) - n) : SubSeq(s, n + 1, Len(s))[i] = s[n + i]
           /\ \E e : Embeds(e, SubSeq(s, n + 1, Len(s)), s)
  <1> DEFINE rest == SubSeq(s, n + 1, Len(s))
             m == Len(s) - n
             e == [i \in 1..m |-> n + i]
  <1>1. /\ rest \in Seq(S) /\ Len(rest) = m /\ m \in Nat
        /\ \A i \in 1..m : rest[i] = s[n + i]
    OBVIOUS
  <1>2. /\ e \in [1..m -> 1..Len(s)]
        /\ \A i, j \in 1..m : i < j => e[i] < e[j]
        /\ \A i \in 1..m : e[i] = n + i
    OBVIOUS
  <1> HIDE DEF e, rest
  <1>3. Embeds(e, rest, s)
    BY <1>1, <1>2 DEF Embeds
  <1> QED BY <1>1, <1>3 DEF rest

\* A message made of the first entries of the deque, put behind the others.
LEMMA InOrderOfPublished ==
    ASSUME NEW q \in Seq(Message), NEW p \in Seq(Entry), NEW next \in Nat, NEW last \in Nat,
           InOrder(q, p, next, last), Ascending(p), UpTo(p, last),
           NEW n \in 1..Len(p), NEW message,
           message = [sequence_number |-> next, notification_data |-> SubSeq(p, 1, n)]
    PROVE  /\ message \in Message /\ Len(message.notification_data) = n
           /\ InOrder(Append(q, message), SubSeq(p, n + 1, Len(p)), next + 1, last)
  <1> DEFINE data == SubSeq(p, 1, n)
             rest == SubSeq(p, n + 1, Len(p))
             queue == Append(q, message)
             len == Len(q)
  <1>0. message = [sequence_number |-> next, notification_data |-> data]
    OBVIOUS
  <1>1. /\ data \in Seq(Entry) /\ Len(data) = n /\ DOMAIN data = 1..n
        /\ \A i \in 1..n : data[i] = p[i]
    OBVIOUS
  <1>2. /\ rest \in Seq(Entry) /\ DOMAIN rest = 1..(Len(p) - n)
        /\ \A i \in 1..(Len(p) - n) : rest[i] = p[n + i]
    OBVIOUS
  <1> HIDE DEF data, rest
  <1>3. /\ message \in Message /\ message.notification_data = data
        /\ message.sequence_number = next
    BY <1>0, <1>1 DEF Message
  <1>4. /\ len \in Nat /\ DOMAIN q = 1..len /\ DOMAIN queue = 1..(len + 1)
        /\ queue[len + 1] = message /\ \A i \in 1..len : queue[i] = q[i]
    BY <1>3
  <1> HIDE DEF queue, len
  <1>5. /\ Ascending(data) /\ Precedes(data, rest) /\ UpTo(data, last)
    <2>1. \A i \in 1..n : i \in DOMAIN p
      OBVIOUS
    <2>2. \A i \in 1..(Len(p) - n) : n + i \in DOMAIN p
      OBVIOUS
    <2>3. Ascending(data) /\ UpTo(data, last)
      BY <1>1, <2>1 DEF Ascending, UpTo
    <2>4. \A i \in 1..n, j \in 1..(Len(p) - n) : i < n + j
      OBVIOUS
    <2>5. Precedes(data, rest)
      BY <1>1, <1>2, <2>1, <2>2, <2>4 DEF Ascending, Precedes
    <2> QED BY <2>3, <2>5
  <1>6. ASSUME NEW i \in 1..len
        PROVE  /\ Ascending(q[i].notification_data)
               /\ Precedes(q[i].notification_data, rest)
               /\ Precedes(q[i].notification_data, data)
               /\ UpTo(q[i].notification_data, last)
               /\ q[i].sequence_number \in Nat /\ q[i].sequence_number < next
    <2>1. /\ Ascending(q[i].notification_data) /\ Precedes(q[i].notification_data, p)
          /\ UpTo(q[i].notification_data, last) /\ q[i].sequence_number < next
      BY <1>4 DEF InOrder
    <2>2. q[i].sequence_number \in Nat
      <3>1. \A x \in Message : x.sequence_number \in Nat
        BY DEF Message
      <3> QED BY <1>4, <3>1
    <2>3. Precedes(q[i].notification_data, data)
      BY <1>1, <2>1 DEF Precedes
    <2>4. Precedes(q[i].notification_data, rest)
      <3>1. \A j \in 1..(Len(p) - n) : n + j \in DOMAIN p
        OBVIOUS
      <3> QED BY <1>2, <2>1, <3>1 DEF Precedes
    <2> QED BY <2>1, <2>2, <2>3, <2>4
  <1>7. \A i, j \in 1..len : i < j =>
             /\ q[i].sequence_number < q[j].sequence_number
             /\ Precedes(q[i].notification_data, q[j].notification_data)
    BY <1>4 DEF InOrder
  <1>8. InOrder(queue, rest, next + 1, last)
    <2> SUFFICES ASSUME NEW i \in 1..(len + 1)
                 PROVE  /\ Ascending(queue[i].notification_data)
                        /\ Precedes(queue[i].notification_data, rest)
                        /\ UpTo(queue[i].notification_data, last)
                        /\ queue[i].sequence_number < next + 1
                        /\ \A j \in 1..(len + 1) : i < j =>
                              /\ queue[i].sequence_number < queue[j].sequence_number
                              /\ Precedes(queue[i].notification_data,
                                          queue[j].notification_data)
      BY <1>4 DEF InOrder
    <2>1. CASE i = len + 1
      <3>1. queue[i].notification_data = data /\ queue[i].sequence_number = next
        BY <1>3, <1>4, <2>1
      <3>2. next < next + 1 /\ \A j \in 1..(len + 1) : ~(i < j)
        BY <1>4, <2>1
      <3> QED BY <1>5, <3>1, <3>2
    <2>2. CASE i \in 1..len
      <3>1. queue[i] = q[i]
        BY <1>4, <2>2
      <3>2. ASSUME NEW j \in 1..(len + 1), i < j
            PROVE  /\ q[i].sequence_number < queue[j].sequence_number
                   /\ Precedes(q[i].notification_data, queue[j].notification_data)
        <4>1. CASE j = len + 1
          BY <1>3, <1>4, <1>6, <2>2, <4>1
        <4>2. CASE j \in 1..len
          BY <1>4, <1>7, <2>2, <3>2, <4>2
        <4> QED BY <1>4, <4>1, <4>2
      <3>3. q[i].sequence_number < next + 1
        BY <1>6, <2>2
      <3> QED BY <1>6, <2>2, <3>1, <3>2, <3>3
    <2> QED BY <1>4, <2>1, <2>2
  <1> QED BY <1>1, <1>3, <1>8 DEF queue, rest, data


(***************************************************************************)
(* The inductive invariant.                                                *)
(***************************************************************************)
\* The retained total is exact and within its bound; deque and messages are in
\* the order in which the notifications were queued, up to the last one.
QueueInv ==
    /\ parameters \in SubscriptionParameters
    /\ pending_notifications \in Seq(Entry)
    /\ retransmit_queue \in Seq(Message)
    /\ next_sequence_number \in Nat
    /\ queued \in Nat
    /\ RetainedIsExact
    /\ retained_notifications <= MaxRetransmitQueueNotifications
    /\ Ascending(pending_notifications)
    /\ UpTo(pending_notifications, queued)
    /\ InOrder(retransmit_queue, pending_notifications, next_sequence_number, queued)

\* Revised counts stay 32 bits wide, the wrapped lifetime included.
LEMMA RevisedIsTyped ==
    ASSUME NEW requested \in RequestedParameters
    PROVE  ReviseParameters(requested) \in SubscriptionParameters
  <1> DEFINE keep_alive == IF requested.max_keep_alive_count = 0
                           THEN DefaultKeepAliveCount
                           ELSE requested.max_keep_alive_count
             min_lifetime == (3 * keep_alive) % UInt32Modulus
             lifetime == IF requested.lifetime_count < min_lifetime
                         THEN min_lifetime ELSE requested.lifetime_count
  <1>1. requested \in SubscriptionParameters
    BY NotificationQueueAssumption
  <1>2. requested.lifetime_count \in UInt32 /\ requested.max_keep_alive_count \in UInt32
    BY <1>1 DEF SubscriptionParameters
  <1>3. keep_alive \in UInt32
    BY <1>2, NotificationQueueAssumption
  <1>4. min_lifetime \in UInt32
    <2>1. keep_alive \in Nat /\ UInt32Modulus \in Nat /\ UInt32Modulus > 0
      BY <1>3, NotificationQueueAssumption DEF UInt32
    <2> HIDE DEF keep_alive
    <2>2. 3 * keep_alive \in Nat
      BY <2>1
    <2>3. PICK x \in Nat : x = 3 * keep_alive
      BY <2>2
    <2>4. x % UInt32Modulus \in 0..(UInt32Modulus - 1)
      BY <2>1
    <2> QED BY <2>3, <2>4 DEF UInt32
  <1> HIDE DEF keep_alive, min_lifetime
  <1>5. lifetime \in UInt32
    BY <1>2, <1>4
  <1> HIDE DEF lifetime
  <1>6. ReviseParameters(requested) =
           [requested EXCEPT !.max_keep_alive_count = keep_alive,
                             !.lifetime_count = lifetime]
    BY DEF ReviseParameters, keep_alive, min_lifetime, lifetime
  <1> QED BY <1>1, <1>3, <1>5, <1>6 DEF SubscriptionParameters

\* A subscription starts with nothing queued, nothing retained and number 1.
LEMMA QueueInvInit == QueueInit => QueueInv
  <1> SUFFICES ASSUME QueueInit PROVE QueueInv
    OBVIOUS
  <1>1. /\ pending_notifications = <<>> /\ retransmit_queue = <<>>
        /\ retained_notifications = 0 /\ next_sequence_number = 1 /\ queued = 0
    BY DEF QueueInit
  <1>2. parameters \in SubscriptionParameters
    BY RevisedIsTyped DEF QueueInit
  <1>3. <<>> \in Seq(Message) /\ <<>> \in Seq(Entry) /\ Len(<<>>) = 0
    OBVIOUS
  <1>4. RetainedIsExact
    BY <1>1, <1>3, TotalsFacts DEF RetainedIsExact, Notifications
  <1>5. retained_notifications <= MaxRetransmitQueueNotifications
    BY <1>1, NotificationQueueAssumption
  <1>6. DOMAIN pending_notifications = {} /\ DOMAIN retransmit_queue = {}
    BY <1>1
  <1> QED BY <1>1, <1>2, <1>3, <1>4, <1>5, <1>6
          DEF QueueInv, Ascending, UpTo, InOrder

\* How much one TryPublish drains.
LEMMA MaxEntriesFacts ==
    ASSUME QueueInv, pending_notifications # <<>>
    PROVE  /\ MaxEntries \in 1..Len(pending_notifications)
           /\ MaxEntries <= MaxNotificationsPerPublishResponse
  <1> DEFINE limit == parameters.max_notifications_per_publish
             len == Len(pending_notifications)
             requested == IF limit = 0 THEN len ELSE limit
             S == {requested, MaxNotificationsPerPublishResponse, len}
  <1>1. limit \in Nat
    <2>1. \A p \in SubscriptionParameters : p.max_notifications_per_publish \in UInt32
      BY DEF SubscriptionParameters
    <2>2. UInt32 \subseteq Nat
      BY NotificationQueueAssumption DEF UInt32
    <2> QED BY <2>1, <2>2 DEF QueueInv
  <1>2. len \in Nat \ {0}
    BY DEF QueueInv
  <1> HIDE DEF limit, len
  <1>3. requested \in Nat \ {0}
    BY <1>1, <1>2
  <1>4. MaxNotificationsPerPublishResponse \in Nat \ {0}
    BY NotificationQueueAssumption
  <1>5. S \subseteq Nat \ {0} /\ S # {}
    BY <1>2, <1>3, <1>4
  <1>6. len \in S /\ MaxNotificationsPerPublishResponse \in S
    OBVIOUS
  <1>7. MaxEntries = Min(S)
    BY DEF MaxEntries, limit, len
  <1> HIDE DEF S
  <1>8. Min(S) \in S /\ \A x \in S : Min(S) <= x
    BY <1>5, MinFacts
  <1>9. Min(S) \in Nat \ {0} /\ Min(S) <= len /\ Min(S) <= MaxNotificationsPerPublishResponse
    BY <1>5, <1>6, <1>8
  <1> QED BY <1>2, <1>7, <1>9 DEF len

\* The eviction loop stops before the newest message and within the bound.
LEMMA EvictionsFacts ==
    ASSUME NEW queue \in Seq(Message), NEW message \in Message,
           Len(message.notification_data) <= MaxRetransmitQueueNotifications
    PROVE  LET longer == Append(queue, message)
               n == Evictions(longer, Notifications(longer))
           IN  /\ n \in 0..Len(queue)
               /\ Notifications(longer) - Totals(longer)[n] <= MaxRetransmitQueueNotifications
  <1> DEFINE longer == Append(queue, message)
             len == Len(queue)
             all == Notifications(longer)
             S == {n \in 0..(Len(longer) - 1) :
                      \/ n = Len(longer) - 1
                      \/ all - Totals(longer)[n] <= MaxRetransmitQueueNotifications}
  <1>1. /\ longer \in Seq(Message) /\ len \in Nat /\ Len(longer) = len + 1
        /\ longer[len + 1] = message
    OBVIOUS
  <1>2. /\ Totals(longer)[len + 1] =
              Totals(longer)[(len + 1) - 1] + Len(longer[len + 1].notification_data)
        /\ Totals(longer)[len] \in Nat
    <2>1. len + 1 \in 1..Len(longer) /\ len \in 0..Len(longer)
      BY <1>1
    <2> QED BY <1>1, <2>1, TotalsFacts
  <1>3. all = Totals(longer)[len + 1] /\ (len + 1) - 1 = len
    BY <1>1 DEF Notifications
  <1>4. Len(message.notification_data) \in Nat
    <2>1. \A x \in Message : Len(x.notification_data) \in Nat
      BY DEF Message
    <2> QED BY <2>1
  <1> HIDE DEF longer, len, all
  <1>5. all - Totals(longer)[len] <= MaxRetransmitQueueNotifications
    BY <1>1, <1>2, <1>3, <1>4
  <1>6. S \subseteq 0..len /\ len \in S
    BY <1>1
  <1>7. Evictions(longer, all) = Min(S)
    BY DEF Evictions
  <1>8. Min(S) \in S
    <2> HIDE DEF S
    <2>1. S \subseteq Nat /\ S # {}
      BY <1>1, <1>6
    <2> QED BY <2>1, MinFacts
  <1>9. \A n \in S : n \in 0..len /\ all - Totals(longer)[n] <= MaxRetransmitQueueNotifications
    BY <1>1, <1>5
  <1> HIDE DEF S
  <1> QED BY <1>7, <1>8, <1>9 DEF longer, len, all


\* What PublishNotifications takes from the deque is in the newest message,
\* which is the one Republish finds under its number.
LEMMA PublishedInOrder ==
    ASSUME QueueInv, PublishNotifications
    PROVE  /\ QueueInv'
           /\ \A n \in ToSet(pending_notifications) \ ToSet(pending_notifications') :
                 Republishable(retransmit_queue', next_sequence_number, n)
  <1>0. /\ pending_notifications \in Seq(Entry) /\ retransmit_queue \in Seq(Message)
        /\ next_sequence_number \in Nat /\ queued \in Nat
        /\ Ascending(pending_notifications) /\ UpTo(pending_notifications, queued)
        /\ InOrder(retransmit_queue, pending_notifications, next_sequence_number, queued)
        /\ retained_notifications = Notifications(retransmit_queue)
    BY DEF QueueInv, RetainedIsExact
  <1> DEFINE p == pending_notifications
             q == retransmit_queue
             number == next_sequence_number
  <1>1. PICK n \in 1..Len(p) : n = MaxEntries /\ n <= MaxNotificationsPerPublishResponse
    BY MaxEntriesFacts DEF PublishNotifications, HasPublishable
  <1>2. PICK message : message = [sequence_number |-> number,
                                  notification_data |-> SubSeq(p, 1, n)]
    OBVIOUS
  <1>3. /\ message \in Message /\ Len(message.notification_data) = n
        /\ InOrder(Append(q, message), SubSeq(p, n + 1, Len(p)), number + 1, queued)
        /\ message.sequence_number = number
        /\ message.notification_data = SubSeq(p, 1, n)
    <2> HIDE DEF p, q, number
    <2>1. /\ p \in Seq(Entry) /\ q \in Seq(Message) /\ number \in Nat
          /\ InOrder(q, p, number, queued) /\ Ascending(p) /\ UpTo(p, queued)
      BY <1>0 DEF p, q, number
    <2>2. /\ message \in Message /\ Len(message.notification_data) = n
          /\ InOrder(Append(q, message), SubSeq(p, n + 1, Len(p)), number + 1, queued)
      BY <1>0, <1>1, <1>2, <2>1, InOrderOfPublished
    <2> QED BY <1>2, <2>2
  <1>4. PICK longer : longer = Append(q, message)
    OBVIOUS
  <1>5. /\ longer \in Seq(Message) /\ Len(longer) = Len(q) + 1 /\ Len(q) \in Nat
        /\ longer[Len(q) + 1] = message
    BY <1>0, <1>3, <1>4
  <1>6. Notifications(longer) = retained_notifications + n
    BY <1>0, <1>3, <1>4, NotificationsOfAppend
  <1>7. PICK evicted : evicted = Evictions(longer, retained_notifications + n)
    OBVIOUS
  <1>8. /\ evicted \in 0..Len(q)
        /\ Notifications(longer) - Totals(longer)[evicted] <= MaxRetransmitQueueNotifications
    <2>1. n <= MaxRetransmitQueueNotifications
      BY <1>1, NotificationQueueAssumption
    <2> QED BY <1>0, <1>3, <1>4, <1>6, <1>7, <2>1, EvictionsFacts
  <1>9. /\ p' = SubSeq(p, n + 1, Len(p))
        /\ number' = number + 1
        /\ q' = SubSeq(longer, evicted + 1, Len(longer))
        /\ retained_notifications' = (retained_notifications + n) - Totals(longer)[evicted]
        /\ parameters' = parameters /\ queued' = queued
    BY <1>1, <1>2, <1>4, <1>7 DEF PublishNotifications
  <1>10. evicted \in 0..Len(longer)
    BY <1>5, <1>8
  <1>11. /\ q' \in Seq(Message) /\ Len(q') = Len(longer) - evicted
         /\ \A i \in 1..(Len(longer) - evicted) : q'[i] = longer[evicted + i]
         /\ InOrder(q', p', number', queued')
    <2>1. /\ SubSeq(longer, evicted + 1, Len(longer)) \in Seq(Message)
          /\ Len(SubSeq(longer, evicted + 1, Len(longer))) = Len(longer) - evicted
          /\ \A i \in 1..(Len(longer) - evicted) :
                SubSeq(longer, evicted + 1, Len(longer))[i] = longer[evicted + i]
          /\ \E e : Embeds(e, SubSeq(longer, evicted + 1, Len(longer)), longer)
      BY <1>5, <1>10, RestEmbeds
    <2>2. PICK e : Embeds(e, SubSeq(longer, evicted + 1, Len(longer)), longer)
      BY <2>1
    <2>3. InOrder(longer, SubSeq(p, n + 1, Len(p)), number + 1, queued)
      BY <1>3, <1>4
    <2>4. InOrder(SubSeq(longer, evicted + 1, Len(longer)),
                  SubSeq(p, n + 1, Len(p)), number + 1, queued)
      BY <1>5, <2>1, <2>2, <2>3, InOrderOfEmbedded
    <2> QED BY <1>9, <2>1, <2>4
  <1>12. /\ p' \in Seq(Entry) /\ Ascending(p') /\ UpTo(p', queued')
    <2>1. n \in 0..Len(p)
      OBVIOUS
    <2>2. /\ SubSeq(p, n + 1, Len(p)) \in Seq(Entry)
          /\ \E e : Embeds(e, SubSeq(p, n + 1, Len(p)), p)
      BY <1>0, <2>1, RestEmbeds
    <2>3. Ascending(SubSeq(p, n + 1, Len(p))) /\ UpTo(SubSeq(p, n + 1, Len(p)), queued)
      BY <1>0, <2>2, AscendingOfEmbedded
    <2> QED BY <1>9, <2>2, <2>3
  <1>13. /\ retained_notifications' = Notifications(q')
         /\ retained_notifications' <= MaxRetransmitQueueNotifications
    <2>1. Notifications(SubSeq(longer, evicted + 1, Len(longer))) =
             Notifications(longer) - Totals(longer)[evicted]
      BY <1>5, <1>10, NotificationsOfRest
    <2> QED BY <1>6, <1>8, <1>9, <2>1
  <1>14. QueueInv'
    <2>1. parameters' \in SubscriptionParameters /\ number' \in Nat /\ queued' \in Nat
      BY <1>0, <1>9 DEF QueueInv
    <2> QED BY <1>11, <1>12, <1>13, <2>1 DEF QueueInv, RetainedIsExact
  <1>15. ASSUME NEW x \in ToSet(p) \ ToSet(p')
         PROVE  Republishable(q', number, x)
    <2>1. PICK i \in 1..Len(p) : x = p[i]
      BY <1>0 DEF ToSet
    <2>2. i \in 1..n
      <3> SUFFICES ASSUME i > n PROVE FALSE
        BY <1>0
      <3>1. i - n \in 1..(Len(p) - n) /\ n + (i - n) = i /\ n \in 0..Len(p)
        BY <1>0
      <3>2. /\ SubSeq(p, n + 1, Len(p)) \in Seq(Entry)
            /\ Len(SubSeq(p, n + 1, Len(p))) = Len(p) - n
            /\ SubSeq(p, n + 1, Len(p))[i - n] = p[n + (i - n)]
        BY <1>0, <3>1, RestEmbeds
      <3>3. i - n \in DOMAIN SubSeq(p, n + 1, Len(p))
        BY <3>1, <3>2
      <3>4. x \in ToSet(SubSeq(p, n + 1, Len(p)))
        BY <2>1, <3>1, <3>2, <3>3 DEF ToSet
      <3> QED BY <1>9, <1>15, <3>4
    <2>3. x \in ToSet(message.notification_data)
      <3>1. i \in DOMAIN SubSeq(p, 1, n) /\ SubSeq(p, 1, n)[i] = p[i]
        BY <1>0, <2>2
      <3> QED BY <1>3, <2>1, <3>1 DEF ToSet
    <2>4. PICK k : k = Len(longer) - evicted
      OBVIOUS
    <2>5. /\ k \in 1..k /\ k = Len(q') /\ evicted + k = Len(q) + 1
          /\ q'[k] = message
      BY <1>5, <1>8, <1>11, <2>4
    <2>6. ASSUME NEW j \in 1..(k - 1) PROVE q'[j].sequence_number # number
      <3>1. j \in DOMAIN q' /\ k \in DOMAIN q' /\ j < k
        BY <1>11, <2>5
      <3>2. q'[j].sequence_number < q'[k].sequence_number
        BY <1>11, <3>1 DEF InOrder
      <3> QED BY <1>0, <1>3, <2>5, <3>2
    <2>7. k \in Republish(q', number)
      BY <1>3, <1>11, <2>5, <2>6 DEF Republish
    <2> QED BY <2>3, <2>5, <2>7 DEF Republishable
  <1> QED BY <1>14, <1>15


\* A handler queues for at least one item, each with a queue size.
LEMMA BatchIsTyped ==
    ASSUME NEW sources \in Batches, NEW p \in [Items -> MonitoringParameters]
    PROVE  /\ sources \in Seq(Items) /\ Len(sources) \in Nat \ {0}
           /\ \A k \in 1..Len(sources) : p[sources[k]].queue_size \in Nat
  <1>1. PICK n \in 1..MaxBatch : sources \in [1..n -> Items]
    BY DEF Batches
  <1>2. n \in Nat \ {0}
    BY <1>1, NotificationQueueAssumption
  <1>3. sources \in Seq(Items) /\ Len(sources) = n
    BY <1>1, <1>2, SeqDef
  <1>4. \A k \in 1..n : p[sources[k]] \in MonitoringParameters
    BY <1>1
  <1>5. \A x \in MonitoringParameters : x.queue_size \in Nat
    BY NotificationQueueAssumption
  <1> QED BY <1>2, <1>3, <1>4, <1>5


\* Queueing keeps everything in order and leaves every item that had a
\* notification in the deque one there.
LEMMA QueuedInOrder ==
    ASSUME QueueInv, NEW sources \in Seq(Items), NEW p,
           \A k \in 1..Len(sources) : p[sources[k]].queue_size \in Nat,
           QueueNotifications(sources, p)
    PROVE  /\ QueueInv'
           /\ PushedFrom(pending_notifications', pending_notifications, queued, queued',
                         sources, p)
  <1>0. /\ pending_notifications \in Seq(Entry) /\ retransmit_queue \in Seq(Message)
        /\ queued \in Nat /\ Len(sources) \in Nat
        /\ Ascending(pending_notifications) /\ UpTo(pending_notifications, queued)
        /\ InOrder(retransmit_queue, pending_notifications, next_sequence_number, queued)
    BY DEF QueueInv
  <1>1. /\ pending_notifications' = Pushes(sources, p)[Len(sources)]
        /\ queued' = queued + Len(sources) /\ queued' \in Nat /\ queued <= queued'
        /\ parameters' = parameters /\ retransmit_queue' = retransmit_queue
        /\ retained_notifications' = retained_notifications
        /\ next_sequence_number' = next_sequence_number
    BY <1>0 DEF QueueNotifications, publish_vars
  <1>2. PushedFrom(pending_notifications', pending_notifications, queued, queued',
                   sources, p)
    <2>1. PICK n \in Nat : n = queued
      BY <1>0
    <2>2. UpTo(pending_notifications, n)
      BY <1>0, <2>1
    <2>3. PushedFrom(Pushes(sources, p)[Len(sources)], pending_notifications,
                     n, n + Len(sources), sources, p)
      BY <1>0, <2>1, <2>2, BatchFacts
    <2> QED BY <1>1, <2>1, <2>3
  <1>3. /\ pending_notifications' \in Seq(Entry)
        /\ Ascending(pending_notifications') /\ UpTo(pending_notifications', queued')
        /\ \A i \in DOMAIN pending_notifications' :
              \/ pending_notifications'[i].serial > queued
              \/ \E j \in DOMAIN pending_notifications :
                    pending_notifications'[i] = pending_notifications[j]
    BY <1>2 DEF PushedFrom
  <1>4. \A i \in DOMAIN pending_notifications' : pending_notifications'[i].serial \in Nat
    <2>1. \A entry \in Entry : entry.serial \in Nat
      BY DEF Entry
    <2> QED BY <1>3, <2>1
  <1>5. InOrder(retransmit_queue, pending_notifications', next_sequence_number, queued')
    BY <1>0, <1>1, <1>3, <1>4, InOrderOfPending
  <1>6. QueueInv'
    BY <1>1, <1>3, <1>5 DEF QueueInv, RetainedIsExact
  <1> QED BY <1>2, <1>6

\* The erase takes out notifications of that item only.
LEMMA DroppedInOrder ==
    ASSUME QueueInv, NEW item, DropItem(item)
    PROVE  /\ QueueInv'
           /\ \A n \in ToSet(pending_notifications) \ ToSet(pending_notifications') :
                 n.source = item
  <1>0. /\ pending_notifications \in Seq(Entry) /\ retransmit_queue \in Seq(Message)
        /\ queued \in Nat
        /\ Ascending(pending_notifications) /\ UpTo(pending_notifications, queued)
        /\ InOrder(retransmit_queue, pending_notifications, next_sequence_number, queued)
    BY DEF QueueInv
  <1>1. PICK keep : keep = {i \in DOMAIN pending_notifications :
                               pending_notifications[i].source # item}
    OBVIOUS
  <1>2. /\ pending_notifications' = KeepAt(pending_notifications, keep)
        /\ parameters' = parameters /\ retransmit_queue' = retransmit_queue
        /\ retained_notifications' = retained_notifications
        /\ next_sequence_number' = next_sequence_number /\ queued' = queued
    BY <1>1 DEF DropItem, publish_vars
  <1>3. PICK e : /\ pending_notifications' \in Seq(Entry)
                 /\ Embeds(e, pending_notifications', pending_notifications)
                 /\ \A k \in 1..Len(pending_notifications) : k \in keep =>
                       \E i \in DOMAIN e : e[i] = k
    BY <1>0, <1>2, KeepAtEmbeds
  <1>4. /\ Ascending(pending_notifications') /\ UpTo(pending_notifications', queued)
        /\ \A i \in DOMAIN pending_notifications' :
              \E j \in DOMAIN pending_notifications :
                 pending_notifications'[i] = pending_notifications[j]
    BY <1>0, <1>3, AscendingOfEmbedded
  <1>5. \A i \in DOMAIN pending_notifications' : pending_notifications'[i].serial \in Nat
    <2>1. \A entry \in Entry : entry.serial \in Nat
      BY DEF Entry
    <2> QED BY <1>3, <2>1
  <1>6. InOrder(retransmit_queue, pending_notifications', next_sequence_number, queued)
    BY <1>0, <1>4, <1>5, InOrderOfPending
  <1>7. QueueInv'
    BY <1>2, <1>3, <1>4, <1>6 DEF QueueInv, RetainedIsExact
  <1>8. ASSUME NEW n \in ToSet(pending_notifications) \ ToSet(pending_notifications'),
               n.source # item
        PROVE  FALSE
    <2>1. PICK k \in DOMAIN pending_notifications : n = pending_notifications[k]
      BY DEF ToSet
    <2>2. k \in keep /\ k \in 1..Len(pending_notifications)
      BY <1>0, <1>1, <1>8, <2>1
    <2>3. PICK i \in DOMAIN e : e[i] = k
      BY <1>3, <2>2
    <2>4. i \in DOMAIN pending_notifications' /\ pending_notifications'[i] = n
      BY <1>3, <2>1, <2>3 DEF Embeds
    <2>5. n \in ToSet(pending_notifications')
      BY <2>4 DEF ToSet
    <2> QED BY <1>8, <2>5
  <1> QED BY <1>7, <1>8

\* Acknowledging takes messages out of the middle, and their notifications off
\* the count.
LEMMA AcknowledgedInOrder ==
    ASSUME QueueInv, NEW numbers, Acknowledge(numbers)
    PROVE  QueueInv'
  <1>0. /\ retransmit_queue \in Seq(Message) /\ queued \in Nat
        /\ InOrder(retransmit_queue, pending_notifications, next_sequence_number, queued)
        /\ retained_notifications = Notifications(retransmit_queue)
        /\ retained_notifications <= MaxRetransmitQueueNotifications
    BY DEF QueueInv, RetainedIsExact
  <1>1. PICK places : places = PlacesOf(numbers)
    OBVIOUS
  <1>2. PICK kept : kept = DOMAIN retransmit_queue \ places
    OBVIOUS
  <1>3. /\ retransmit_queue' = KeepAt(retransmit_queue, kept)
        /\ retained_notifications' = retained_notifications
              - Notifications(KeepAt(retransmit_queue, places))
        /\ parameters' = parameters /\ pending_notifications' = pending_notifications
        /\ next_sequence_number' = next_sequence_number /\ queued' = queued
    BY <1>1, <1>2 DEF Acknowledge
  <1>4. places \in SUBSET DOMAIN retransmit_queue
    BY <1>1 DEF PlacesOf
  <1>5. /\ retransmit_queue' \in Seq(Message)
        /\ \E e : Embeds(e, retransmit_queue', retransmit_queue)
    BY <1>0, <1>3, KeepAtEmbeds
  <1>6. InOrder(retransmit_queue', pending_notifications, next_sequence_number, queued)
    BY <1>0, <1>5, InOrderOfEmbedded
  <1>7. retained_notifications' = Notifications(retransmit_queue')
    BY <1>0, <1>2, <1>3, <1>4, NotificationsOfKeepAt
  <1>8. retained_notifications' <= MaxRetransmitQueueNotifications
    <2>1. KeepAt(retransmit_queue, places) \in Seq(Message)
      BY <1>0, KeepAtEmbeds
    <2>2. \A q \in Seq(Message) : Notifications(q) \in Nat
      BY TotalsFacts DEF Notifications
    <2> QED BY <1>0, <1>3, <2>1, <2>2, NotificationQueueAssumption
  <1> QED BY <1>3, <1>5, <1>6, <1>7, <1>8 DEF QueueInv, RetainedIsExact

\* Every step of the queue keeps it: one case per handler.
LEMMA QueueInvNext == QueueInv /\ [QueueNext]_queue_vars => QueueInv'
  <1> SUFFICES ASSUME QueueInv, [QueueNext]_queue_vars PROVE QueueInv'
    OBVIOUS
  <1> DEFINE Untouched ==
         /\ pending_notifications' = pending_notifications
         /\ retransmit_queue' = retransmit_queue
         /\ retained_notifications' = retained_notifications
         /\ next_sequence_number' = next_sequence_number /\ queued' = queued
  <1>0. ASSUME parameters' \in SubscriptionParameters, Untouched PROVE QueueInv'
    BY <1>0 DEF QueueInv, RetainedIsExact
  <1>1. ASSUME NEW item \in Items, DropItem(item) PROVE QueueInv'
    BY <1>1, DroppedInOrder
  <1>2. ASSUME NEW requested \in RequestedParameters, Modify(requested) PROVE QueueInv'
    <2>1. parameters' \in SubscriptionParameters /\ Untouched
      BY <1>2, RevisedIsTyped DEF Modify, publish_vars
    <2> QED BY <1>0, <2>1
  <1>3. ASSUME NEW enabled \in BOOLEAN, SetPublishingEnabled(enabled) PROVE QueueInv'
    <2>1. [parameters EXCEPT !.publishing_enabled = enabled] \in SubscriptionParameters
      BY DEF QueueInv, SubscriptionParameters
    <2>2. parameters' \in SubscriptionParameters /\ Untouched
      BY <1>3, <2>1 DEF SetPublishingEnabled, publish_vars
    <2> QED BY <1>0, <2>2
  <1>4. CASE PublishKeepAlive
    <2>1. parameters' \in SubscriptionParameters /\ Untouched
      BY <1>4 DEF PublishKeepAlive, QueueInv
    <2> QED BY <1>0, <2>1
  <1>5. CASE PublishNotifications
    BY <1>5, PublishedInOrder
  <1>6. ASSUME NEW numbers \in SUBSET (1..next_sequence_number), Acknowledge(numbers)
        PROVE  QueueInv'
    BY <1>6, AcknowledgedInOrder
  <1>7. CASE TimePasses
    <2>1. parameters' \in SubscriptionParameters /\ Untouched
      BY <1>7 DEF TimePasses, publish_vars, QueueInv
    <2> QED BY <1>0, <2>1
  <1>8. ASSUME NEW sources \in Batches, NEW p \in [Items -> MonitoringParameters],
               QueueNotifications(sources, p)
        PROVE  QueueInv'
    BY <1>8, QueuedInOrder, BatchIsTyped
  <1>9. CASE UNCHANGED queue_vars
    <2>1. parameters' \in SubscriptionParameters /\ Untouched
      BY <1>9 DEF queue_vars, publish_vars, QueueInv
    <2> QED BY <1>0, <2>1
  <1> HIDE DEF Untouched
  <1> QED BY <1>1, <1>2, <1>3, <1>4, <1>5, <1>6, <1>7, <1>8, <1>9 DEF QueueNext

\* The inductive invariant holds throughout.
THEOREM QueueStaysInOrder == QueueSpec => []QueueInv
  BY QueueInvInit, QueueInvNext, PTL DEF QueueSpec

\* retained_notifications_ follows publishes, evictions and acknowledgements
\* exactly, for any queue lengths and limits.
THEOREM RetainedStaysExact == QueueSpec => []RetainedIsExact
  <1>1. QueueInv => RetainedIsExact
    BY DEF QueueInv
  <1> QED BY <1>1, QueueStaysInOrder, PTL

\* The eviction loop always ends within the bound: what is retained never
\* exceeds it, although the newest message is never evicted.
THEOREM RetainedStaysBounded ==
    QueueSpec => [](retained_notifications <= MaxRetransmitQueueNotifications)
  <1>1. QueueInv => retained_notifications <= MaxRetransmitQueueNotifications
    BY DEF QueueInv
  <1> QED BY <1>1, QueueStaysInOrder, PTL

\* Notifications are delivered in the order they were queued, in messages whose
\* numbers grow, however many items, notifications and messages there are.
THEOREM DeliveryStaysInOrder == QueueSpec => []DeliveryInOrder
  <1>1. QueueInv => DeliveryInOrder
    BY DEF QueueInv, InOrder, DeliveryInOrder
  <1> QED BY <1>1, QueueStaysInOrder, PTL

\* What becomes of the notifications that leave the deque, in the steps that may
\* take any out.
LEMMA LeavingIsAccountedFor ==
    ASSUME QueueInv, NEW n \in ToSet(pending_notifications) \ ToSet(pending_notifications'),
           \/ pending_notifications' = pending_notifications
           \/ \E item : DropItem(item)
           \/ PublishNotifications
           \/ \E sources \in Seq(Items) : \E p :
                 /\ Len(sources) # 0
                 /\ \A k \in 1..Len(sources) : p[sources[k]].queue_size \in Nat
                 /\ QueueNotifications(sources, p)
    PROVE  \/ Republishable(retransmit_queue', next_sequence_number, n)
           \/ DropItem(n.source)
           \/ /\ queued' > queued
              /\ \E m \in ToSet(pending_notifications') : m.source = n.source
  <1> DEFINE Accounted ==
                \/ Republishable(retransmit_queue', next_sequence_number, n)
                \/ DropItem(n.source)
                \/ /\ queued' > queued
                   /\ \E m \in ToSet(pending_notifications') : m.source = n.source
  <1>0. CASE pending_notifications' = pending_notifications
    BY <1>0
  <1>1. ASSUME NEW item, DropItem(item) PROVE Accounted
    <2>1. n.source = item
      BY <1>1, DroppedInOrder
    <2> QED BY <1>1, <2>1
  <1>2. CASE PublishNotifications
    BY <1>2, PublishedInOrder
  <1>3. ASSUME NEW sources \in Seq(Items), NEW p, Len(sources) # 0,
               \A k \in 1..Len(sources) : p[sources[k]].queue_size \in Nat,
               QueueNotifications(sources, p)
        PROVE  Accounted
    <2>1. PushedFrom(pending_notifications', pending_notifications, queued, queued',
                     sources, p)
      BY <1>3, QueuedInOrder
    <2>2. PICK j \in DOMAIN pending_notifications : n = pending_notifications[j]
      BY DEF ToSet
    <2>3. PICK i \in DOMAIN pending_notifications' :
             pending_notifications'[i].source = n.source
      BY <2>1, <2>2 DEF PushedFrom
    <2>4. pending_notifications'[i] \in ToSet(pending_notifications')
      BY DEF ToSet
    <2>5. queued' > queued
      BY <1>3 DEF QueueNotifications, QueueInv
    <2> QED BY <2>3, <2>4, <2>5
  <1>4. CASE \E item : DropItem(item)
    <2>1. PICK item : DropItem(item)
      BY <1>4
    <2> QED BY <1>1, <2>1
  <1>5. CASE \E sources \in Seq(Items) : \E p :
                /\ Len(sources) # 0
                /\ \A k \in 1..Len(sources) : p[sources[k]].queue_size \in Nat
                /\ QueueNotifications(sources, p)
    <2>1. PICK sources \in Seq(Items) : \E p :
             /\ Len(sources) # 0
             /\ \A k \in 1..Len(sources) : p[sources[k]].queue_size \in Nat
             /\ QueueNotifications(sources, p)
      BY <1>5
    <2>2. PICK p :
             /\ Len(sources) # 0
             /\ \A k \in 1..Len(sources) : p[sources[k]].queue_size \in Nat
             /\ QueueNotifications(sources, p)
      BY <2>1
    <2> QED BY <1>3, <2>2
  <1> QED BY <1>0, <1>2, <1>4, <1>5

\* A queued notification leaves the deque only inside a message Republish then
\* finds, together with its item, or in favour of another one of that item.
THEOREM NothingIsLost == QueueSpec => NothingLost
  <1>1. ASSUME QueueInv, [QueueNext]_queue_vars
        PROVE  \/ pending_notifications' = pending_notifications
               \/ \E item : DropItem(item)
               \/ PublishNotifications
               \/ \E sources \in Seq(Items) : \E p :
                     /\ Len(sources) # 0
                     /\ \A k \in 1..Len(sources) : p[sources[k]].queue_size \in Nat
                     /\ QueueNotifications(sources, p)
    <2>1. \/ pending_notifications' = pending_notifications
          \/ \E item \in Items : DropItem(item)
          \/ PublishNotifications
          \/ \E sources \in Batches, p \in [Items -> MonitoringParameters] :
                QueueNotifications(sources, p)
      BY <1>1 DEF QueueNext, queue_vars, Modify, SetPublishingEnabled, PublishKeepAlive,
                  Acknowledge, TimePasses
    <2> QED BY <2>1, BatchIsTyped
  <1>2. QueueInv /\ [QueueNext]_queue_vars =>
           [\A n \in ToSet(pending_notifications) \ ToSet(pending_notifications') :
              \/ Republishable(retransmit_queue', next_sequence_number, n)
              \/ DropItem(n.source)
              \/ /\ queued' > queued
                 /\ \E m \in ToSet(pending_notifications') : m.source = n.source]_queue_vars
    BY <1>1, LeavingIsAccountedFor
  <1> QED BY <1>2, QueueStaysInOrder, PTL DEF NothingLost, QueueSpec

(***************************************************************************)
(* The items and their bindings.                                           *)
(***************************************************************************)
\* Adding a coroutine keeps the coroutines well formed.
LEMMA BindItemType ==
    ASSUME ItemsTypeOK, NEW i \in ItemIds, BindItem(i)
    PROVE  /\ next_backing_client_handle' \in 1..(MaxBindings + 1)
           /\ DOMAIN binds' = DOMAIN binds \cup {next_backing_client_handle}
           /\ DOMAIN binds' \subseteq 1..(next_backing_client_handle' - 1)
           /\ binds' \in [DOMAIN binds' -> Bind]
           /\ binds'[next_backing_client_handle].stage = "asked"
           /\ \A h \in DOMAIN binds : binds'[h] = binds[h]
<1> USE MonitoredItemsAssumption
<1> DEFINE next == next_backing_client_handle
           bind == [item |-> i, stage |-> "asked"]
<1>1. /\ next \in Handles /\ next' = next + 1
      /\ binds' = Put(binds, next, bind)
    BY DEF BindItem
<1>2. next \notin DOMAIN binds
    BY DEF ItemsTypeOK
<1>3. bind \in Bind /\ bind.stage = "asked"
    BY DEF Bind
<1> HIDE DEF bind
<1>4. /\ DOMAIN binds' = DOMAIN binds \cup {next}
      /\ binds'[next] = bind
      /\ \A h \in DOMAIN binds : binds'[h] = binds[h]
    BY <1>1, <1>2 DEF Put
<1>5. binds' \in [DOMAIN binds' -> Bind]
    BY <1>1, <1>3, <1>4 DEF ItemsTypeOK, Put
<1>6. DOMAIN binds' \subseteq 1..(next' - 1)
    BY <1>1, <1>4 DEF ItemsTypeOK, Handles
<1> QED
    BY <1>1, <1>3, <1>4, <1>5, <1>6 DEF Handles

\* Ending a coroutine keeps the others.
LEMMA DropBindType ==
    ASSUME ItemsTypeOK, NEW h, binds' = Drop(binds, h)
    PROVE  /\ DOMAIN binds' = DOMAIN binds \ {h}
           /\ binds' \in [DOMAIN binds' -> Bind]
           /\ \A g \in DOMAIN binds' : binds'[g] = binds[g]
  BY DEF Drop, ItemsTypeOK

\* RebindItem: what ModifyMonitoredItem makes of the item.
LEMMA ReboundItem ==
    ASSUME ItemsTypeOK, NEW i \in DOMAIN items, NEW p \in ItemParameters,
           next_backing_client_handle \in Handles,
           items' = [items EXCEPT ![i].parameters = p,
                        ![i].backing_item_id = 0,
                        ![i].backing_client_handle = next_backing_client_handle]
    PROVE  /\ DOMAIN items' = DOMAIN items
           /\ items' \in [DOMAIN items -> Item]
           /\ items'[i].backing_item_id = 0
           /\ items'[i].backing_client_handle = next_backing_client_handle
           /\ \A j \in DOMAIN items : j # i => items'[j] = items[j]
<1> DEFINE r0 == items[i]
           r1 == [r0 EXCEPT !.parameters = p]
           r2 == [r1 EXCEPT !.backing_item_id = 0]
           r3 == [r2 EXCEPT !.backing_client_handle = next_backing_client_handle]
<1>0. r0 \in Item
    BY DEF ItemsTypeOK
<1>a. items' = [items EXCEPT ![i] = r3]
  <2> DEFINE t1 == [items EXCEPT ![i].parameters = p]
             t2 == [t1 EXCEPT ![i].backing_item_id = 0]
  <2>1. items' = [t2 EXCEPT ![i].backing_client_handle = next_backing_client_handle]
      OBVIOUS
  <2>2. t1 = [items EXCEPT ![i] = r1] /\ t1[i] = r1
      OBVIOUS
  <2>3. t2 = [t1 EXCEPT ![i] = [t1[i] EXCEPT !.backing_item_id = 0]]
      OBVIOUS
  <2> HIDE DEF t1, t2, r1
  <2>4. t2 = [t1 EXCEPT ![i] = r2]
      BY <2>2, <2>3
  <2> HIDE DEF r2
  <2>5. t2 = [items EXCEPT ![i] = r2] /\ t2[i] = r2
      BY <2>2, <2>4
  <2>6. items' = [t2 EXCEPT ![i] = [t2[i] EXCEPT
                     !.backing_client_handle = next_backing_client_handle]]
      BY <2>1
  <2>7. items' = [t2 EXCEPT ![i] = r3]
      BY <2>5, <2>6
  <2> HIDE DEF r3
  <2> QED
      BY <2>5, <2>7
<1> HIDE DEF r0
<1>1. r1 \in Item
    BY <1>0 DEF Item
<1> HIDE DEF r1
<1>2. r2 \in Item /\ r2.backing_item_id = 0
    BY <1>1 DEF Item
<1> HIDE DEF r2
<1>3. /\ r3 \in Item /\ r3.backing_item_id = 0
      /\ r3.backing_client_handle = next_backing_client_handle
    BY <1>2 DEF Item
<1> HIDE DEF r3
<1>4. /\ DOMAIN items' = DOMAIN items /\ items'[i] = r3
      /\ \A j \in DOMAIN items : j # i => items'[j] = items[j]
    BY <1>a
<1>5. items' \in [DOMAIN items -> Item]
    BY <1>a, <1>3 DEF ItemsTypeOK
<1> QED
    BY <1>3, <1>4, <1>5

\* The services preserve the invariant.
LEMMA ServiceStep ==
    ASSUME BindingInvariant,
           \/ \E attribute \in Attributes :
                 \/ CreateMonitoredItemRejected(attribute)
                 \/ \E reporting \in BOOLEAN, p \in ItemParameters :
                       CreateMonitoredItem(attribute, reporting, p)
           \/ \E i \in ItemIds :
                 \/ \E p \in ItemParameters : ModifyMonitoredItem(i, p)
                 \/ DeleteMonitoredItem(i)
                 \/ \E reporting \in BOOLEAN : SetMonitoringMode(i, reporting)
    PROVE  BindingInvariant'
<1> USE MonitoredItemsAssumption
<1> DEFINE next == next_backing_client_handle
<1>t. /\ ItemsTypeOK
      /\ items \in [DOMAIN items -> Item]
      /\ binds \in [DOMAIN binds -> Bind]
      /\ DOMAIN items \subseteq 1..(next_monitored_item_id - 1)
      /\ next_monitored_item_id \in 1..(MaxItems + 1)
    BY DEF BindingInvariant, ItemsTypeOK
<1>h. \A i \in DOMAIN items : /\ items[i].backing_client_handle < next
                              /\ items[i].backing_item_id \in Handles \cup {0}
                              /\ items[i].backing_item_id < next
  <2>1. \A i \in DOMAIN items : /\ items[i].backing_client_handle < next
                                /\ items[i].backing_item_id \in Handles \cup {0}
      BY <1>t DEF BindingInvariant, Item
  <2>2. next \in Nat /\ 0 < next
      BY DEF BindingInvariant, ItemsTypeOK
  <2> QED
      BY <2>1, <2>2 DEF BindingInvariant, UsedIsBound
<1>1. ASSUME NEW attribute, CreateMonitoredItemRejected(attribute)
      PROVE  BindingInvariant'
    BY <1>1 DEF CreateMonitoredItemRejected, BindingInvariant, ItemsTypeOK,
                NoStrandedBinding, UsedIsBound, InUse, ItemIds
<1>2. ASSUME NEW attribute \in Attributes, NEW reporting \in BOOLEAN,
             NEW p \in ItemParameters,
             CreateMonitoredItem(attribute, reporting, p)
      PROVE  BindingInvariant'
  <2> DEFINE id == next_monitored_item_id
             item == [attribute |-> attribute, reporting |-> reporting,
                      parameters |-> p, backing_item_id |-> 0,
                      backing_client_handle |-> next]
  <2>1. /\ id \in ItemIds /\ id' = id + 1 /\ next \in Handles /\ next' = next + 1
        /\ items' = Put(items, id, item)
        /\ backing' \in BackingStates
        /\ backing # "closed"
        /\ removals' = removals /\ bound' = bound
        /\ BindItem(id)
      BY <1>2, <1>t DEF CreateMonitoredItem, BindItem, BackingStates, ItemsTypeOK
  <2>2. /\ item \in Item /\ item.backing_item_id = 0
        /\ item.backing_client_handle = next
      BY <1>2, <2>1 DEF Item, Attributes, CreateMonitoredItem
  <2>3. id \notin DOMAIN items
      BY <1>t
  <2> HIDE DEF item
  <2>4. /\ DOMAIN items' = DOMAIN items \cup {id} /\ items'[id] = item
        /\ \A j \in DOMAIN items : items'[j] = items[j]
      BY <2>1, <2>3 DEF Put
  <2>5. items' \in [DOMAIN items' -> Item]
      BY <2>1, <2>2, <2>4, <1>t DEF Put
  <2>6. /\ next' \in 1..(MaxBindings + 1)
        /\ DOMAIN binds' = DOMAIN binds \cup {next}
        /\ DOMAIN binds' \subseteq 1..(next' - 1)
        /\ binds' \in [DOMAIN binds' -> Bind]
        /\ binds'[next].stage = "asked"
        /\ \A g \in DOMAIN binds : binds'[g] = binds[g]
      BY <2>1, <1>t, BindItemType
  <2>7. ItemsTypeOK'
      BY <2>1, <2>4, <2>5, <2>6, <1>t DEF ItemsTypeOK, ItemIds
  <2>8. \A g : g # 0 => (InUse(g)' <=> InUse(g))
      BY <2>2, <2>3, <2>4 DEF InUse
  <2>9. 0 \notin bound /\ 0 \notin DOMAIN binds
      BY <1>t DEF ItemsTypeOK, Handles
  <2>10. NoStrandedBinding'
      BY <2>1, <2>6, <2>8, <2>9 DEF BindingInvariant, NoStrandedBinding
  <2>11. UsedIsBound'
      BY <2>1, <2>2, <2>4 DEF BindingInvariant, UsedIsBound
  <2>12. next \notin removals /\ ~InUse(next) /\ next # 0
      BY <2>1, <1>h DEF BindingInvariant, InUse, Handles
  <2>13. \A g \in DOMAIN binds' :
            /\ g \notin removals' /\ ~InUse(g)'
            /\ backing' # "closed" /\ binds'[g].stage = "added" => g \in bound'
      BY <2>1, <2>6, <2>8, <2>9, <2>12 DEF BindingInvariant
  <2>14. \A j \in DOMAIN items' : items'[j].backing_client_handle < next'
      BY <2>1, <2>2, <2>4, <1>h, <1>t DEF Handles, Item
  <2>15. \A g \in removals' : g < next'
      BY <2>1, <1>t DEF BindingInvariant, ItemsTypeOK, Handles
  <2> QED
      BY <2>7, <2>10, <2>11, <2>13, <2>14, <2>15 DEF BindingInvariant
<1>3. ASSUME NEW i, NEW p \in ItemParameters, ModifyMonitoredItem(i, p)
      PROVE  BindingInvariant'
  <2> DEFINE old == items[i].backing_item_id
  <2>1. /\ i \in DOMAIN items /\ next \in Handles /\ next' = next + 1
        /\ removals' = removals \cup ({old} \ {0})
        /\ backing # "closed"
        /\ UNCHANGED <<next_monitored_item_id, backing, bound>>
        /\ BindItem(i)
      BY <1>3 DEF ModifyMonitoredItem, RebindItem, BindItem, RemoveBackingItem
  <2>2. /\ DOMAIN items' = DOMAIN items
        /\ items' \in [DOMAIN items -> Item]
        /\ items'[i].backing_item_id = 0
        /\ items'[i].backing_client_handle = next
        /\ \A j \in DOMAIN items : j # i => items'[j] = items[j]
      BY <1>3, <2>1, <1>t, ReboundItem DEF ModifyMonitoredItem
  <2>3. i \in ItemIds
      BY <2>1, <1>t DEF ItemIds
  <2>4. /\ next' \in 1..(MaxBindings + 1)
        /\ DOMAIN binds' = DOMAIN binds \cup {next}
        /\ DOMAIN binds' \subseteq 1..(next' - 1)
        /\ binds' \in [DOMAIN binds' -> Bind]
        /\ binds'[next].stage = "asked"
        /\ \A g \in DOMAIN binds : binds'[g] = binds[g]
      BY <2>1, <2>3, <1>t, BindItemType
  <2>5. ItemsTypeOK'
      BY <2>1, <2>2, <2>4, <1>t, <1>h DEF ItemsTypeOK
  <2>6. /\ \A g : g # 0 /\ InUse(g)' => InUse(g)
        /\ \A g : InUse(g) => InUse(g)' \/ g = old
      BY <2>1, <2>2 DEF InUse
  <2>7. 0 \notin bound /\ 0 \notin DOMAIN binds
      BY <1>t DEF ItemsTypeOK, Handles
  <2>8. NoStrandedBinding'
      BY <2>1, <2>4, <2>6, <2>7 DEF BindingInvariant, NoStrandedBinding
  <2>9. UsedIsBound'
      BY <2>1, <2>2 DEF BindingInvariant, UsedIsBound
  <2>10. next \notin removals' /\ ~InUse(next) /\ next # 0
      BY <2>1, <1>h, <1>t DEF BindingInvariant, InUse, Handles, ItemsTypeOK
  <2>11. InUse(old)
      BY <2>1 DEF InUse
  <2>12. \A g \in DOMAIN binds' :
            /\ g \notin removals' /\ ~InUse(g)'
            /\ backing' # "closed" /\ binds'[g].stage = "added" => g \in bound'
    <3> SUFFICES ASSUME NEW g \in DOMAIN binds'
                 PROVE  /\ g \notin removals' /\ ~InUse(g)'
                        /\ binds'[g].stage = "added" => g \in bound'
        OBVIOUS
    <3>1. CASE g = next
        BY <3>1, <2>4, <2>6, <2>10
    <3>2. CASE g \in DOMAIN binds
      <4>1. g # old /\ g # 0 /\ ~InUse(g)
          BY <3>2, <2>7, <2>11 DEF BindingInvariant
      <4> QED
          BY <3>2, <4>1, <2>1, <2>4, <2>6 DEF BindingInvariant
    <3> QED
        BY <3>1, <3>2, <2>4
  <2>13. \A j \in DOMAIN items' : items'[j].backing_client_handle < next'
      BY <2>1, <2>2, <1>h, <1>t DEF Handles, Item
  <2>14. \A g \in removals' : g < next'
      BY <2>1, <1>h, <1>t DEF BindingInvariant, ItemsTypeOK, Handles
  <2> QED
      BY <2>5, <2>8, <2>9, <2>12, <2>13, <2>14 DEF BindingInvariant
<1>4. ASSUME NEW i, DeleteMonitoredItem(i)
      PROVE  BindingInvariant'
  <2> DEFINE old == items[i].backing_item_id
  <2>1. /\ i \in DOMAIN items
        /\ items' = Drop(items, i)
        /\ removals' = removals \cup ({old} \ {0})
        /\ UNCHANGED <<next_monitored_item_id, next_backing_client_handle,
                       backing, binds, bound>>
      BY <1>4 DEF DeleteMonitoredItem, RemoveBackingItem
  <2>2. /\ DOMAIN items' = DOMAIN items \ {i}
        /\ items' \in [DOMAIN items' -> Item]
        /\ \A j \in DOMAIN items' : items'[j] = items[j]
      BY <2>1, <1>t DEF Drop
  <2>3. ItemsTypeOK'
      BY <2>1, <2>2, <1>t, <1>h DEF ItemsTypeOK
  <2>4. /\ \A g : InUse(g)' => InUse(g)
        /\ \A g : InUse(g) => InUse(g)' \/ g = old
      BY <2>1, <2>2 DEF InUse
  <2>5. NoStrandedBinding'
    <3>1. 0 \notin bound
        BY <1>t DEF ItemsTypeOK, Handles
    <3> QED
        BY <2>1, <2>4, <3>1 DEF BindingInvariant, NoStrandedBinding
  <2>6. UsedIsBound'
      BY <2>1, <2>2 DEF BindingInvariant, UsedIsBound
  <2>7. InUse(old)
      BY <2>1 DEF InUse
  <2>8. \A g \in DOMAIN binds' :
            /\ g \notin removals' /\ ~InUse(g)'
            /\ backing' # "closed" /\ binds'[g].stage = "added" => g \in bound'
      BY <2>1, <2>4, <2>7 DEF BindingInvariant
  <2>9. /\ \A j \in DOMAIN items' : items'[j].backing_client_handle < next'
        /\ \A g \in removals' : g < next'
      BY <2>1, <2>2, <1>h DEF BindingInvariant
  <2> QED
      BY <2>3, <2>5, <2>6, <2>8, <2>9 DEF BindingInvariant
<1>5. ASSUME NEW i, NEW reporting \in BOOLEAN, SetMonitoringMode(i, reporting)
      PROVE  BindingInvariant'
  <2>1. /\ i \in DOMAIN items
        /\ items' = [items EXCEPT ![i].reporting = reporting]
        /\ UNCHANGED <<next_monitored_item_id, next_backing_client_handle,
                       backing, binds, removals, bound>>
      BY <1>5 DEF SetMonitoringMode
  <2>2. /\ DOMAIN items' = DOMAIN items
        /\ items' \in [DOMAIN items' -> Item]
        /\ \A j \in DOMAIN items :
              /\ items'[j].backing_item_id = items[j].backing_item_id
              /\ items'[j].backing_client_handle
                    = items[j].backing_client_handle
      BY <2>1, <1>t DEF Item
  <2>3. \A g : InUse(g)' <=> InUse(g)
      BY <2>2 DEF InUse
  <2>4. ItemsTypeOK'
      BY <2>1, <2>2, <1>t DEF ItemsTypeOK
  <2>5. NoStrandedBinding'
      BY <2>1, <2>3 DEF BindingInvariant, NoStrandedBinding
  <2>6. UsedIsBound'
      BY <2>1, <2>2 DEF BindingInvariant, UsedIsBound
  <2> QED
      BY <2>1, <2>2, <2>3, <2>4, <2>5, <2>6 DEF BindingInvariant
<1> QED
    BY <1>1, <1>2, <1>3, <1>4, <1>5

\* The coroutines and the backend preserve the invariant.
LEMMA SettleStep ==
    ASSUME BindingInvariant, NEW h \in Handles, Settle(h)
    PROVE  BindingInvariant'
<1>t. /\ ItemsTypeOK
      /\ items \in [DOMAIN items -> Item]
      /\ binds \in [DOMAIN binds -> Bind]
    BY DEF BindingInvariant, ItemsTypeOK
<1>1. ASSUME BackendAdds(h) \/ BackendRefuses(h)
      PROVE  BindingInvariant'
  <2>1. /\ h \in DOMAIN binds /\ binds[h].stage = "asked"
        /\ DOMAIN binds' = DOMAIN binds
        /\ \A g \in DOMAIN binds : g # h => binds'[g] = binds[g]
        /\ binds'[h].stage = "added" => bound' = bound \cup {h}
        /\ bound' \in {bound, bound \cup {h}}
        /\ bound' = bound \/ binds'[h].stage = "added"
        /\ UNCHANGED <<items, next_monitored_item_id,
                       next_backing_client_handle, backing, removals>>
      BY <1>1, <1>t DEF BackendAdds, BackendRefuses, Bind
  <2>2. binds' \in [DOMAIN binds' -> Bind]
      BY <1>1, <1>t DEF BackendAdds, BackendRefuses, Bind
  <2>3. ItemsTypeOK'
      BY <2>1, <2>2, <1>t DEF ItemsTypeOK
  <2>4. \A g : InUse(g)' <=> InUse(g)
      BY <2>1 DEF InUse
  <2>5. NoStrandedBinding'
    <3> SUFFICES ASSUME NEW g \in bound'
                 PROVE  \/ InUse(g)'
                        \/ g \in DOMAIN binds' /\ binds'[g].stage = "added"
                        \/ g \in removals'
        BY DEF NoStrandedBinding
    <3>1. CASE g # h
        BY <3>1, <2>1, <2>4 DEF BindingInvariant, NoStrandedBinding
    <3>2. CASE g = h /\ bound' = bound
        BY <3>2, <2>1, <2>4 DEF BindingInvariant, NoStrandedBinding
    <3>3. CASE g = h /\ bound' # bound
        BY <3>3, <2>1
    <3> QED
        BY <3>1, <3>2, <3>3
  <2>6. UsedIsBound'
      BY <2>1 DEF BindingInvariant, UsedIsBound
  <2>7. \A g \in DOMAIN binds' :
            /\ g \notin removals' /\ ~InUse(g)'
            /\ backing' # "closed" /\ binds'[g].stage = "added" => g \in bound'
      BY <2>1, <2>4 DEF BindingInvariant
  <2> QED
      BY <2>1, <2>3, <2>5, <2>6, <2>7 DEF BindingInvariant
<1>2. ASSUME BackendRemoves(h)
      PROVE  BindingInvariant'
  <2>1. /\ h \in removals
        /\ removals' = removals \ {h} /\ bound' = bound \ {h}
        /\ UNCHANGED <<items, next_monitored_item_id,
                       next_backing_client_handle, backing, binds>>
      BY <1>2 DEF BackendRemoves
  <2>2. \A g : InUse(g)' <=> InUse(g)
      BY <2>1 DEF InUse
  <2>3. ItemsTypeOK'
      BY <2>1, <1>t DEF ItemsTypeOK
  <2>4. NoStrandedBinding'
      BY <2>1, <2>2 DEF BindingInvariant, NoStrandedBinding
  <2>5. UsedIsBound'
      BY <2>1 DEF BindingInvariant, UsedIsBound
  <2>6. \A g \in DOMAIN binds' :
            /\ g \notin removals' /\ ~InUse(g)'
            /\ backing' # "closed" /\ binds'[g].stage = "added" => g \in bound'
      BY <2>1, <2>2 DEF BindingInvariant
  <2> QED
      BY <2>1, <2>3, <2>4, <2>5, <2>6 DEF BindingInvariant
<1>3. ASSUME BindResultStale(h) \/ BindResultBad(h)
      PROVE  BindingInvariant'
  <2>1. /\ h \in DOMAIN binds
        /\ binds' = Drop(binds, h)
        /\ removals' \in {removals, removals \cup {h}}
        /\ binds[h].stage = "added" => h \in removals'
        /\ UNCHANGED <<items, next_monitored_item_id,
                       next_backing_client_handle, backing, bound>>
    <3>1. h # 0
        BY DEF Handles
    <3>2. CASE BindResultStale(h)
      <4> DEFINE id == IF binds[h].stage = "added" THEN h ELSE 0
      <4>1. /\ h \in DOMAIN binds
            /\ binds' = Drop(binds, h)
            /\ removals' = removals \cup ({id} \ {0})
            /\ UNCHANGED <<items, next_monitored_item_id,
                           next_backing_client_handle, backing, bound>>
          BY <3>2 DEF BindResultStale, RemoveBackingItem
      <4> QED
          BY <3>1, <4>1
    <3>3. CASE BindResultBad(h)
        BY <3>3 DEF BindResultBad
    <3> QED
        BY <1>3, <3>2, <3>3
  <2>2. /\ DOMAIN binds' = DOMAIN binds \ {h}
        /\ binds' \in [DOMAIN binds' -> Bind]
        /\ \A g \in DOMAIN binds' : binds'[g] = binds[g]
      BY <2>1, <1>t, DropBindType
  <2>3. \A g : InUse(g)' <=> InUse(g)
      BY <2>1 DEF InUse
  <2>4. ItemsTypeOK'
      BY <2>1, <2>2, <1>t DEF ItemsTypeOK
  <2>5. NoStrandedBinding'
      BY <2>1, <2>2, <2>3 DEF BindingInvariant, NoStrandedBinding
  <2>6. UsedIsBound'
    <3>1. ~InUse(h)
        BY <2>1 DEF BindingInvariant
    <3> QED
        BY <2>1, <3>1 DEF BindingInvariant, UsedIsBound, InUse
  <2>7. \A g \in DOMAIN binds' :
            /\ g \notin removals' /\ ~InUse(g)'
            /\ backing' # "closed" /\ binds'[g].stage = "added" => g \in bound'
      BY <2>1, <2>2, <2>3 DEF BindingInvariant
  <2>8. \A g \in removals' : g < next_backing_client_handle'
      BY <2>1, <1>t DEF BindingInvariant, ItemsTypeOK, Handles
  <2> QED
      BY <2>1, <2>4, <2>5, <2>6, <2>7, <2>8 DEF BindingInvariant
<1>4. ASSUME BindResultGood(h)
      PROVE  BindingInvariant'
  <2> DEFINE i == binds[h].item
  <2>1. /\ h \in DOMAIN binds /\ binds[h].stage = "added"
        /\ i \in DOMAIN items /\ items[i].backing_client_handle = h
        /\ items' = [items EXCEPT ![i].backing_item_id = h]
        /\ binds' = Drop(binds, h)
        /\ backing # "closed"
        /\ UNCHANGED <<next_monitored_item_id, next_backing_client_handle,
                       backing, removals, bound>>
      BY <1>4 DEF BindResultGood, IsCurrent
  <2>2. /\ DOMAIN binds' = DOMAIN binds \ {h}
        /\ binds' \in [DOMAIN binds' -> Bind]
        /\ \A g \in DOMAIN binds' : binds'[g] = binds[g]
      BY <2>1, <1>t, DropBindType
  <2> HIDE DEF i
  <2>3. /\ DOMAIN items' = DOMAIN items
        /\ items' \in [DOMAIN items' -> Item]
        /\ items'[i].backing_item_id = h
        /\ \A j \in DOMAIN items : items'[j].backing_client_handle
                                      = items[j].backing_client_handle
        /\ \A j \in DOMAIN items : j # i => items'[j] = items[j]
      BY <2>1, <1>t DEF Item
  <2>4. ItemsTypeOK'
      BY <2>1, <2>2, <2>3, <1>t DEF ItemsTypeOK
  <2>5. h \in bound \ removals /\ ~InUse(h) /\ h # 0
      BY <2>1 DEF BindingInvariant, Handles
  <2>6. items[i].backing_item_id = 0
      BY <2>1, <2>5 DEF BindingInvariant, UsedIsBound, InUse
  <2>7. \A g : g # 0 => (InUse(g)' <=> InUse(g) \/ g = h)
      BY <2>1, <2>3, <2>6 DEF InUse
  <2>8. NoStrandedBinding'
    <3>1. 0 \notin bound
        BY <1>t DEF ItemsTypeOK, Handles
    <3> QED
        BY <2>1, <2>2, <2>7, <3>1 DEF BindingInvariant, NoStrandedBinding
  <2>9. UsedIsBound'
    <3> SUFFICES ASSUME NEW j \in DOMAIN items', items'[j].backing_item_id # 0
                 PROVE  /\ items'[j].backing_item_id \in bound' \ removals'
                        /\ items'[j].backing_item_id
                              = items'[j].backing_client_handle
                        /\ \A k \in DOMAIN items' :
                              items'[k].backing_item_id
                                 = items'[j].backing_item_id => k = j
        BY DEF UsedIsBound
    <3>1. CASE j = i
        BY <3>1, <2>1, <2>3, <2>5 DEF InUse
    <3>2. CASE j # i
        BY <3>2, <2>1, <2>3, <2>5 DEF BindingInvariant, UsedIsBound, InUse
    <3> QED
        BY <3>1, <3>2
  <2>10. \A g \in DOMAIN binds' :
            /\ g \notin removals' /\ ~InUse(g)'
            /\ backing' # "closed" /\ binds'[g].stage = "added" => g \in bound'
    <3>1. 0 \notin DOMAIN binds
        BY <1>t DEF ItemsTypeOK
    <3> QED
        BY <2>1, <2>2, <2>7, <3>1 DEF BindingInvariant
  <2>11. \A j \in DOMAIN items' :
            items'[j].backing_client_handle < next_backing_client_handle'
      BY <2>1, <2>3 DEF BindingInvariant
  <2> QED
      BY <2>1, <2>4, <2>8, <2>9, <2>10, <2>11 DEF BindingInvariant
<1> QED
    BY <1>1, <1>2, <1>3, <1>4 DEF Settle

\* Every step preserves the inductive invariant.
LEMMA ItemsStep ==
    BindingInvariant /\ [ItemsNext]_item_vars => BindingInvariant'
<1> SUFFICES ASSUME BindingInvariant, [ItemsNext]_item_vars
             PROVE  BindingInvariant'
    OBVIOUS
<1>1. CASE OnSubscriptionError
    BY <1>1 DEF OnSubscriptionError, BindingInvariant, ItemsTypeOK,
                BackingStates, NoStrandedBinding, UsedIsBound, InUse
<1>2. CASE CloseBackingSubscription
  <2>1. /\ DOMAIN items' = {} /\ bound' = {} /\ backing' = "closed"
        /\ UNCHANGED <<next_monitored_item_id, next_backing_client_handle,
                       binds, removals>>
      BY <1>2 DEF CloseBackingSubscription
  <2>2. items' \in [DOMAIN items' -> Item]
      BY <1>2 DEF CloseBackingSubscription
  <2>3. ItemsTypeOK'
      BY <2>1, <2>2 DEF BindingInvariant, ItemsTypeOK, BackingStates
  <2>4. NoStrandedBinding' /\ UsedIsBound' /\ \A g : ~InUse(g)'
      BY <2>1 DEF NoStrandedBinding, UsedIsBound, InUse
  <2> QED
      BY <2>1, <2>3, <2>4 DEF BindingInvariant
<1>3. CASE UNCHANGED item_vars
    BY <1>3 DEF item_vars, BindingInvariant, ItemsTypeOK, NoStrandedBinding,
                UsedIsBound, InUse
<1> QED
    BY <1>1, <1>2, <1>3, ServiceStep, SettleStep DEF ItemsNext

\* The strengthened invariant holds in every reachable state.
THEOREM BindingsInductive == ItemsSpec => []BindingInvariant
<1>1. ItemsInit => BindingInvariant
    BY MonitoredItemsAssumption
    DEF ItemsInit, BindingInvariant, ItemsTypeOK, BackingStates,
        NoStrandedBinding, UsedIsBound, InUse
<1> QED
    BY <1>1, ItemsStep, PTL DEF ItemsSpec

\* server_subscription.cpp: the items, the spawned coroutines and the bindings
\* are well formed in every reachable state.
THEOREM ItemsTypeCorrect == ItemsSpec => []ItemsTypeOK
<1>1. BindingInvariant => ItemsTypeOK
    BY DEF BindingInvariant
<1> QED
    BY <1>1, BindingsInductive, PTL

\* The bindings of the items alone, whatever the queue does with what they bring:
\* none is stranded at the backend and none is released or shared while in use.
THEOREM NoBindingLeaks == ItemsSpec => []BindingsAccountedFor
<1>1. BindingInvariant => BindingsAccountedFor
    BY DEF BindingInvariant, BindingsAccountedFor
<1> QED
    BY <1>1, BindingsInductive, PTL


(***************************************************************************)
(* The subscription as a whole.                                            *)
(***************************************************************************)
\* The instance of the queue has the actions of the queue itself.
LEMMA SameActions ==
    /\ \A i : Queue!DropItem(i) <=> DropItem(i)
    /\ \A r : Queue!Modify(r) <=> Modify(r)
    /\ \A b : Queue!SetPublishingEnabled(b) <=> SetPublishingEnabled(b)
    /\ Queue!PublishKeepAlive <=> PublishKeepAlive
    /\ Queue!PublishNotifications <=> PublishNotifications
    /\ \A n : Queue!Acknowledge(n) <=> Acknowledge(n)
    /\ Queue!TimePasses <=> TimePasses
    /\ \A s, p : Queue!QueueNotifications(s, p) <=> QueueNotifications(s, p)
  <1>1. \A i : Queue!DropItem(i) <=> DropItem(i)
    BY DEF Queue!DropItem, Queue!KeepAt, Queue!Kept, Queue!publish_vars,
           DropItem, KeepAt, Kept, publish_vars
  <1>2. \A r : Queue!Modify(r) <=> Modify(r)
    BY DEF Queue!Modify, Queue!ReviseParameters, Queue!publish_vars,
           Modify, ReviseParameters, publish_vars
  <1>3. \A b : Queue!SetPublishingEnabled(b) <=> SetPublishingEnabled(b)
    BY DEF Queue!SetPublishingEnabled, Queue!publish_vars,
           SetPublishingEnabled, publish_vars
  <1>4. /\ Queue!HasPublishable <=> HasPublishable
        /\ Queue!IsPublishReady <=> IsPublishReady
    BY DEF Queue!HasPublishable, Queue!IsPublishReady, Queue!PublishingInterval,
           Queue!KeepAliveInterval, Queue!AtLeastOne, HasPublishable, IsPublishReady,
           PublishingInterval, KeepAliveInterval, AtLeastOne
  <1>5. Queue!PublishKeepAlive <=> PublishKeepAlive
    BY <1>4 DEF Queue!PublishKeepAlive, PublishKeepAlive
  <1>6. Queue!MaxEntries = MaxEntries
    BY DEF Queue!MaxEntries, Queue!Min, MaxEntries, Min
  <1>7. \A q : Queue!Totals(q) = Totals(q)
    BY DEF Queue!Totals, Totals
  <1>8. \A q, n : Queue!Evictions(q, n) = Evictions(q, n)
    BY <1>7 DEF Queue!Evictions, Queue!Min, Evictions, Min
  <1>9. Queue!PublishNotifications <=> PublishNotifications
    BY <1>4, <1>6, <1>7, <1>8 DEF Queue!PublishNotifications, PublishNotifications
  <1>10. \A n : Queue!Acknowledge(n) <=> Acknowledge(n)
    BY <1>7 DEF Queue!Acknowledge, Queue!PlacesOf, Queue!Notifications, Queue!KeepAt,
                Queue!Kept, Acknowledge, PlacesOf, Notifications, KeepAt, Kept
  <1>11. Queue!TimePasses <=> TimePasses
    BY DEF Queue!TimePasses, Queue!publish_vars, TimePasses, publish_vars
  <1>12. \A s, p : Queue!Pushes(s, p) = Pushes(s, p)
    <2>1. \A queue, item, p :
             Queue!EnforceQueueLimit(queue, item, p) = EnforceQueueLimit(queue, item, p)
      <3>1. \A S : Queue!Min(S) = Min(S) /\ Queue!Max(S) = Max(S)
        BY DEF Queue!Min, Queue!Max, Min, Max
      <3>2. \A seq, k : Queue!RemoveAt(seq, k) = RemoveAt(seq, k)
        BY DEF Queue!RemoveAt, RemoveAt
      <3>3. \A queue, item : Queue!QueuedOf(queue, item) = QueuedOf(queue, item)
        BY DEF Queue!QueuedOf, Queue!Cardinality, QueuedOf, Cardinality
      <3>4. \A n : Queue!AtLeastOne(n) = AtLeastOne(n)
        BY DEF Queue!AtLeastOne, AtLeastOne
      <3> QED BY <3>1, <3>2, <3>3, <3>4 DEF Queue!EnforceQueueLimit, EnforceQueueLimit
    <2> QED BY <2>1 DEF Queue!Pushes, Queue!Pushed, Pushes, Pushed
  <1>13. \A s, p : Queue!QueueNotifications(s, p) <=> QueueNotifications(s, p)
    BY <1>12 DEF Queue!QueueNotifications, Queue!publish_vars,
                 QueueNotifications, publish_vars
  <1> QED BY <1>1, <1>2, <1>3, <1>5, <1>9, <1>10, <1>11, <1>13

\* The queue's initial states are the same through the instance.
LEMMA SameInit == Queue!QueueInit <=> QueueInit
  BY DEF Queue!QueueInit, Queue!ReviseParameters, QueueInit, ReviseParameters


\* A handler that queues for items there are behaves as the queue on its own may,
\* if it queues anything at all.
LEMMA QueueForStep ==
    ASSUME BindingInvariant, QueueInv, NEW sources \in Seq(DOMAIN items),
           Len(sources) <= MaxBatch, QueueFor(sources)
    PROVE  /\ QueueInv'
           /\ UNCHANGED queue_vars \/ Queue!QueueNext
           /\ PushedFrom(pending_notifications', pending_notifications, queued, queued',
                         sources, [i \in DOMAIN items |-> items[i].parameters])
  <1> DEFINE n == Len(sources)
             p == [i \in DOMAIN items |-> items[i].parameters]
             full == [i \in ItemIds |-> IF i \in DOMAIN items THEN items[i].parameters
                                        ELSE items[sources[1]].parameters]
  <1>1. /\ n \in Nat /\ sources \in [1..n -> DOMAIN items]
        /\ QueueNotifications(sources, p)
    BY DEF QueueFor
  <1>2. /\ DOMAIN items \subseteq ItemIds /\ ItemIds \subseteq Items
        /\ \A i \in DOMAIN items : items[i].parameters \in ItemParameters
        /\ ItemParameters \subseteq MonitoringParameters
    <2>1. \A item \in Item : item.parameters \in ItemParameters
      BY DEF Item
    <2>2. /\ items \in [DOMAIN items -> Item]
          /\ DOMAIN items \subseteq 1..(next_monitored_item_id - 1)
          /\ next_monitored_item_id \in 1..(MaxItems + 1)
      BY DEF BindingInvariant, ItemsTypeOK
    <2>3. DOMAIN items \subseteq ItemIds
      BY <2>2, MonitoredItemsAssumption DEF ItemIds
    <2>4. \A i \in DOMAIN items : items[i].parameters \in ItemParameters
      BY <2>1, <2>2
    <2> QED BY <2>3, <2>4, ServerSubscriptionAssumption
  <1>3. \A k \in 1..n : /\ p[sources[k]].queue_size \in Nat
                        /\ p[sources[k]] = full[sources[k]]
    <2>1. \A x \in MonitoringParameters : x.queue_size \in Nat
      BY NotificationQueueAssumption
    <2> QED BY <1>1, <1>2, <2>1
  <1>4. sources \in Seq(Items) /\ sources \in Seq(ItemIds)
    BY <1>1, <1>2
  <1> HIDE DEF p, full
  <1>5. /\ QueueInv'
        /\ PushedFrom(pending_notifications', pending_notifications, queued, queued',
                      sources, p)
    BY <1>1, <1>3, <1>4, QueuedInOrder
  <1>6. /\ queued \in Nat
        /\ pending_notifications' = Pushes(sources, p)[n] /\ queued' = queued + n
        /\ UNCHANGED <<parameters, publish_vars, elapsed>>
    BY <1>1 DEF QueueNotifications, QueueInv
  <1>7. CASE n = 0
    <2>1. Pushes(sources, p)[0] = pending_notifications
      BY <1>1, PushesFacts
    <2>2. pending_notifications' = pending_notifications /\ queued' = queued
      BY <1>6, <1>7, <2>1
    <2>3. UNCHANGED queue_vars
      BY <1>6, <2>2 DEF queue_vars, publish_vars
    <2> QED BY <1>5, <2>3 DEF p
  <1>8. CASE n # 0
    <2>1. n \in 1..MaxBatch /\ 1 \in 1..n
      BY <1>1, <1>8, NotificationQueueAssumption
    <2>2. sources \in Queue!Batches
      <3>1. sources \in [1..n -> ItemIds]
        BY <1>1, <1>2
      <3> QED BY <2>1, <3>1 DEF Queue!Batches
    <2>3. full \in [ItemIds -> ItemParameters]
      BY <1>1, <1>2, <2>1 DEF full
    <2>4. Pushes(sources, p)[n] = Pushes(sources, full)[n]
      BY <1>1, <1>3, PushesAgree
    <2>5. QueueNotifications(sources, full)
      BY <1>1, <2>4 DEF QueueNotifications
    <2>6. Queue!QueueNotifications(sources, full)
      BY <2>5, SameActions
    <2>7. Queue!QueueNext
      BY <2>2, <2>3, <2>6 DEF Queue!QueueNext
    <2> QED BY <1>5, <2>7 DEF p
  <1> QED BY <1>7, <1>8

\* Each step of the subscription is a step of its items or leaves them alone, and
\* a step of its queue or leaves that alone.  A share of the deque grows only when
\* an existing item is queued for, within its limit.
LEMMA SubscriptionStep ==
    ASSUME BindingInvariant, QueueInv, [Next]_vars
    PROVE  /\ [ItemsNext]_item_vars
           /\ UNCHANGED queue_vars \/ Queue!QueueNext
           /\ QueueInv'
           /\ \A i \in DOMAIN items :
                \/ QueuedOf(pending_notifications', i) <= QueuedOf(pending_notifications, i)
                \/ QueuedOf(pending_notifications', i)
                      <= AtLeastOne(items[i].parameters.queue_size)
  <1> DEFINE Within == \A i \in DOMAIN items :
                \/ QueuedOf(pending_notifications', i) <= QueuedOf(pending_notifications, i)
                \/ QueuedOf(pending_notifications', i)
                      <= AtLeastOne(items[i].parameters.queue_size)
             Good == /\ [ItemsNext]_item_vars
                     /\ UNCHANGED queue_vars \/ Queue!QueueNext
                     /\ QueueInv'
                     /\ Within
  <1>1. /\ DOMAIN items \subseteq ItemIds /\ ItemIds \subseteq Items
        /\ MaxItems \in Nat /\ MaxItems <= MaxBatch /\ MaxBatch \in Nat
        /\ pending_notifications \in Seq(Entry) /\ queued \in Nat
        /\ Ascending(pending_notifications) /\ UpTo(pending_notifications, queued)
    <2>1. DOMAIN items \subseteq ItemIds
      BY MonitoredItemsAssumption DEF BindingInvariant, ItemsTypeOK, ItemIds
    <2> QED BY <2>1, ServerSubscriptionAssumption, MonitoredItemsAssumption,
               NotificationQueueAssumption DEF QueueInv
  <1>2. \A q \in Seq(Entry) : \A i : QueuedOf(q, i) \in Nat
    BY PlacesAreFinite
  <1>3. ASSUME pending_notifications' = pending_notifications PROVE Within
    BY <1>1, <1>2, <1>3
  <1>4. ASSUME NEW e, pending_notifications' \in Seq(Entry),
               Embeds(e, pending_notifications', pending_notifications)
        PROVE  Within
    BY <1>1, <1>4, ShareOfEmbedded
  <1>5. ASSUME NEW sources \in Seq(DOMAIN items), Len(sources) <= MaxBatch, QueueFor(sources)
        PROVE  /\ UNCHANGED queue_vars \/ Queue!QueueNext
               /\ QueueInv'
               /\ Within
    <2> DEFINE p == [i \in DOMAIN items |-> items[i].parameters]
    <2>1. /\ UNCHANGED queue_vars \/ Queue!QueueNext
          /\ QueueInv'
          /\ PushedFrom(pending_notifications', pending_notifications, queued, queued',
                        sources, p)
      BY <1>5, QueueForStep
    <2>2. \A i \in DOMAIN items :
             \/ QueuedOf(pending_notifications', i) <= QueuedOf(pending_notifications, i)
             \/ QueuedOf(pending_notifications', i) <= AtLeastOne(p[i].queue_size)
      <3> HIDE DEF p
      <3> QED BY <1>1, <2>1 DEF PushedFrom
    <2> QED BY <2>1, <2>2
  <1>6. ASSUME ItemStep PROVE Good
    <2>1. UNCHANGED queue_vars
      BY <1>6 DEF ItemStep
    <2>2. QueueInv' /\ pending_notifications' = pending_notifications
      BY <2>1, QueueInvNext DEF queue_vars
    <2>3. ItemsNext
      BY <1>6 DEF ItemStep, ItemsNext, Settle
    <2> QED BY <1>3, <2>1, <2>2, <2>3
  <1>7. ASSUME PublishStep PROVE Good
    <2>1. UNCHANGED item_vars
      BY <1>7 DEF PublishStep
    <2>2. QueueNext
      BY <1>7 DEF PublishStep, QueueNext
    <2>3. Queue!QueueNext
      <3>1. \/ \E requested \in RequestedParameters : Queue!Modify(requested)
            \/ \E enabled \in BOOLEAN : Queue!SetPublishingEnabled(enabled)
            \/ Queue!PublishKeepAlive
            \/ Queue!PublishNotifications
            \/ \E numbers \in SUBSET (1..next_sequence_number) : Queue!Acknowledge(numbers)
            \/ Queue!TimePasses
        BY <1>7, SameActions DEF PublishStep
      <3> QED BY <3>1 DEF Queue!QueueNext
    <2>4. QueueInv'
      BY <2>2, QueueInvNext
    <2>5. Within
      <3>1. CASE PublishNotifications
        <4>1. PICK n : n = MaxEntries
          OBVIOUS
        <4>2. n \in 0..Len(pending_notifications)
          <5>1. n \in 1..Len(pending_notifications)
            BY <3>1, <4>1, MaxEntriesFacts DEF PublishNotifications, HasPublishable
          <5> QED BY <5>1
        <4>3. pending_notifications' =
                 SubSeq(pending_notifications, n + 1, Len(pending_notifications))
          BY <3>1, <4>1 DEF PublishNotifications
        <4>4. /\ pending_notifications' \in Seq(Entry)
              /\ \E e : Embeds(e, pending_notifications', pending_notifications)
          BY <1>1, <4>2, <4>3, RestEmbeds
        <4> QED BY <1>4, <4>4
      <3>2. CASE ~PublishNotifications
        <4>1. pending_notifications' = pending_notifications
          BY <1>7, <3>2 DEF PublishStep, Modify, SetPublishingEnabled, PublishKeepAlive,
                            Acknowledge, TimePasses
        <4> QED BY <1>3, <4>1
      <3> QED BY <3>1, <3>2
    <2> QED BY <2>1, <2>3, <2>4, <2>5
  <1>8. ASSUME NEW sources \in Batches, OnNotifications(sources) PROVE Good
    <2>1. /\ UNCHANGED item_vars /\ QueueFor(sources)
          /\ \A i \in ToSet(sources) : i \in DOMAIN items
      BY <1>8 DEF OnNotifications
    <2>2. PICK n \in 1..MaxBatch : sources \in [1..n -> Items]
      BY DEF Batches
    <2>3. sources \in [1..n -> DOMAIN items]
      BY <2>1, <2>2 DEF ToSet
    <2>4. n \in Nat /\ n <= MaxBatch
      BY <1>1
    <2>5. sources \in Seq(DOMAIN items) /\ Len(sources) = n
      BY <2>3, <2>4, SeqDef
    <2> HIDE DEF Within
    <2> QED BY <1>5, <2>1, <2>4, <2>5
  <1>9. ASSUME SubscriptionFails PROVE Good
    <2> DEFINE S == {i \in DOMAIN items : ReportsStatus(i)}
    <2>1. PICK order \in SetToSeqs(S) : OnSubscriptionError /\ QueueFor(order)
      BY <1>9 DEF SubscriptionFails
    <2>2. order \in [1..Cardinality(S) -> S]
      BY DEF SetToSeqs
    <2>3. Cardinality(S) \in Nat /\ Cardinality(S) <= MaxBatch
      <3>1. IsFiniteSet(ItemIds) /\ Cardinality(ItemIds) = MaxItems
        BY <1>1, FS_Interval DEF ItemIds
      <3>2. S \subseteq ItemIds
        BY <1>1
      <3> HIDE DEF S
      <3>3. IsFiniteSet(S) /\ Cardinality(S) <= Cardinality(ItemIds)
        BY <3>1, <3>2, FS_Subset
      <3>4. Cardinality(S) \in Nat
        BY <3>3, FS_CardinalityType
      <3> QED BY <1>1, <3>1, <3>3, <3>4
    <2>4. order \in [1..Cardinality(S) -> DOMAIN items]
      BY <2>2
    <2> HIDE DEF S
    <2>5. order \in Seq(DOMAIN items) /\ Len(order) = Cardinality(S)
      BY <2>3, <2>4, SeqDef
    <2>6. ItemsNext
      BY <2>1 DEF ItemsNext
    <2> HIDE DEF Within
    <2> QED BY <1>5, <2>1, <2>3, <2>5, <2>6
  <1>10. ASSUME NEW h \in Handles, BindFails(h) PROVE Good
    <2> DEFINE item == binds[h].item
               sources == IF ReportsStatus(item) THEN <<item>> ELSE <<>>
    <2>1. BindResultBad(h) /\ QueueFor(sources)
      BY <1>10 DEF BindFails
    <2>2. item \in DOMAIN items
      BY <2>1 DEF BindResultBad, IsCurrent
    <2>3. 1 <= MaxBatch
      BY <1>1, <2>2 DEF ItemIds
    <2> HIDE DEF item
    <2>4. sources \in Seq(DOMAIN items) /\ Len(sources) <= MaxBatch
      <3>1. <<item>> \in Seq(DOMAIN items) /\ Len(<<item>>) = 1
        BY <2>2
      <3>2. <<>> \in Seq(DOMAIN items) /\ Len(<<>>) = 0
        OBVIOUS
      <3>3. 0 <= MaxBatch
        BY <1>1
      <3> QED BY <2>3, <3>1, <3>2, <3>3
    <2>5. ItemsNext
      BY <2>1 DEF ItemsNext, Settle
    <2> HIDE DEF sources, Within
    <2> QED BY <1>5, <2>1, <2>4, <2>5
  <1>11. ASSUME NEW i \in ItemIds, DeleteMonitoredItems(i) PROVE Good
    <2>1. DeleteMonitoredItem(i) /\ DropItem(i)
      BY <1>11 DEF DeleteMonitoredItems
    <2>2. ItemsNext
      BY <2>1 DEF ItemsNext
    <2>3. Queue!QueueNext
      BY <2>1, SameActions DEF Queue!QueueNext
    <2>4. QueueInv'
      BY <2>1, DroppedInOrder
    <2>5. /\ pending_notifications' \in Seq(Entry)
          /\ \E e : Embeds(e, pending_notifications', pending_notifications)
      BY <1>1, <2>1, KeepAtEmbeds DEF DropItem
    <2> HIDE DEF Within
    <2> QED BY <1>4, <2>2, <2>3, <2>4, <2>5
  <1>12. ASSUME UNCHANGED vars PROVE Good
    <2>1. UNCHANGED item_vars /\ UNCHANGED queue_vars
      BY <1>12 DEF vars
    <2>2. QueueInv' /\ pending_notifications' = pending_notifications
      BY <2>1, QueueInvNext DEF queue_vars
    <2> HIDE DEF Within
    <2> QED BY <1>3, <2>1, <2>2
  <1> HIDE DEF Good
  <1>13. Good
    BY <1>6, <1>7, <1>8, <1>9, <1>10, <1>11, <1>12 DEF Next
  <1> QED BY <1>13 DEF Good

\* Bindings and queue keep their invariants together.
SubscriptionInv == BindingInvariant /\ QueueInv

\* ServerSubscription with both halves running: late bindings, item services and
\* publishing interleave without breaking the invariant of either half.
THEOREM SubscriptionInductive == Spec => []SubscriptionInv
  <1>1. Init => SubscriptionInv
    <2>1. ItemsInit => BindingInvariant
      BY MonitoredItemsAssumption
      DEF ItemsInit, BindingInvariant, ItemsTypeOK, BackingStates,
          NoStrandedBinding, UsedIsBound, InUse
    <2> QED BY <2>1, QueueInvInit DEF Init, SubscriptionInv
  <1>2. SubscriptionInv /\ [Next]_vars => SubscriptionInv'
    BY SubscriptionStep, ItemsStep DEF SubscriptionInv
  <1> QED BY <1>1, <1>2, PTL DEF Spec

\* The two invariants of the bindings hold of the subscription as a whole, with
\* its notifications and its publishing cycle running in between.
THEOREM SubscriptionKeepsBindings == Spec => []BindingsAccountedFor
  <1>1. SubscriptionInv => BindingsAccountedFor
    BY DEF SubscriptionInv, BindingInvariant, BindingsAccountedFor
  <1> QED BY <1>1, SubscriptionInductive, PTL

\* The publishing half implements the notification queue: batches, failures of the
\* backing subscription and of single bindings, and deletions are steps of it.
THEOREM SubscriptionImplementsQueue == Spec => ImplementsQueue
  <1>1. Init => Queue!QueueInit
    BY SameInit DEF Init
  <1>2. SubscriptionInv /\ [Next]_vars =>
           [UNCHANGED queue_vars \/ Queue!QueueNext]_queue_vars
    BY SubscriptionStep DEF SubscriptionInv
  <1> QED BY <1>1, <1>2, SubscriptionInductive, PTL DEF Spec, ImplementsQueue

\* ServerSubscription::EnforceQueueLimit: an item's share of the deque grows only
\* up to the item's current queue size, for any batch and any modification.
THEOREM SharesGrowWithinLimit == Spec => GrowsWithinLimit
  <1> DEFINE Grows == \A i \in DOMAIN items :
         QueuedOf(pending_notifications', i) > QueuedOf(pending_notifications, i)
            => QueuedOf(pending_notifications', i)
                  <= AtLeastOne(items[i].parameters.queue_size)
  <1>1. SubscriptionInv /\ [Next]_vars => [Grows]_vars
    <2> SUFFICES ASSUME SubscriptionInv, [Next]_vars PROVE Grows
      OBVIOUS
    <2>1. \A q \in Seq(Entry) : \A i : QueuedOf(q, i) \in Nat
      BY PlacesAreFinite
    <2>2. pending_notifications \in Seq(Entry) /\ QueueInv'
      BY SubscriptionStep DEF SubscriptionInv, QueueInv
    <2>3. pending_notifications' \in Seq(Entry)
      BY <2>2 DEF QueueInv
    <2> QED BY <2>1, <2>2, <2>3, SubscriptionStep DEF SubscriptionInv
  <1> QED BY <1>1, SubscriptionInductive, PTL DEF Spec, GrowsWithinLimit

\* What is retained and delivered stays exact and in order in the whole
\* subscription, as it does in the queue on its own.
THEOREM SubscriptionDelivers == Spec => [](RetainedIsExact /\ DeliveryInOrder)
  <1>1. SubscriptionInv => RetainedIsExact /\ DeliveryInOrder
    BY DEF SubscriptionInv, QueueInv, InOrder, DeliveryInOrder
  <1> QED BY <1>1, SubscriptionInductive, PTL

\* Nothing queued is lost in the whole subscription either, while items are
\* created, modified and deleted and their bindings fail.
THEOREM SubscriptionLosesNothing == Spec => NothingLost
  <1>1. ASSUME SubscriptionInv, [Next]_vars
        PROVE  \/ pending_notifications' = pending_notifications
               \/ \E item : DropItem(item)
               \/ PublishNotifications
               \/ \E sources \in Seq(Items) : \E p :
                     /\ Len(sources) # 0
                     /\ \A k \in 1..Len(sources) : p[sources[k]].queue_size \in Nat
                     /\ QueueNotifications(sources, p)
    <2>1. UNCHANGED queue_vars \/ Queue!QueueNext
      BY <1>1, SubscriptionStep DEF SubscriptionInv
    <2>2. \/ pending_notifications' = pending_notifications
          \/ \E item : DropItem(item)
          \/ PublishNotifications
          \/ \E sources \in Queue!Batches, p \in [ItemIds -> ItemParameters] :
                QueueNotifications(sources, p)
      BY <2>1, SameActions DEF Queue!QueueNext, queue_vars, Modify, SetPublishingEnabled,
                               PublishKeepAlive, Acknowledge, TimePasses
    <2>3. ASSUME NEW sources \in Queue!Batches, NEW p \in [ItemIds -> ItemParameters]
          PROVE  /\ sources \in Seq(Items) /\ Len(sources) # 0
                 /\ \A k \in 1..Len(sources) : p[sources[k]].queue_size \in Nat
      <3>1. PICK n \in 1..MaxBatch : sources \in [1..n -> ItemIds]
        BY <2>3 DEF Queue!Batches
      <3>2. n \in Nat \ {0}
        BY <3>1, NotificationQueueAssumption
      <3>3. sources \in Seq(Items) /\ Len(sources) = n
        BY <3>1, <3>2, SeqDef, ServerSubscriptionAssumption
      <3>4. \A k \in 1..n : p[sources[k]] \in MonitoringParameters
        BY <2>3, <3>1, ServerSubscriptionAssumption
      <3> QED BY <3>2, <3>3, <3>4, NotificationQueueAssumption
    <2> QED BY <2>2, <2>3
  <1>2. SubscriptionInv /\ [Next]_vars =>
           [\A n \in ToSet(pending_notifications) \ ToSet(pending_notifications') :
              \/ Republishable(retransmit_queue', next_sequence_number, n)
              \/ DropItem(n.source)
              \/ /\ queued' > queued
                 /\ \E m \in ToSet(pending_notifications') : m.source = n.source]_queue_vars
    BY <1>1, LeavingIsAccountedFor DEF SubscriptionInv
  <1> QED BY <1>2, SubscriptionInductive, PTL DEF NothingLost, Spec
===============================================================================
