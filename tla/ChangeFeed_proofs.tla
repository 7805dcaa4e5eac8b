------------------------- MODULE ChangeFeed_proofs -------------------------
(***************************************************************************)
(* What the promise of ChangeFeed comes to, for any subscribers: what each *)
(* was handed is a stretch of the log, unless it missed a change.          *)
(***************************************************************************)
EXTENDS ChangeFeed, TLAPS

FeedInv == FeedTypeOK /\ Contiguous

LEMMA InitFeedInv == FeedInit => FeedInv
BY DEF FeedInit, FeedInv, FeedTypeOK, Contiguous, Joined, Off

\* The log grows, and what was in it stays where it was.
LEMMA GrowFeedInv == FeedInv /\ Grow => FeedInv'
<1> SUFFICES ASSUME FeedInv, Grow PROVE FeedInv'
  OBVIOUS
<1> USE DEF Grow
<1>1. FeedTypeOK /\ Contiguous
  BY DEF FeedInv
<1>2. Len(log) \in Nat /\ Len(log') \in Nat
  BY <1>1 DEF FeedTypeOK
<1>3. \A s \in Subscriber : cursor[s] \in Int /\ cursor[s] <= Len(log)
  BY <1>1 DEF FeedTypeOK, Off
<1>4. FeedTypeOK'
  BY <1>1, <1>2, <1>3 DEF FeedTypeOK
<1>5. ASSUME NEW s \in Joined \ missed
      PROVE  /\ Len(got[s]) <= cursor[s]
             /\ \A i \in 1 .. Len(got[s]) :
                   got[s][i] = log'[cursor[s] - Len(got[s]) + i]
  <2>1. /\ s \in Subscriber /\ cursor[s] \in Nat /\ Len(got[s]) \in Nat
        /\ Len(got[s]) <= cursor[s] /\ cursor[s] <= Len(log)
        /\ \A i \in 1 .. Len(got[s]) : got[s][i] = log[cursor[s] - Len(got[s]) + i]
    BY <1>1 DEF Contiguous, FeedTypeOK, Joined
  <2>2. \A i \in 1 .. Len(got[s]) : cursor[s] - Len(got[s]) + i \in 1 .. Len(log)
    BY <1>2, <2>1
  <2> QED
    BY <2>1, <2>2
<1>6. Contiguous'
  BY <1>5 DEF Contiguous, Joined
<1> QED
  BY <1>4, <1>6 DEF FeedInv

\* The next entry continues the stretch.
LEMMA DeliverFeedInv ==
    ASSUME NEW s \in Subscriber, FeedInv, Deliver(s)
    PROVE  FeedInv'
<1> USE DEF Deliver
<1>1. FeedTypeOK /\ Contiguous
  BY DEF FeedInv
<1>2. /\ cursor[s] \in Nat /\ cursor[s] < Len(log) /\ Len(log) \in Nat
      /\ got[s] \in Seq(Change) /\ log[cursor[s] + 1] \in Change
  BY <1>1 DEF FeedTypeOK, Joined
<1>3. /\ Append(got[s], log[cursor[s] + 1]) \in Seq(Change)
      /\ Len(Append(got[s], log[cursor[s] + 1])) = Len(got[s]) + 1
  BY <1>2
<1>4. FeedTypeOK'
  BY <1>1, <1>2, <1>3 DEF FeedTypeOK
<1>5. ASSUME NEW t \in (Joined \ missed)'
      PROVE  (/\ Len(got[t]) <= cursor[t]
              /\ \A i \in 1 .. Len(got[t]) :
                    got[t][i] = log[cursor[t] - Len(got[t]) + i])'
  <2>1. t \in Joined \ missed
    BY <1>1, <1>2 DEF Joined, FeedTypeOK, Off
  <2>2. /\ Len(got[t]) <= cursor[t] /\ Len(got[t]) \in Nat
        /\ \A i \in 1 .. Len(got[t]) : got[t][i] = log[cursor[t] - Len(got[t]) + i]
    BY <1>1, <2>1 DEF Contiguous, Joined, FeedTypeOK
  <2>3. CASE t # s
    BY <1>1, <2>1, <2>2, <2>3 DEF FeedTypeOK, Joined
  <2>4. CASE t = s
    <3>1. /\ got'[s] = Append(got[s], log[cursor[s] + 1])
          /\ cursor'[s] = cursor[s] + 1
      BY <1>1 DEF FeedTypeOK
    <3>2. cursor'[s] - Len(got'[s]) = cursor[s] - Len(got[s])
      BY <1>2, <1>3, <2>2, <2>4, <3>1
    <3>3. ASSUME NEW i \in 1 .. Len(got'[s])
          PROVE  got'[s][i] = log[cursor'[s] - Len(got'[s]) + i]
      <4>1. CASE i <= Len(got[s])
        <5>1. i \in 1 .. Len(got[s])
          BY <2>2, <2>4, <4>1
        <5>2. got'[s][i] = got[s][i]
          BY <1>2, <3>1, <5>1
        <5> QED
          BY <2>2, <2>4, <3>2, <5>1, <5>2
      <4>2. CASE i = Len(got[s]) + 1
        <5>1. cursor'[s] - Len(got'[s]) + i = cursor[s] + 1
          BY <1>2, <2>2, <2>4, <3>2, <4>2
        <5> QED
          BY <1>2, <3>1, <4>2, <5>1
      <4> QED
        BY <1>3, <2>2, <2>4, <3>1, <4>1, <4>2
    <3>4. Len(got'[s]) <= cursor'[s]
      BY <1>2, <1>3, <2>2, <2>4, <3>1
    <3> QED
      BY <2>4, <3>3, <3>4
  <2> QED
    BY <2>3, <2>4
<1>6. Contiguous'
  BY <1>5 DEF Contiguous
<1> QED
  BY <1>4, <1>6 DEF FeedInv

\* Those that come, go or miss a change start anew or are left out.
LEMMA OtherFeedInv ==
    ASSUME FeedInv,
           \/ \E s \in Subscriber : Leave(s) \/ \E at \in 0 .. Len(log) : Join(s, at)
           \/ \E S \in SUBSET Subscriber : Miss(S)
    PROVE  FeedInv'
<1>1. FeedTypeOK /\ Contiguous
  BY DEF FeedInv
<1>2. << >> \in Seq(Change) /\ Len(<< >>) = 0 /\ Len(log) \in Nat
  BY <1>1 DEF FeedTypeOK
<1>3. ASSUME NEW s \in Subscriber, Leave(s)
      PROVE  FeedInv'
  <2>1. FeedTypeOK'
    BY <1>1, <1>2, <1>3 DEF Leave, FeedTypeOK, Off
  <2>2. Contiguous'
    BY <1>1, <1>2, <1>3 DEF Leave, FeedTypeOK, Contiguous, Joined
  <2> QED
    BY <2>1, <2>2 DEF FeedInv
<1>4. ASSUME NEW s \in Subscriber, NEW at \in 0 .. Len(log), Join(s, at)
      PROVE  FeedInv'
  <2>1. FeedTypeOK'
    BY <1>1, <1>2, <1>4 DEF Join, FeedTypeOK
  <2>2. Contiguous'
    BY <1>1, <1>2, <1>4 DEF Join, FeedTypeOK, Contiguous, Joined
  <2> QED
    BY <2>1, <2>2 DEF FeedInv
<1>5. ASSUME NEW S \in SUBSET Subscriber, Miss(S)
      PROVE  FeedInv'
  <2>1. FeedTypeOK'
    BY <1>1, <1>2, <1>5 DEF Miss, FeedTypeOK, Joined, Off
  <2>2. Contiguous'
    BY <1>1, <1>2, <1>5 DEF Miss, FeedTypeOK, Contiguous, Joined
  <2> QED
    BY <2>1, <2>2 DEF FeedInv
<1> QED
  BY <1>3, <1>4, <1>5

LEMMA StepFeedInv == FeedInv /\ [FeedNext]_feedVars => FeedInv'
<1>1. FeedInv /\ UNCHANGED feedVars => FeedInv'
  BY DEF FeedInv, FeedTypeOK, Contiguous, Joined, feedVars
<1> QED
  BY <1>1, GrowFeedInv, DeliverFeedInv, OtherFeedInv DEF FeedNext

\* A subscriber that missed nothing was handed a stretch of the log.
THEOREM StretchOfLog == FeedSpec => []Contiguous
<1>1. FeedInv => Contiguous
  BY DEF FeedInv
<1> QED
  BY <1>1, InitFeedInv, StepFeedInv, PTL DEF FeedSpec

-----------------------------------------------------------------------------
\* Everything a subscriber was handed is in the log before its cursor.
Behind ==
    \A s \in Subscriber : \A i \in 1 .. Len(got[s]) :
        \E k \in 1 .. Len(log) : k <= cursor[s] /\ log[k] = got[s][i]

OrderInv == FeedTypeOK /\ Behind /\ InLogOrder

LEMMA InitOrderInv == FeedInit => OrderInv
BY DEF FeedInit, OrderInv, FeedTypeOK, Behind, InLogOrder, Off

LEMMA GrowOrderInv == OrderInv /\ FeedInv' /\ Grow => OrderInv'
<1> SUFFICES ASSUME FeedTypeOK, Behind, InLogOrder, FeedInv', Grow PROVE OrderInv'
  BY DEF OrderInv
<1>1. /\ 1 .. Len(log) \subseteq 1 .. Len(log')
      /\ \A i \in 1 .. Len(log) : log'[i] = log[i]
      /\ got' = got /\ cursor' = cursor
  BY DEF Grow, FeedTypeOK
<1>2. Behind'
  <2> SUFFICES ASSUME NEW s \in Subscriber, NEW i \in 1 .. Len(got'[s])
               PROVE  \E k \in 1 .. Len(log') : k <= cursor'[s] /\ log'[k] = got'[s][i]
    BY DEF Behind
  <2>1. PICK k \in 1 .. Len(log) : k <= cursor[s] /\ log[k] = got[s][i]
    BY <1>1 DEF Behind
  <2> QED
    BY <1>1, <2>1
<1>3. InLogOrder'
  <2> SUFFICES ASSUME NEW s \in Subscriber, NEW i \in 1 .. Len(got'[s]),
                      NEW j \in 1 .. Len(got'[s]), i < j
               PROVE  \E k, l \in 1 .. Len(log') :
                         k < l /\ log'[k] = got'[s][i] /\ log'[l] = got'[s][j]
    BY DEF InLogOrder
  <2>1. PICK k \in 1 .. Len(log), l \in 1 .. Len(log) :
            k < l /\ log[k] = got[s][i] /\ log[l] = got[s][j]
    BY <1>1 DEF InLogOrder
  <2> QED
    BY <1>1, <2>1
<1> QED
  BY <1>2, <1>3 DEF OrderInv, FeedInv

\* What is handed over next comes after all that was.
LEMMA DeliverOrderInv ==
    ASSUME NEW s \in Subscriber, OrderInv, FeedInv', Deliver(s)
    PROVE  OrderInv'
<1>1. FeedTypeOK /\ Behind /\ InLogOrder
  BY DEF OrderInv
<1>2. /\ cursor[s] \in Nat /\ cursor[s] < Len(log) /\ Len(log) \in Nat
      /\ got[s] \in Seq(Change) /\ Len(got[s]) \in Nat
      /\ log' = log /\ log[cursor[s] + 1] \in Change
  BY <1>1 DEF FeedTypeOK, Joined, Deliver
<1>3. /\ got'[s] = Append(got[s], log[cursor[s] + 1]) /\ cursor'[s] = cursor[s] + 1
      /\ \A t \in Subscriber \ {s} : got'[t] = got[t] /\ cursor'[t] = cursor[t]
  BY <1>1 DEF FeedTypeOK, Deliver
<1>4. /\ Len(got'[s]) = Len(got[s]) + 1
      /\ got'[s][Len(got[s]) + 1] = log[cursor[s] + 1]
      /\ \A i \in 1 .. Len(got[s]) : got'[s][i] = got[s][i]
  BY <1>2, <1>3
<1>5. cursor[s] + 1 \in 1 .. Len(log)
  BY <1>2
<1>6. Behind'
  <2> SUFFICES ASSUME NEW t \in Subscriber, NEW i \in 1 .. Len(got'[t])
               PROVE  \E k \in 1 .. Len(log) : k <= cursor'[t] /\ log[k] = got'[t][i]
    BY <1>2 DEF Behind
  <2>1. CASE t # s
    BY <1>1, <1>3, <2>1 DEF Behind
  <2>2. CASE t = s /\ i \in 1 .. Len(got[s])
    <3>1. PICK k \in 1 .. Len(log) : k <= cursor[s] /\ log[k] = got[s][i]
      BY <1>1, <2>2 DEF Behind
    <3>2. k <= cursor[s] + 1
      BY <1>2, <3>1
    <3> QED
      BY <1>3, <1>4, <2>2, <3>1, <3>2
  <2>3. CASE t = s /\ i = Len(got[s]) + 1
    BY <1>2, <1>3, <1>4, <1>5, <2>3
  <2> QED
    BY <1>2, <1>4, <2>1, <2>2, <2>3
<1>7. InLogOrder'
  <2> SUFFICES ASSUME NEW t \in Subscriber, NEW i \in 1 .. Len(got'[t]),
                      NEW j \in 1 .. Len(got'[t]), i < j
               PROVE  \E k, l \in 1 .. Len(log) :
                         k < l /\ log[k] = got'[t][i] /\ log[l] = got'[t][j]
    BY <1>2 DEF InLogOrder
  <2>1. CASE t # s
    <3>1. got'[t] = got[t]
      BY <1>3, <2>1
    <3> QED
      BY <1>1, <3>1 DEF InLogOrder
  <2>2. CASE t = s /\ j \in 1 .. Len(got[s])
    <3>1. i \in 1 .. Len(got[s])
      BY <1>2, <1>4, <2>2
    <3> QED
      BY <1>1, <1>4, <2>2, <3>1 DEF InLogOrder
  <2>3. CASE t = s /\ j = Len(got[s]) + 1
    <3>1. i \in 1 .. Len(got[s])
      BY <1>2, <1>4, <2>3
    <3>2. PICK k \in 1 .. Len(log) : k <= cursor[s] /\ log[k] = got[s][i]
      BY <1>1, <3>1 DEF Behind
    <3>3. k < cursor[s] + 1
      BY <1>2, <3>2
    <3> QED
      BY <1>4, <1>5, <2>3, <3>1, <3>2, <3>3
  <2> QED
    BY <1>2, <1>4, <2>1, <2>2, <2>3
<1> QED
  BY <1>6, <1>7 DEF OrderInv, FeedInv

LEMMA OtherOrderInv ==
    ASSUME OrderInv, FeedInv',
           \/ \E s \in Subscriber : Leave(s) \/ \E at \in 0 .. Len(log) : Join(s, at)
           \/ \E S \in SUBSET Subscriber : Miss(S)
    PROVE  OrderInv'
<1>1. FeedTypeOK /\ Behind /\ InLogOrder
  BY DEF OrderInv
<1>2. log' = log /\ Len(<< >>) = 0 /\ Len(log) \in Nat
  BY <1>1 DEF Leave, Join, Miss, FeedTypeOK
<1>3. \A t \in Subscriber :
          \/ got'[t] = << >>
          \/ /\ got'[t] = got[t]
             /\ cursor[t] \in Int /\ cursor'[t] \in Int /\ cursor[t] <= cursor'[t]
  BY <1>1 DEF Leave, Join, Miss, FeedTypeOK, Joined, Off
<1>4. Behind'
  <2> SUFFICES ASSUME NEW t \in Subscriber, NEW i \in 1 .. Len(got'[t])
               PROVE  \E k \in 1 .. Len(log) : k <= cursor'[t] /\ log[k] = got'[t][i]
    BY <1>2 DEF Behind
  <2>1. /\ got'[t] = got[t] /\ i \in 1 .. Len(got[t])
        /\ cursor[t] \in Int /\ cursor'[t] \in Int /\ cursor[t] <= cursor'[t]
    BY <1>2, <1>3
  <2>2. PICK k \in 1 .. Len(log) : k <= cursor[t] /\ log[k] = got[t][i]
    BY <1>1, <2>1 DEF Behind
  <2> QED
    BY <1>2, <2>1, <2>2
<1>5. InLogOrder'
  <2> SUFFICES ASSUME NEW t \in Subscriber, NEW i \in 1 .. Len(got'[t]),
                      NEW j \in 1 .. Len(got'[t]), i < j
               PROVE  \E k, l \in 1 .. Len(log) :
                         k < l /\ log[k] = got'[t][i] /\ log[l] = got'[t][j]
    BY <1>2 DEF InLogOrder
  <2>1. got'[t] = got[t]
    BY <1>2, <1>3
  <2> QED
    BY <1>1, <2>1 DEF InLogOrder
<1> QED
  BY <1>4, <1>5 DEF OrderInv, FeedInv

\* Whoever throws, what a subscriber is handed comes in the order of the log.
THEOREM OrderOfLog == FeedSpec => []InLogOrder
<1>1. OrderInv /\ UNCHANGED feedVars => OrderInv'
  BY DEF OrderInv, FeedTypeOK, Behind, InLogOrder, feedVars
<1>2. OrderInv /\ FeedInv' /\ [FeedNext]_feedVars => OrderInv'
  BY <1>1, GrowOrderInv, DeliverOrderInv, OtherOrderInv DEF FeedNext
<1>3. OrderInv => InLogOrder
  BY DEF OrderInv
<1> QED
  BY <1>2, <1>3, InitFeedInv, StepFeedInv, InitOrderInv, PTL DEF FeedSpec
=============================================================================
