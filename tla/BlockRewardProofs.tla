-------------------------- MODULE BlockRewardProofs --------------------------
(***************************************************************************)
(* Proofs about BlockReward, for any number of miners and handlers, any    *)
(* window, fee and failures: the type invariant, RewardInv and with it     *)
(* NeverOvercredits, WindowComplete and FairSplit.                         *)
(***************************************************************************)
EXTENDS BlockReward, SumTheorems

-----------------------------------------------------------------------------
(* Math.floor in floating point.                                           *)

\* Multiplication by a positive number can be cancelled in an inequality.
LEMMA CancelFactor ==
  ASSUME NEW c \in Nat \ {0}, NEW a \in Int, NEW b \in Int
  PROVE  /\ c * a < c * b => a < b
         /\ c * a <= c * b => a <= b
<1>1. b <= a => c * b <= c * a
  BY Z3
<1>2. b < a => c * b < c * a
  BY Z3
<1>3. c * a \in Int /\ c * b \in Int
  OBVIOUS
<1> QED BY <1>1, <1>2, <1>3

\* A floor of doubles is off by less than one and by the error of the doubles.
LEMMA FloorOfBounds ==
  ASSUME NEW num \in Nat, NEW den \in Nat \ {0}, NEW err \in Nat,
         NEW q \in FloorOf(num, den, err)
  PROVE  /\ q \in Nat
         /\ q * den * Precision <= num * Precision + err
         /\ num * Precision - err < (q + 1) * den * Precision
<1>1. /\ q \in 0..((num + err) \div den)
      /\ q * den * Precision <= num * Precision + err
      /\ (q + 1) * den * Precision > num * Precision - err
  BY DEF FloorOf
<1>2. q \in Nat
  <2>1. (num + err) \div den \in Nat
    OBVIOUS
  <2> QED BY <1>1, <2>1
<1>3. \A a, b \in Int : a > b => b < a
  OBVIOUS
<1>4. (q + 1) * den * Precision \in Int /\ num * Precision - err \in Int
  BY <1>2, RewardAssumption
<1> QED BY <1>1, <1>2, <1>3, <1>4

\* The fee leaves no more than the reward to distribute: the doubles are precise enough
\* not to round it up.
LEMMA DistributableBounds ==
  ASSUME NEW reward \in Nat, reward < Precision, NEW d \in Distributable(reward)
  PROVE  d \in Nat /\ d <= reward
<1>1. /\ FeeUnit \in Nat \ {0} /\ FeeParts \in Nat /\ FeeParts < FeeUnit
      /\ Precision \in Nat \ {0}
  BY RewardAssumption
<1>2. CASE FeeParts = 0
  BY <1>2 DEF Distributable
<1>3. CASE FeeParts # 0
  <2> DEFINE num == reward * (FeeUnit - FeeParts)
             err == reward * FeeUnit
  <2>1. num \in Nat /\ err \in Nat /\ num <= reward * FeeUnit
    <3>1. FeeUnit - FeeParts \in Nat /\ FeeUnit - FeeParts <= FeeUnit
      BY <1>1
    <3>2. \A u \in Nat : u <= FeeUnit => reward * u <= reward * FeeUnit
      BY <1>1
    <3> QED BY <1>1, <3>1, <3>2
  <2>2. d \in FloorOf(num, FeeUnit, err)
    BY <1>3 DEF Distributable
  <2>3. d \in Nat /\ d * FeeUnit * Precision <= num * Precision + err
    <3> HIDE DEF num, err
    <3> QED BY <1>1, <2>1, <2>2, FloorOfBounds
  <2>4. num * Precision <= reward * FeeUnit * Precision
    <3>1. \A a, b \in Nat : a <= b => a * Precision <= b * Precision
      BY <1>1
    <3>2. reward * FeeUnit \in Nat
      BY <1>1
    <3> HIDE DEF num
    <3> QED BY <2>1, <3>1, <3>2
  <2>5. err < FeeUnit * Precision
    <3>1. FeeUnit * reward < FeeUnit * Precision
      BY <1>1
    <3> QED BY <1>1, <3>1
  <2>6. FeeUnit * Precision \in Nat \ {0}
    BY <1>1
  <2>7. (FeeUnit * Precision) * d < (FeeUnit * Precision) * (reward + 1)
    <3>1. d * FeeUnit * Precision = (FeeUnit * Precision) * d
      BY <1>1, <2>3
    <3>2. reward * FeeUnit * Precision + FeeUnit * Precision = (FeeUnit * Precision) * (reward + 1)
      BY <1>1
    <3>3. \A a, b, c, e, x \in Int : a <= b + e /\ b <= c /\ e < x => a < c + x
      OBVIOUS
    <3>4. /\ d * FeeUnit * Precision \in Int /\ num * Precision \in Int /\ err \in Int
          /\ reward * FeeUnit * Precision \in Int
      BY <1>1, <2>1, <2>3
    <3> HIDE DEF num, err
    <3> QED BY <2>3, <2>4, <2>5, <2>6, <3>1, <3>2, <3>3, <3>4
  <2>8. d < reward + 1
    BY <2>3, <2>6, <2>7, CancelFactor
  <2> QED BY <2>3, <2>8
<1> QED BY <1>2, <1>3

-----------------------------------------------------------------------------
(* The split.                                                              *)

\* Sets of share ids are finite and their difficulties add up to a natural.
LEMMA SharesFinite ==
  ASSUME shareLog \in Seq(PplnsShareEntity), NEW S \in SUBSET (1..Len(shareLog))
  PROVE  /\ IsFiniteSet(S)
         /\ \A i \in S : shareLog[i] \in PplnsShareEntity
         /\ TotalDifficulty(S) \in Nat
<1>1. Len(shareLog) \in Nat
  OBVIOUS
<1>2. IsFiniteSet(S)
  <2>1. IsFiniteSet(1..Len(shareLog))
    BY <1>1, FS_Interval
  <2> QED BY <2>1, FS_Subset
<1>3. \A i \in S : shareLog[i] \in PplnsShareEntity
  OBVIOUS
<1> DEFINE f == [i \in DOMAIN shareLog |-> shareLog[i].difficulty]
<1>4. \A i \in S : f[i] \in Nat
  BY <1>3 DEF PplnsShareEntity
<1>5. SumOver(f, S) \in Nat
  <2> HIDE DEF f
  <2> QED BY <1>2, <1>4, SumNat
<1> QED BY <1>2, <1>3, <1>5 DEF TotalDifficulty

\* n amounts, each off by less than one and by one part in P of its exact value, add up
\* to less than one more, or n + 1 less, than the exact sum dist * D / T.
LEMMA RoundingTotal ==
  ASSUME NEW T \in Nat \ {0}, NEW P \in Nat \ {0}, NEW dist \in Nat, dist < P,
         NEW D \in Nat, D <= T, NEW A \in Nat, NEW n \in Nat,
         (T * P) * A <= (dist * (P + 1)) * D,
         (dist * (P - 1)) * D <= (T * P) * (A + n)
  PROVE  A * T < dist * D + T /\ dist * D < (A + n + 1) * T
<1> DEFINE x == dist * D
           y == T * A
           z == T * (A + n)
<1>1. x \in Nat /\ y \in Nat /\ z \in Nat
  OBVIOUS
<1>2. x < P * T
  <2>1. dist * D <= dist * T
    BY Z3
  <2>2. dist * T < P * T
    BY Z3
  <2>3. dist * T \in Nat /\ P * T \in Nat
    OBVIOUS
  <2> HIDE DEF x
  <2> QED BY <1>1, <2>1, <2>2, <2>3 DEF x
<1>3. (T * P) * A = P * y /\ (T * P) * (A + n) = P * z
  <2>1. \A k \in Nat : (T * P) * k = P * (T * k)
    OBVIOUS
  <2>2. A + n \in Nat
    OBVIOUS
  <2> QED BY <2>1, <2>2
<1>4. (dist * (P + 1)) * D = P * x + x /\ (dist * (P - 1)) * D = P * x - x
  <2>1. dist * (P + 1) = dist * P + dist /\ dist * (P - 1) = dist * P - dist
    OBVIOUS
  <2>2. dist * P \in Nat /\ (dist * P) * D = P * (dist * D)
    OBVIOUS
  <2>3. \A c \in Nat : (c + dist) * D = c * D + dist * D /\ (c - dist) * D = c * D - dist * D
    OBVIOUS
  <2> QED BY <2>1, <2>2, <2>3
<1>5. P * (x + T) = P * x + P * T /\ P * (z + T) = P * z + P * T
  OBVIOUS
<1>6. P * x \in Nat /\ P * y \in Nat /\ P * z \in Nat /\ P * T \in Nat
  BY <1>1
<1> HIDE DEF x, y, z
<1>7. P * y < P * (x + T) /\ P * x < P * (z + T)
  BY <1>1, <1>2, <1>3, <1>4, <1>5, <1>6
<1>8. x + T \in Int /\ z + T \in Int /\ x \in Int /\ y \in Int
  BY <1>1
<1>9. y < x + T /\ x < z + T
  BY <1>7, <1>8, CancelFactor
<1>10. A * T = y /\ (A + n + 1) * T = z + T
  BY DEF y, z
<1> QED BY <1>9, <1>10 DEF x

\* The amounts of the shares in U, a part of the window S.
LEMMA AmountsBounds ==
  ASSUME shareLog \in Seq(PplnsShareEntity), NEW S \in SUBSET (1..Len(shareLog)),
         TotalDifficulty(S) > 0, NEW dist \in Nat, dist < Precision,
         NEW amount \in ShareAmounts(S, dist), NEW U \in SUBSET S
  PROVE  /\ \A i \in U : amount[i] \in Nat
         /\ SumOver(amount, U) \in Nat
         /\ SumOver(amount, U) * TotalDifficulty(S)
              < dist * TotalDifficulty(U) + TotalDifficulty(S)
         /\ dist * TotalDifficulty(U)
              < (SumOver(amount, U) + Cardinality(U) + 1) * TotalDifficulty(S)
         /\ U = S => dist - SumOver(amount, S) \in 0..Cardinality(S)
<1> DEFINE T == TotalDifficulty(S)
           D == TotalDifficulty(U)
           A == SumOver(amount, U)
           n == Cardinality(U)
           d == [i \in DOMAIN shareLog |-> shareLog[i].difficulty]
           c == T * Precision
           hi == dist * (Precision + 1)
           lo == dist * (Precision - 1)
           scaled == [i \in U |-> c * amount[i]]
           above == [i \in U |-> hi * d[i]]
           below == [i \in U |-> lo * d[i]]
           ones == [i \in U |-> 1]
           next == [i \in U |-> amount[i] + ones[i]]
           upper == [i \in U |-> c * next[i]]
<1>0. Precision \in Nat \ {0}
  BY RewardAssumption
<1>1. /\ IsFiniteSet(U) /\ n \in Nat /\ T \in Nat \ {0} /\ D \in Nat /\ D <= T
      /\ \A i \in U : d[i] \in Nat
  <2>1. IsFiniteSet(S) /\ T \in Nat
    BY SharesFinite
  <2>2. IsFiniteSet(U)
    BY <2>1, FS_Subset
  <2>3. n \in Nat
    BY <2>2, FS_CardinalityType
  <2>4. T # 0
    OBVIOUS
  <2>5. \A i \in S : d[i] \in Nat
    <3>1. \A i \in S : i \in DOMAIN shareLog /\ shareLog[i] \in PplnsShareEntity
      OBVIOUS
    <3> QED BY <3>1 DEF PplnsShareEntity
  <2>6. D \in Nat /\ D <= T
    <3>1. T = SumOver(d, S) /\ D = SumOver(d, U)
      BY DEF TotalDifficulty
    <3> HIDE DEF T, D, d
    <3> QED BY <2>1, <2>5, <3>1, SumPart
  <2> HIDE DEF d, T, D, n
  <2> QED BY <2>1, <2>2, <2>3, <2>4, <2>5, <2>6
<1>2. c \in Int /\ hi \in Int /\ lo \in Int
  BY <1>0, <1>1
<1>3. ASSUME NEW i \in U
      PROVE  /\ amount[i] \in Nat
             /\ scaled[i] <= above[i] /\ below[i] <= upper[i]
  <2>1. amount[i] \in FloorOf(dist * shareLog[i].difficulty, T, dist * shareLog[i].difficulty)
    BY DEF ShareAmounts
  <2>2. d[i] = shareLog[i].difficulty
    OBVIOUS
  <2> DEFINE e == dist * d[i]
  <2> HIDE DEF T, d
  <2>3. e \in Nat
    BY <1>1
  <2>4. /\ amount[i] \in Nat /\ amount[i] * T * Precision <= e * Precision + e
        /\ e * Precision - e < (amount[i] + 1) * T * Precision
    <3>1. amount[i] \in FloorOf(e, T, e)
      BY <2>1, <2>2
    <3> HIDE DEF e
    <3> QED BY <1>1, <2>3, <3>1, FloorOfBounds
  <2>5. e * Precision + e = hi * d[i] /\ e * Precision - e = lo * d[i]
    <3>1. dist \in Nat /\ d[i] \in Nat
      BY <1>1
    <3>2. \A a, b, p \in Nat : /\ (a * b) * p + a * b = (a * (p + 1)) * b
                               /\ (a * b) * p - a * b = (a * (p - 1)) * b
      BY Z3
    <3> QED BY <1>0, <3>1, <3>2
  <2>6. amount[i] * T * Precision = c * amount[i]
        /\ (amount[i] + 1) * T * Precision = c * (amount[i] + 1)
    <3>1. \A a, t, p \in Nat : a * t * p = (t * p) * a
      BY Z3
    <3>2. amount[i] + 1 \in Nat /\ amount[i] \in Nat /\ T \in Nat /\ Precision \in Nat
      <4>1. amount[i] \in Nat /\ T \in Nat /\ Precision \in Nat
        BY <1>0, <1>1, <2>4, Zenon
      <4>2. \A a \in Nat : a + 1 \in Nat
        OBVIOUS
      <4> QED BY <4>1, <4>2, Zenon
    <3>3. c = T * Precision
      OBVIOUS
    <3> HIDE DEF c
    <3> QED BY <3>1, <3>2, <3>3, Zenon
  <2>7. /\ scaled[i] = c * amount[i] /\ upper[i] = c * (amount[i] + 1)
        /\ above[i] = hi * d[i] /\ below[i] = lo * d[i]
    OBVIOUS
  <2>8. lo * d[i] \in Int /\ c * (amount[i] + 1) \in Int
    <3>1. \A a, b \in Int : a * b \in Int
      OBVIOUS
    <3>2. d[i] \in Int /\ amount[i] + 1 \in Int
      BY <1>1, <2>4
    <3> HIDE DEF lo, c
    <3> QED BY <1>2, <3>1, <3>2
  <2> HIDE DEF e, scaled, above, below, upper, lo, hi, c
  <2> QED BY <2>4, <2>5, <2>6, <2>7, <2>8
<1>4. \A i \in U : amount[i] \in Int /\ d[i] \in Int
  <2> HIDE DEF d
  <2> QED BY <1>1, <1>3
<1>5. \A i \in U : /\ next[i] = amount[i] + ones[i] /\ ones[i] = 1 /\ next[i] \in Int
                   /\ scaled[i] = c * amount[i] /\ scaled[i] \in Int
                   /\ above[i] = hi * d[i] /\ above[i] \in Int
                   /\ below[i] = lo * d[i] /\ below[i] \in Int
                   /\ upper[i] = c * next[i] /\ upper[i] \in Int
  <2> HIDE DEF c, hi, lo, d
  <2> QED BY <1>2, <1>4, SMTT(60)
<1>6. D = SumOver(d, U)
  BY DEF TotalDifficulty
<1> HIDE DEF T, D, d, c, hi, lo, scaled, above, below, upper, next, ones, n
<1>7. A \in Nat
  BY <1>1, <1>3, SumNat
<1>8. SumOver(scaled, U) = c * A
  <2>1. \A i \in U : amount[i] \in Int /\ scaled[i] = c * amount[i]
    BY <1>4, <1>5
  <2> QED BY <1>1, <1>2, <2>1, SumScale, Zenon
<1>9. SumOver(above, U) = hi * D /\ SumOver(below, U) = lo * D
  <2>1. SumOver(above, U) = hi * SumOver(d, U)
    <3>1. \A i \in U : d[i] \in Int /\ above[i] = hi * d[i]
      BY <1>4, <1>5
    <3> QED BY <1>1, <1>2, <3>1, SumScale, Zenon
  <2>2. SumOver(below, U) = lo * SumOver(d, U)
    <3>1. \A i \in U : d[i] \in Int /\ below[i] = lo * d[i]
      BY <1>4, <1>5
    <3> QED BY <1>1, <1>2, <3>1, SumScale, Zenon
  <2> QED BY <1>6, <2>1, <2>2
<1>10. SumOver(ones, U) = n
  BY <1>1, <1>5, SumOnes DEF n
<1>11. SumOver(next, U) = A + SumOver(ones, U)
  <2>1. \A i \in U : amount[i] \in Int /\ ones[i] \in Int /\ next[i] = amount[i] + ones[i]
    BY <1>4, <1>5
  <2> QED BY <1>1, <2>1, SumPlus, Zenon
<1>12. SumOver(upper, U) = c * SumOver(next, U)
  <2>1. \A i \in U : next[i] \in Int /\ upper[i] = c * next[i]
    BY <1>5
  <2> QED BY <1>1, <1>2, <2>1, SumScale, Zenon
<1>13. SumOver(scaled, U) <= SumOver(above, U)
  <2>1. \A i \in U : scaled[i] \in Int /\ above[i] \in Int /\ scaled[i] <= above[i]
    BY <1>3, <1>5
  <2> QED BY <1>1, <2>1, SumMonotone, Zenon
<1>14. SumOver(below, U) <= SumOver(upper, U)
  <2>1. \A i \in U : below[i] \in Int /\ upper[i] \in Int /\ below[i] <= upper[i]
    BY <1>3, <1>5
  <2> QED BY <1>1, <2>1, SumMonotone, Zenon
<1> HIDE DEF A
<1>15. c * A <= hi * D /\ lo * D <= c * (A + n)
  BY <1>8, <1>9, <1>10, <1>11, <1>12, <1>13, <1>14
<1>16. A * T < dist * D + T /\ dist * D < (A + n + 1) * T
  BY <1>0, <1>1, <1>7, <1>15, RoundingTotal DEF c, hi, lo
<1>17. ASSUME U = S PROVE dist - A \in 0..n
  <2>1. D = T
    BY <1>17 DEF D, T
  <2>2. A * T = T * A /\ dist * D + T = T * (dist + 1) /\ dist * D = T * dist
        /\ (A + n + 1) * T = T * (A + n + 1)
    BY <1>1, <1>7, <2>1
  <2>3. A < dist + 1 /\ dist < A + n + 1
    BY <1>1, <1>7, <1>16, <2>2, CancelFactor
  <2> QED BY <1>1, <1>7, <2>3
<1>18. \A i \in U : amount[i] \in Nat
  BY <1>3
<1>19. U = S => dist - SumOver(amount, S) \in 0..Cardinality(S)
  BY <1>17 DEF A, n
<1> QED BY <1>7, <1>16, <1>18, <1>19 DEF T, D, A, n

\* What the miners are credited is what the shares earned.
LEMMA CreditedIsAmounts ==
  ASSUME NEW S, IsFiniteSet(S), NEW amount,
         \A i \in S : amount[i] \in Int /\ shareLog[i].minerAddress \in Miners
  PROVE  CreditedTotal(PerMinerTotals(S, amount)) = SumOver(amount, S)
<1> DEFINE totals == PerMinerTotals(S, amount)
           k == [i \in S |-> shareLog[i].minerAddress]
           G == [m \in Miners |-> {i \in S : shareLog[i].minerAddress = m}]
<1>1. IsFiniteSet(Miners)
  BY RewardAssumption
<1>2. Grouped(S, Miners, k, G)
  BY DEF Grouped
<1>3. \A m \in Miners : totals[m] = SumOver(amount, G[m])
  BY DEF PerMinerTotals
<1>4. \A i \in S : amount[i] \in Int
  OBVIOUS
<1> HIDE DEF k, totals, G
<1>5. SumOver(totals, Miners) = SumOver(amount, S)
  BY <1>1, <1>2, <1>3, <1>4, SumByGroup
<1> QED BY <1>5 DEF CreditedTotal, totals

\* The split of a window: no more is credited than is to be distributed, and what is
\* left over is at most one lepton per share.
LEMMA SplitBounds ==
  ASSUME shareLog \in Seq(PplnsShareEntity), NEW S \in SUBSET (1..Len(shareLog)),
         TotalDifficulty(S) > 0, NEW dist \in Nat, dist < Precision,
         NEW amount \in ShareAmounts(S, dist)
  PROVE  LET totals == PerMinerTotals(S, amount)
             Own(m) == {i \in S : shareLog[i].minerAddress = m}
         IN  /\ totals \in [Miners -> Nat]
             /\ CreditedTotal(totals) \in Nat
             /\ dist - CreditedTotal(totals) \in 0..Cardinality(S)
             /\ \A m \in Miners :
                  /\ totals[m] * TotalDifficulty(S)
                       < dist * TotalDifficulty(Own(m)) + TotalDifficulty(S)
                  /\ (totals[m] + Cardinality(Own(m)) + 1) * TotalDifficulty(S)
                       > dist * TotalDifficulty(Own(m))
<1> DEFINE totals == PerMinerTotals(S, amount)
           Own(m) == {i \in S : shareLog[i].minerAddress = m}
           T == TotalDifficulty(S)
<1>1. IsFiniteSet(S) /\ T \in Nat \ {0} /\ IsFiniteSet(Miners)
  BY SharesFinite, RewardAssumption
<1>2. \A m \in Miners : totals[m] = SumOver(amount, Own(m))
  BY DEF PerMinerTotals
<1>3. ASSUME NEW m \in Miners
      PROVE  /\ totals[m] \in Nat
             /\ totals[m] * T < dist * TotalDifficulty(Own(m)) + T
             /\ (totals[m] + Cardinality(Own(m)) + 1) * T > dist * TotalDifficulty(Own(m))
  <2>1. Own(m) \in SUBSET S
    OBVIOUS
  <2>2. Cardinality(Own(m)) \in Nat
    BY <1>1, <2>1, FS_Subset, FS_CardinalityType
  <2> HIDE DEF Own
  <2>3. totals[m] = SumOver(amount, Own(m))
    BY <1>2
  <2> HIDE DEF totals
  <2>4. /\ SumOver(amount, Own(m)) \in Nat
        /\ SumOver(amount, Own(m)) * T < dist * TotalDifficulty(Own(m)) + T
        /\ dist * TotalDifficulty(Own(m))
              < (SumOver(amount, Own(m)) + Cardinality(Own(m)) + 1) * T
    BY <2>1, AmountsBounds
  <2>5. \A a, b \in Int : a < b => b > a
    OBVIOUS
  <2>6. TotalDifficulty(Own(m)) \in Nat
    <3>1. Own(m) \in SUBSET (1..Len(shareLog))
      BY <2>1
    <3> QED BY <3>1, SharesFinite
  <2>7. /\ dist * TotalDifficulty(Own(m)) \in Int
        /\ (SumOver(amount, Own(m)) + Cardinality(Own(m)) + 1) * T \in Int
    BY <1>1, <2>2, <2>4, <2>6
  <2> HIDE DEF T
  <2> QED BY <2>3, <2>4, <2>5, <2>7
<1>4. totals \in [Miners -> Nat]
  <2>1. totals = [m \in Miners |-> SumOver(amount, Own(m))]
    BY DEF PerMinerTotals
  <2> HIDE DEF totals, Own
  <2> QED BY <2>1, <1>3
<1>5. CreditedTotal(totals) = SumOver(amount, S)
  <2>1. \A i \in S : amount[i] \in Nat
    BY AmountsBounds
  <2>2. \A i \in S : shareLog[i] \in PplnsShareEntity
    OBVIOUS
  <2>3. \A i \in S : amount[i] \in Int /\ shareLog[i].minerAddress \in Miners
    BY <2>1, <2>2 DEF PplnsShareEntity
  <2> QED BY <1>1, <2>3, CreditedIsAmounts
<1>6. SumOver(amount, S) \in Nat /\ dist - SumOver(amount, S) \in 0..Cardinality(S)
  <2>1. S \in SUBSET S
    OBVIOUS
  <2> QED BY <2>1, AmountsBounds
<1> HIDE DEF T
<1> HIDE DEF totals, Own
<1>7. /\ CreditedTotal(totals) \in Nat
      /\ dist - CreditedTotal(totals) \in 0..Cardinality(S)
  BY <1>5, <1>6
<1> QED BY <1>3, <1>4, <1>7 DEF totals, Own, T

-----------------------------------------------------------------------------
(* What a handler holds.                                                   *)

\* The part of RewardInv about one handler.
HandlerInv(r) == HandlerOK(r) /\ WindowRead(r) /\ SplitFairly(r)

\* A handler at the end of its submission.
LEMMA IdleFacts ==
  ASSUME shareLog \in Seq(PplnsShareEntity)
  PROVE  Idle \in HandlerState /\ HandlerInv(Idle) /\ Idle.pc = "idle"
<1>1. (CHOOSE m \in Miners : TRUE) \in Miners /\ 0 < Precision
  BY RewardAssumption
<1>2. Idle \in HandlerState
  BY <1>1 DEF Idle, IdleHandler, HandlerState, HandlerPc, NoSplit
<1>3. Idle.pc = "idle" /\ Idle.todo = {} /\ Idle.share = 0 /\ Idle.counted = {} /\ Idle.dustSats = 0
  BY DEF Idle, IdleHandler
<1>4. HandlerInv(Idle)
  <2> HIDE DEF Idle
  <2>1. Len(shareLog) >= 0
    OBVIOUS
  <2> QED BY <1>3 DEF HandlerInv, HandlerOK, WindowRead, SplitFairly, Splitting
<1> QED BY <1>2, <1>3, <1>4

\* Before the split nothing of HandlerInv depends on what was read.
LEMMA EarlyHandler ==
  ASSUME NEW r, HandlerOK(r), r.pc \notin Splitting
  PROVE  HandlerInv(r)
BY DEF HandlerInv, WindowRead, SplitFairly

\* A step of handler h that changes neither the clock nor the share log.
LEMMA HandlerChanges ==
  ASSUME RewardTypeOK, RewardInv, NEW h \in Handlers, NEW r \in HandlerState, HandlerInv(r),
         SetHandler(h, r), UNCHANGED <<clock, shareLog>>
  PROVE  /\ handler' \in [Handlers -> HandlerState]
         /\ (\A g \in Handlers : HandlerInv(handler[g]))'
<1>1. handler' \in [Handlers -> HandlerState]
  BY DEF SetHandler, RewardTypeOK
<1>2. \A g \in Handlers : HandlerInv(handler[g])
  BY DEF RewardInv, HandlerInv, WindowComplete, FairSplit
<1>3. \A g \in Handlers : handler'[g] = IF g = h THEN r ELSE handler[g]
  BY DEF SetHandler, RewardTypeOK
<1>4. ASSUME NEW g \in Handlers PROVE HandlerInv(handler[g])'
  <2>1. HandlerInv(handler'[g])
    BY <1>2, <1>3
  <2> QED
    BY <2>1, SMTT(40) DEF HandlerInv, HandlerOK, WindowRead, SplitFairly, TotalDifficulty
<1> QED BY <1>1, <1>4

\* A share is logged: splits in progress do not see it, and it is younger than their
\* windows.
LEMMA ShareLogged ==
  ASSUME RewardTypeOK, RewardInv, NEW e \in PplnsShareEntity, e.difficulty > 0,
         e.timestamp = clock, shareLog' = Append(shareLog, e), UNCHANGED <<clock, pruned>>
  PROVE  /\ shareLog' \in Seq(PplnsShareEntity) /\ pruned' \subseteq 1..Len(shareLog')
         /\ ShareLogInv'
         /\ \A r \in HandlerState : HandlerInv(r) => HandlerInv(r)'
<1> DEFINE n == Len(shareLog)
<1>1. /\ shareLog \in Seq(PplnsShareEntity) /\ n \in Nat /\ clock \in Nat
      /\ pruned \subseteq 1..n
  BY DEF RewardTypeOK
<1>2. /\ shareLog' \in Seq(PplnsShareEntity) /\ Len(shareLog') = n + 1
      /\ shareLog'[n + 1] = e /\ \A i \in 1..n : shareLog'[i] = shareLog[i]
  BY <1>1
<1>3. pruned' \subseteq 1..Len(shareLog')
  BY <1>1, <1>2
<1>4. ShareLogInv'
  <2>1. ShareLogInv
    BY DEF RewardInv
  <2>2. \A i \in 1..Len(shareLog') : i \in 1..n \/ i = n + 1
    BY <1>1, <1>2
  <2> HIDE DEF n
  <2> QED BY <1>1, <1>2, <2>1, <2>2 DEF ShareLogInv, PruneCutoff
<1>5. ASSUME NEW r \in HandlerState, HandlerInv(r) PROVE HandlerInv(r)'
  <2>1. HandlerOK(r)'
    <3>1. r.share \in Nat
      BY DEF HandlerState
    <3>2. 1..n \subseteq 1..Len(shareLog') /\ n <= Len(shareLog')
      BY <1>1, <1>2
    <3> HIDE DEF n
    <3> QED BY <1>1, <1>2, <1>5, <3>1, <3>2 DEF HandlerInv, HandlerOK, n
  <2>2. WindowRead(r)'
    <3>1. SUFFICES ASSUME r.pc \in Splitting
                   PROVE  WindowRead(r)'
      BY DEF WindowRead
    <3>2. r.windowStart \in Int /\ Window \in Nat /\ r.windowStart + Window <= clock
      BY <1>1, <1>5, <3>1, RewardAssumption DEF HandlerInv, HandlerOK, HandlerState
    <3>3. ASSUME NEW i \in 1..Len(shareLog'),
                 shareLog'[i].timestamp \in r.windowStart..(r.windowStart + Window - 1)
          PROVE  i \in r.counted
      <4>1. i # n + 1
        BY <1>1, <1>2, <3>2, <3>3
      <4>2. i \in 1..n
        BY <1>1, <1>2, <4>1
      <4> QED BY <1>2, <1>5, <3>1, <3>3, <4>2 DEF HandlerInv, WindowRead
    <3>4. ASSUME r.share # 0, shareLog'[r.share].timestamp >= r.windowStart
          PROVE  r.share \in r.counted
      <4>1. r.share \in 1..n
        BY <1>1, <1>5, <3>4 DEF HandlerInv, HandlerOK, HandlerState
      <4>2. shareLog'[r.share] = shareLog[r.share]
        BY <1>2, <4>1
      <4> QED BY <1>5, <3>1, <3>4, <4>2 DEF HandlerInv, WindowRead
    <3> QED BY <3>3, <3>4 DEF WindowRead
  <2>3. SplitFairly(r)'
    <3>1. r.counted \subseteq 1..n
      BY <1>5 DEF HandlerInv, HandlerOK
    <3>2. ASSUME NEW S \in SUBSET r.counted
          PROVE  TotalDifficulty(S)' = TotalDifficulty(S)
      <4> DEFINE d == [i \in DOMAIN shareLog |-> shareLog[i].difficulty]
                 dd == [i \in DOMAIN shareLog' |-> shareLog'[i].difficulty]
      <4>1. S \in SUBSET (1..n)
        BY <3>1
      <4>2. IsFiniteSet(S)
        BY <1>1, <4>1, SharesFinite
      <4>3. \A i \in S : i \in DOMAIN shareLog /\ shareLog[i] \in PplnsShareEntity
        BY <1>1, <4>1
      <4>4. \A i \in S : i \in DOMAIN shareLog' /\ shareLog'[i] = shareLog[i]
        BY <1>1, <1>2, <4>1
      <4>5. \A i \in S : d[i] \in Int /\ d[i] = dd[i]
        BY <4>3, <4>4 DEF PplnsShareEntity
      <4> HIDE DEF d, dd
      <4>6. SumOver(d, S) = SumOver(dd, S)
        BY <4>2, <4>5, SumAgree
      <4> QED BY <4>6 DEF TotalDifficulty, d, dd
    <3> DEFINE Own(m) == {i \in r.counted : shareLog[i].minerAddress = m}
    <3>3. ASSUME NEW m \in Miners
          PROVE  Own(m)' = Own(m) /\ TotalDifficulty(Own(m))' = TotalDifficulty(Own(m))
      <4>1. \A i \in r.counted : shareLog'[i] = shareLog[i]
        BY <1>2, <3>1
      <4>2. Own(m)' = Own(m)
        BY <4>1
      <4> DEFINE o == Own(m)
      <4>3. TotalDifficulty(o)' = SumOver([i \in DOMAIN shareLog' |-> shareLog'[i].difficulty], o')
        BY DEF TotalDifficulty
      <4> QED BY <3>2, <4>2, <4>3 DEF TotalDifficulty
    <3>4. TotalDifficulty(r.counted)' = TotalDifficulty(r.counted)
      BY <3>2
    <3> QED BY <1>5, <3>3, <3>4 DEF HandlerInv, SplitFairly
  <2> QED BY <2>1, <2>2, <2>3 DEF HandlerInv
<1> QED BY <1>2, <1>3, <1>4, <1>5

-----------------------------------------------------------------------------
(* The books.                                                              *)

\* What was mined and is neither booked nor about to be.
Surplus == Mined - (Booked + StillUnbooked)

\* What a handler has yet to book.
LEMMA UnbookedNat ==
  ASSUME NEW r \in HandlerState, r.dustSats >= 0
  PROVE  Unbooked(r) \in Nat
<1>1. /\ r.todo \in SUBSET Miners /\ r.perMinerTotals \in [Miners -> Nat]
      /\ r.coinbasevalue \in Nat /\ r.feeSats \in Nat /\ r.dustSats \in Nat
  BY DEF HandlerState
<1>2. IsFiniteSet(r.todo)
  BY <1>1, RewardAssumption, FS_Subset
<1>3. SumOver(r.perMinerTotals, r.todo) \in Nat
  BY <1>1, <1>2, SumNat
<1> QED BY <1>1, <1>3 DEF Unbooked, Announcing, Splitting

\* A handler that is not between the node's answer and the end of its split has nothing
\* to book.
LEMMA UnbookedZero ==
  ASSUME NEW r, r.pc \notin Announcing \cup Splitting
  PROVE  Unbooked(r) = 0
BY DEF Unbooked, Announcing, Splitting

\* A step of one handler changes what is unbooked by what that handler has to book.
LEMMA StillUnbookedChanges ==
  ASSUME RewardTypeOK, RewardInv, NEW h \in Handlers, NEW r \in HandlerState, r.dustSats >= 0,
         SetHandler(h, r)
  PROVE  /\ StillUnbooked \in Nat /\ Unbooked(r) \in Nat /\ Unbooked(handler[h]) \in Nat
         /\ StillUnbooked' = StillUnbooked - Unbooked(handler[h]) + Unbooked(r)
<1> DEFINE f == [g \in Handlers |-> Unbooked(handler[g])]
           ff == [g \in Handlers |-> Unbooked(handler'[g])]
<1>1. IsFiniteSet(Handlers)
  BY RewardAssumption
<1>2. \A g \in Handlers : handler'[g] = IF g = h THEN r ELSE handler[g]
  BY DEF SetHandler, RewardTypeOK
<1>3. Unbooked(r) \in Nat
  BY UnbookedNat
<1>4. ASSUME NEW g \in Handlers PROVE Unbooked(handler[g]) \in Nat
  <2>1. handler[g] \in HandlerState /\ handler[g].dustSats >= 0
    BY DEF RewardTypeOK, RewardInv, HandlerOK
  <2> QED BY <2>1, UnbookedNat
<1>5. /\ f[h] = Unbooked(handler[h]) /\ ff[h] = Unbooked(r)
      /\ \A g \in Handlers : f[g] \in Nat /\ ff[g] \in Nat
      /\ \A g \in Handlers \ {h} : f[g] = ff[g]
  BY <1>2, <1>3, <1>4
<1>6. StillUnbooked = SumOver(f, Handlers)
  BY DEF StillUnbooked
<1>7. StillUnbooked' = SumOver(ff, Handlers)
  BY DEF StillUnbooked
<1> HIDE DEF f, ff
<1>8. SumOver(f, Handlers) \in Nat
  BY <1>1, <1>5, SumNat
<1>9. SumOver(ff, Handlers) = SumOver(f, Handlers) - f[h] + ff[h]
  <2>1. \A g \in Handlers : f[g] \in Int /\ ff[g] \in Int
    BY <1>5
  <2>2. \A g \in Handlers \ {h} : f[g] = ff[g]
    BY <1>5
  <2> QED BY <1>1, <2>1, <2>2, SumChange, SMT
<1> QED BY <1>3, <1>4, <1>5, <1>6, <1>7, <1>8, <1>9

\* The amounts of a ledger add up to a natural.
LEMMA LedgerSum ==
  ASSUME NEW l \in Seq(PayoutLedgerEntity)
  PROVE  /\ IsFiniteSet(1..Len(l)) /\ Len(l) \in Nat
         /\ \A i \in 1..Len(l) : i \in DOMAIN l /\ l[i].amountSats \in Nat
         /\ SumSats(l, 1..Len(l)) \in Nat
<1> DEFINE f == [i \in DOMAIN l |-> l[i].amountSats]
<1>1. Len(l) \in Nat
  OBVIOUS
<1>2. IsFiniteSet(1..Len(l))
  BY <1>1, FS_Interval
<1>3. \A i \in 1..Len(l) : i \in DOMAIN l /\ l[i] \in PayoutLedgerEntity
  OBVIOUS
<1>4. \A i \in 1..Len(l) : i \in DOMAIN l /\ l[i].amountSats \in Nat
  BY <1>3 DEF PayoutLedgerEntity
<1>5. \A i \in 1..Len(l) : f[i] \in Nat
  BY <1>4
<1> HIDE DEF f
<1>6. SumOver(f, 1..Len(l)) \in Nat
  BY <1>2, <1>5, SumNat
<1> QED BY <1>1, <1>2, <1>4, <1>6 DEF SumSats, f

\* A credit adds a row of its amount; one of 0 adds none.
LEMMA CreditAdds ==
  ASSUME NEW l \in Seq(PayoutLedgerEntity), NEW m \in Miners, NEW amount \in Nat,
         NEW height \in Nat
  PROVE  LET new == credit(l, m, amount, height)
         IN  /\ new \in Seq(PayoutLedgerEntity)
             /\ SumSats(new, 1..Len(new)) = SumSats(l, 1..Len(l)) + amount
<1> DEFINE n == Len(l)
           new == credit(l, m, amount, height)
           f == [i \in DOMAIN l |-> l[i].amountSats]
           ff == [i \in DOMAIN new |-> new[i].amountSats]
<1>1. /\ IsFiniteSet(1..n) /\ n \in Nat
      /\ \A i \in 1..n : i \in DOMAIN l /\ l[i].amountSats \in Nat
      /\ SumOver(f, 1..n) \in Nat
  BY LedgerSum DEF SumSats
<1>2. CASE amount = 0
  <2>1. new = l
    BY <1>2 DEF credit
  <2>2. SumSats(l, 1..Len(l)) \in Nat
    BY LedgerSum
  <2> HIDE DEF new
  <2> QED BY <1>2, <2>1, <2>2 DEF new
<1>3. CASE amount > 0
  <2> DEFINE e == [minerAddress |-> m, blockHeight |-> height, amountSats |-> amount,
                   status |-> "PENDING", txid |-> NoTx]
  <2>1. new = Append(l, e)
    BY <1>3 DEF credit
  <2>2. e \in PayoutLedgerEntity /\ e.amountSats = amount
    BY DEF PayoutLedgerEntity, ePayoutStatus, NoTx
  <2> HIDE DEF e, new
  <2>3. /\ new \in Seq(PayoutLedgerEntity) /\ Len(new) = n + 1 /\ DOMAIN new = 1..(n + 1)
        /\ new[n + 1] = e /\ \A i \in 1..n : new[i] = l[i]
    BY <2>1, <2>2
  <2>4. 1..(n + 1) = (1..n) \cup {n + 1} /\ n + 1 \notin 1..n
    BY <1>1
  <2>5. ff[n + 1] = amount /\ \A i \in 1..n : f[i] \in Int /\ ff[i] \in Int /\ f[i] = ff[i]
    BY <1>1, <2>2, <2>3
  <2> HIDE DEF f, ff, n
  <2>6. SumOver(ff, (1..n) \cup {n + 1}) = ff[n + 1] + SumOver(ff, 1..n)
    <3>1. \A i \in (1..n) \cup {n + 1} : ff[i] \in Int
      BY <2>5
    <3> QED BY <1>1, <2>4, <3>1, SumAdd
  <2>7. SumOver(f, 1..n) = SumOver(ff, 1..n)
    BY <1>1, <2>5, SumAgree
  <2>8. SumSats(new, 1..Len(new)) = SumOver(ff, (1..n) \cup {n + 1})
    BY <2>3, <2>4 DEF SumSats, ff
  <2>9. SumSats(l, 1..Len(l)) = SumOver(f, 1..n)
    BY DEF SumSats, f, n
  <2> QED BY <1>1, <2>3, <2>5, <2>6, <2>7, <2>8, <2>9 DEF new
<1> QED BY <1>2, <1>3

\* The books and what was mined are naturals.
LEMMA BooksNat ==
  ASSUME RewardTypeOK, RewardInv
  PROVE  Booked \in Nat /\ Mined \in Nat
<1>1. SumSats(ledger, 1..Len(ledger)) \in Nat
  BY LedgerSum DEF RewardTypeOK
<1>2. accounting.totalFeeSats \in Nat /\ accounting.totalDustSats \in Nat
  BY DEF RewardTypeOK, PoolAccountingEntity
<1> DEFINE f == [b \in accepted |-> b.coinbasevalue]
<1>3. \A b \in accepted : f[b] \in Nat
  BY DEF RewardTypeOK
<1>4. IsFiniteSet(accepted)
  BY DEF RewardInv
<1> HIDE DEF f
<1>5. SumOver(f, accepted) \in Nat
  BY <1>3, <1>4, SumNat
<1> QED BY <1>1, <1>2, <1>5 DEF Booked, Mined, f

-----------------------------------------------------------------------------
(* Steps of a handler.                                                     *)

\* A step of one handler that moves neither the clock nor the share log keeps the
\* invariant, if what it books is mined and was its own to book; the surplus grows by
\* what it gave up.
LEMMA HandlerStepKeeps ==
  ASSUME RewardTypeOK, RewardInv, NEW h \in Handlers, NEW r \in HandlerState, HandlerInv(r),
         SetHandler(h, r), UNCHANGED <<clock, shareLog, pruned>>,
         ledger' \in Seq(PayoutLedgerEntity), accounting' \in PoolAccountingEntity,
         tip' \in Nat, accepted' \subseteq [height : 1..tip', coinbasevalue : Nat],
         IsFiniteSet(accepted'), NEW booked \in Int, Booked' = Booked + booked,
         NEW mined \in Int, Mined' = Mined + mined,
         booked + Unbooked(r) <= mined + Unbooked(handler[h])
  PROVE  /\ RewardTypeOK' /\ RewardInv'
         /\ Surplus' = Surplus + ((mined + Unbooked(handler[h])) - (booked + Unbooked(r)))
<1>1. /\ handler' \in [Handlers -> HandlerState]
      /\ (\A g \in Handlers : HandlerInv(handler[g]))'
  BY HandlerChanges
<1>2. r.dustSats >= 0
  BY DEF HandlerInv, HandlerOK
<1>3. /\ StillUnbooked \in Nat /\ Unbooked(r) \in Nat /\ Unbooked(handler[h]) \in Nat
      /\ StillUnbooked' = StillUnbooked - Unbooked(handler[h]) + Unbooked(r)
  BY <1>2, StillUnbookedChanges
<1>4. Booked \in Nat /\ Mined \in Nat
  BY BooksNat
<1>5. Surplus' = Surplus + ((mined + Unbooked(handler[h])) - (booked + Unbooked(r)))
  <2> DEFINE u == Unbooked(handler[h])
  <2>1. Surplus = Mined - (Booked + StillUnbooked)
    BY DEF Surplus
  <2>2. Surplus' = Mined' - (Booked' + StillUnbooked')
    BY DEF Surplus
  <2>3. u \in Nat /\ StillUnbooked' = StillUnbooked - u + Unbooked(r)
    BY <1>3
  <2> HIDE DEF u
  <2>4. \A M, B, U, v \in Int :
          (M + mined) - ((B + booked) + (U - u + v)) = (M - (B + U)) + ((mined + u) - (booked + v))
    BY <2>3
  <2>5. Surplus' = (Mined + mined) - ((Booked + booked) + (StillUnbooked - u + Unbooked(r)))
    BY <2>2, <2>3
  <2>6. Mined \in Int /\ Booked \in Int /\ StillUnbooked \in Int /\ Unbooked(r) \in Int
    BY <1>3, <1>4
  <2>7. Surplus' = Surplus + ((mined + u) - (booked + Unbooked(r)))
    BY <2>1, <2>4, <2>5, <2>6
  <2> QED BY <2>7 DEF u
<1>6. RewardTypeOK'
  BY <1>1 DEF RewardTypeOK
<1>7. RewardInv'
  <2>1. ShareLogInv'
    BY DEF RewardInv, ShareLogInv, PruneCutoff
  <2>2. (\A g \in Handlers : HandlerOK(handler[g]))' /\ WindowComplete' /\ FairSplit'
    BY <1>1 DEF HandlerInv, WindowComplete, FairSplit
  <2> QED BY <2>1, <2>2 DEF RewardInv
<1> QED BY <1>5, <1>6, <1>7

\* Nothing but the handler changes.
LEMMA QuietStep ==
  ASSUME RewardTypeOK, RewardInv, NEW h \in Handlers, NEW r \in HandlerState, HandlerInv(r),
         SetHandler(h, r), Unbooked(r) <= Unbooked(handler[h]),
         UNCHANGED <<clock, shareLog, pruned, ledger, accounting, tip, accepted>>
  PROVE  /\ RewardTypeOK' /\ RewardInv'
         /\ Surplus' = Surplus + (Unbooked(handler[h]) - Unbooked(r))
<1>1. /\ ledger' \in Seq(PayoutLedgerEntity) /\ accounting' \in PoolAccountingEntity
      /\ tip' \in Nat /\ accepted' \subseteq [height : 1..tip', coinbasevalue : Nat]
      /\ IsFiniteSet(accepted')
  BY DEF RewardTypeOK, RewardInv
<1>2. Booked' = Booked + 0 /\ Mined' = Mined + 0
  <2>1. Booked' = Booked /\ Mined' = Mined
    BY DEF Booked, Mined
  <2> QED BY <2>1, BooksNat
<1>3. Unbooked(r) \in Nat /\ Unbooked(handler[h]) \in Nat
  BY StillUnbookedChanges DEF HandlerInv, HandlerOK
<1>4. 0 + Unbooked(r) <= 0 + Unbooked(handler[h])
  BY <1>3
<1>5. /\ RewardTypeOK' /\ RewardInv'
      /\ Surplus' = Surplus + ((0 + Unbooked(handler[h])) - (0 + Unbooked(r)))
  BY <1>1, <1>2, <1>4, HandlerStepKeeps
<1> QED BY <1>3, <1>5

\* A handler that finishes gives up what it had to book.
LEMMA FinishStep ==
  ASSUME RewardTypeOK, RewardInv, NEW h \in Handlers, Finish(h),
         UNCHANGED <<clock, shareLog, pruned, ledger, accounting, tip, accepted>>
  PROVE  /\ RewardTypeOK' /\ RewardInv'
         /\ Surplus' = Surplus + Unbooked(handler[h])
<1>1. Idle \in HandlerState /\ HandlerInv(Idle) /\ Idle.pc = "idle"
  BY IdleFacts DEF RewardTypeOK
<1>2. Unbooked(Idle) = 0
  BY <1>1, UnbookedZero DEF Announcing, Splitting
<1>3. SetHandler(h, Idle)
  BY DEF Finish
<1>4. Unbooked(handler[h]) \in Nat
  <2>1. handler[h] \in HandlerState /\ handler[h].dustSats >= 0
    BY DEF RewardTypeOK, RewardInv, HandlerOK
  <2> QED BY <2>1, UnbookedNat
<1> HIDE DEF Idle
<1>5. Unbooked(Idle) <= Unbooked(handler[h])
  BY <1>2, <1>4
<1>6. /\ RewardTypeOK' /\ RewardInv'
      /\ Surplus' = Surplus + (Unbooked(handler[h]) - Unbooked(Idle))
  BY <1>1, <1>3, <1>5, QuietStep
<1> QED BY <1>2, <1>4, <1>6

\* A handler moves on to pc, from a step and to a step before the split.
LEMMA GotoStep ==
  ASSUME RewardTypeOK, RewardInv, NEW h \in Handlers, NEW pc \in HandlerPc, Goto(h, pc),
         handler[h].pc \notin {"idle", "credit", "window"} \cup Splitting,
         pc \notin {"idle", "window"} \cup Splitting,
         (pc \in Announcing) <=> (handler[h].pc \in Announcing),
         UNCHANGED <<clock, shareLog, pruned, ledger, accounting, tip, accepted>>
  PROVE  RewardTypeOK' /\ RewardInv' /\ Surplus' = Surplus
<1> DEFINE o == handler[h]
           r == [o EXCEPT !.pc = pc]
<1>1. o \in HandlerState /\ HandlerOK(o)
  BY DEF RewardTypeOK, RewardInv
<1>2. SetHandler(h, r)
  BY DEF Goto
<1>3. /\ r \in HandlerState /\ r.pc = pc /\ r.since = o.since /\ r.difficulty = o.difficulty
      /\ r.share = o.share /\ r.counted = o.counted /\ r.todo = o.todo
      /\ r.dustSats = o.dustSats /\ r.coinbasevalue = o.coinbasevalue
  BY <1>1 DEF HandlerState
<1>4. o.dustSats >= 0 /\ o.todo = {}
  BY <1>1 DEF HandlerOK
<1> HIDE DEF o, r
<1>5. HandlerOK(r)
  BY <1>1, <1>3, <1>4 DEF HandlerOK, o
<1>6. HandlerInv(r)
  BY <1>3, <1>5, EarlyHandler
<1>7. Unbooked(r) = Unbooked(o)
  BY <1>3 DEF Unbooked, o
<1>8. Unbooked(r) \in Nat
  BY <1>3, <1>4, UnbookedNat
<1>9. /\ RewardTypeOK' /\ RewardInv'
      /\ Surplus' = Surplus + (Unbooked(handler[h]) - Unbooked(r))
  <2>1. Unbooked(r) <= Unbooked(handler[h])
    BY <1>7, <1>8 DEF o
  <2> QED BY <1>2, <1>3, <1>6, <2>1, QuietStep
<1>10. Surplus \in Int
  <2>1. StillUnbooked \in Nat
    BY <1>2, <1>3, <1>4, StillUnbookedChanges
  <2> QED BY <2>1, BooksNat DEF Surplus
<1> QED BY <1>7, <1>8, <1>9, <1>10 DEF o

\* What the handlers have yet to book is a natural.
LEMMA StillUnbookedNat ==
  ASSUME RewardTypeOK, RewardInv
  PROVE  StillUnbooked \in Nat
<1> DEFINE f == [g \in Handlers |-> Unbooked(handler[g])]
<1>1. \A g \in Handlers : f[g] \in Nat
  <2>1. TAKE g \in Handlers
  <2>2. handler[g] \in HandlerState /\ handler[g].dustSats >= 0
    BY DEF RewardTypeOK, RewardInv, HandlerOK
  <2> QED BY <2>2, UnbookedNat
<1>2. IsFiniteSet(Handlers)
  BY RewardAssumption
<1>3. SumOver(f, Handlers) \in Nat
  <2> HIDE DEF f
  <2> QED BY <1>1, <1>2, SumNat
<1> QED BY <1>3 DEF StillUnbooked

\* The surplus is an integer.
LEMMA SurplusInt ==
  ASSUME RewardTypeOK, RewardInv
  PROVE  Surplus \in Int
BY StillUnbookedNat, BooksNat DEF Surplus

\* A submission arrives.
LEMMA SubmitKeeps ==
  ASSUME RewardTypeOK, RewardInv, NEW h \in Handlers, NEW m \in Miners, NEW d \in Difficulties,
         NEW v \in CoinbaseValues, Submit(h, m, d, v)
  PROVE  RewardTypeOK' /\ RewardInv' /\ Surplus' = Surplus
<1> DEFINE r == [IdleHandler(m) EXCEPT !.pc = "respond", !.since = clock,
                   !.difficulty = d, !.height = tip + 1, !.coinbasevalue = v]
<1>1. d \in Nat /\ d > 0 /\ v \in Nat /\ clock \in Nat /\ tip \in Nat /\ MaxDelay \in Nat
      /\ Len(shareLog) \in Nat /\ v < Precision /\ 0 < Precision
  BY RewardAssumption DEF RewardTypeOK
<1>2. r \in HandlerState
  <2>1. IdleHandler(m) \in HandlerState
    BY <1>1 DEF IdleHandler, HandlerState, HandlerPc, NoSplit
  <2>2. "respond" \in HandlerPc /\ tip + 1 \in Nat
    BY <1>1 DEF HandlerPc
  <2> HIDE DEF IdleHandler
  <2> QED BY <1>1, <2>1, <2>2 DEF HandlerState
<1>3. /\ r.pc = "respond" /\ r.since = clock /\ r.difficulty = d /\ r.share = 0
      /\ r.counted = {} /\ r.todo = {} /\ r.dustSats = 0
  BY DEF IdleHandler
<1>4. SetHandler(h, r) /\ handler[h].pc = "idle"
      /\ UNCHANGED <<clock, shareLog, pruned, ledger, accounting, tip, accepted>>
  BY DEF Submit
<1> HIDE DEF r
<1>5. HandlerInv(r)
  <2>1. HandlerOK(r)
    BY <1>1, <1>3 DEF HandlerOK, Splitting
  <2> QED BY <1>3, <2>1, EarlyHandler DEF Splitting
<1>6. Unbooked(r) = 0 /\ Unbooked(handler[h]) = 0
  BY <1>3, <1>4, UnbookedZero DEF Announcing, Splitting
<1>7. Unbooked(r) <= Unbooked(handler[h])
  BY <1>6
<1>8. /\ RewardTypeOK' /\ RewardInv'
      /\ Surplus' = Surplus + (Unbooked(handler[h]) - Unbooked(r))
  BY <1>2, <1>4, <1>5, <1>7, QuietStep
<1> QED BY <1>6, <1>8, SurplusInt

\* A finishing handler that had nothing to book.
LEMMA FinishEarly ==
  ASSUME RewardTypeOK, RewardInv, NEW h \in Handlers, Finish(h),
         handler[h].pc \notin Announcing \cup Splitting,
         UNCHANGED <<clock, shareLog, pruned, ledger, accounting, tip, accepted>>
  PROVE  RewardTypeOK' /\ RewardInv' /\ Surplus' = Surplus
<1>1. Unbooked(handler[h]) = 0
  BY UnbookedZero
<1> QED BY <1>1, FinishStep, SurplusInt

\* One that had: its block's reward, or the rest of it, is never booked.
LEMMA FinishLate ==
  ASSUME RewardTypeOK, RewardInv, NEW h \in Handlers, Finish(h),
         UNCHANGED <<clock, shareLog, pruned, ledger, accounting, tip, accepted>>
  PROVE  RewardTypeOK' /\ RewardInv' /\ Surplus' >= Surplus
<1>1. handler[h] \in HandlerState /\ handler[h].dustSats >= 0
  BY DEF RewardTypeOK, RewardInv, HandlerOK
<1>2. Unbooked(handler[h]) \in Nat
  BY <1>1, UnbookedNat
<1> QED BY <1>2, FinishStep, SurplusInt

\* The share is acknowledged, or its socket is gone.
LEMMA RespondKeeps ==
  ASSUME RewardTypeOK, RewardInv, NEW h \in Handlers, NEW written \in BOOLEAN, Respond(h, written)
  PROVE  RewardTypeOK' /\ RewardInv' /\ Surplus' = Surplus
<1>1. /\ handler[h].pc = "respond"
      /\ UNCHANGED <<clock, shareLog, pruned, ledger, accounting, tip, accepted>>
  BY DEF Respond
<1>2. CASE Goto(h, "record")
  <2>1. /\ handler[h].pc \notin {"idle", "credit", "window"} \cup Splitting
        /\ "record" \notin {"idle", "window"} \cup Splitting /\ "record" \in HandlerPc
        /\ ("record" \in Announcing) <=> (handler[h].pc \in Announcing)
    BY <1>1 DEF Announcing, Splitting, HandlerPc
  <2> QED BY <1>1, <1>2, <2>1, GotoStep
<1>3. CASE Finish(h)
  <2>1. handler[h].pc \notin Announcing \cup Splitting
    BY <1>1 DEF Announcing, Splitting
  <2> QED BY <1>1, <1>3, <2>1, FinishEarly
<1> QED BY <1>2, <1>3 DEF Respond

\* What the handler of a share becomes, when the share solved the block and when not:
\* the row of the share may be the next one.
LEMMA AfterRecordFacts ==
  ASSUME RewardTypeOK, RewardInv, NEW h \in Handlers, NEW id \in Nat,
         handler[h].pc = "record", AfterRecord(h, id)
  PROVE  \E r \in HandlerState :
           /\ SetHandler(h, r)
           /\ \/ r = Idle /\ r.pc = "idle" /\ r.dustSats >= 0
              \/ /\ r.pc = "submitblock" /\ r.share = id /\ r.counted = {} /\ r.todo = {}
                 /\ r.dustSats >= 0 /\ r.since <= clock /\ clock <= r.since + MaxDelay
                 /\ r.difficulty > 0
<1>1. CASE Finish(h)
  <2>1. Idle \in HandlerState /\ Idle.pc = "idle" /\ HandlerInv(Idle)
    BY IdleFacts DEF RewardTypeOK
  <2>2. Idle.dustSats >= 0
    BY <2>1 DEF HandlerInv, HandlerOK
  <2> QED BY <1>1, <2>1, <2>2 DEF Finish
<1>2. CASE SetHandler(h, [handler[h] EXCEPT !.pc = "submitblock", !.share = id])
  <2> DEFINE r == [handler[h] EXCEPT !.pc = "submitblock", !.share = id]
  <2>1. handler[h] \in HandlerState /\ HandlerOK(handler[h])
    BY DEF RewardTypeOK, RewardInv
  <2>2. r \in HandlerState
    BY <2>1 DEF HandlerState, HandlerPc
  <2>3. /\ r.pc = "submitblock" /\ r.share = id /\ r.counted = handler[h].counted
        /\ r.todo = handler[h].todo /\ r.dustSats = handler[h].dustSats
        /\ r.since = handler[h].since /\ r.difficulty = handler[h].difficulty
    BY <2>1 DEF HandlerState
  <2> HIDE DEF r
  <2>4. /\ r.counted = {} /\ r.todo = {} /\ r.dustSats >= 0 /\ r.since <= clock
        /\ clock <= r.since + MaxDelay /\ r.difficulty > 0
    BY <2>1, <2>3 DEF HandlerOK, Splitting
  <2> QED BY <1>2, <2>2, <2>3, <2>4 DEF r
<1> QED BY <1>1, <1>2 DEF AfterRecord

\* The share is logged.
LEMMA recordKeeps ==
  ASSUME RewardTypeOK, RewardInv, NEW h \in Handlers, record(h)
  PROVE  RewardTypeOK' /\ RewardInv' /\ Surplus' = Surplus
<1> DEFINE e == [minerAddress |-> handler[h].minerAddress,
                 difficulty |-> handler[h].difficulty, timestamp |-> clock]
           n == Len(shareLog)
<1>1. /\ handler[h].pc = "record" /\ shareLog' = Append(shareLog, e) /\ AfterRecord(h, n + 1)
      /\ UNCHANGED <<clock, pruned, ledger, accounting, tip, accepted>>
  BY DEF record
<1>2. /\ handler[h] \in HandlerState /\ HandlerOK(handler[h]) /\ n \in Nat /\ clock \in Nat
      /\ shareLog \in Seq(PplnsShareEntity)
  BY DEF RewardTypeOK, RewardInv
<1>3. e \in PplnsShareEntity /\ e.difficulty > 0 /\ e.timestamp = clock
  BY <1>1, <1>2 DEF HandlerState, HandlerOK, PplnsShareEntity
<1> HIDE DEF e
<1>4. /\ shareLog' \in Seq(PplnsShareEntity) /\ pruned' \subseteq 1..Len(shareLog')
      /\ ShareLogInv'
      /\ \A r \in HandlerState : HandlerInv(r) => HandlerInv(r)'
  BY <1>1, <1>3, ShareLogged
<1>5. n + 1 \in Nat /\ Len(shareLog') = n + 1
  BY <1>1, <1>2, <1>3
<1>6. PICK r \in HandlerState :
        /\ SetHandler(h, r)
        /\ \/ r = Idle /\ r.pc = "idle" /\ r.dustSats >= 0
           \/ /\ r.pc = "submitblock" /\ r.share = n + 1 /\ r.counted = {} /\ r.todo = {}
              /\ r.dustSats >= 0 /\ r.since <= clock /\ clock <= r.since + MaxDelay
              /\ r.difficulty > 0
  <2> DEFINE id == n + 1
  <2>1. id \in Nat /\ handler[h].pc = "record" /\ AfterRecord(h, id)
    BY <1>1, <1>5
  <2> HIDE DEF id
  <2>2. \E r \in HandlerState :
           /\ SetHandler(h, r)
           /\ \/ r = Idle /\ r.pc = "idle" /\ r.dustSats >= 0
              \/ /\ r.pc = "submitblock" /\ r.share = id /\ r.counted = {} /\ r.todo = {}
                 /\ r.dustSats >= 0 /\ r.since <= clock /\ clock <= r.since + MaxDelay
                 /\ r.difficulty > 0
    BY <2>1, AfterRecordFacts
  <2> QED BY <2>2 DEF id
<1> HIDE DEF n
<1>7. HandlerInv(r)'
  <2>1. CASE r.pc = "idle"
    <3>1. r = Idle /\ HandlerInv(Idle)
      BY <1>2, <1>6, <2>1, IdleFacts
    <3> QED BY <1>4, <3>1
  <2>2. CASE r.pc = "submitblock"
    <3>1. /\ r.pc = "submitblock" /\ r.share = n + 1 /\ r.counted = {} /\ r.todo = {}
          /\ r.dustSats >= 0 /\ r.since <= clock /\ clock <= r.since + MaxDelay
          /\ r.difficulty > 0
      BY <1>6, <2>2
    <3>2. HandlerOK(r)'
      <4>1. clock' = clock
        BY <1>1
      <4>2. r.share <= Len(shareLog')
        BY <1>5, <3>1
      <4> QED BY <3>1, <4>1, <4>2 DEF HandlerOK, Splitting
    <3>3. WindowRead(r)' /\ SplitFairly(r)'
      BY <3>1 DEF WindowRead, SplitFairly, Splitting
    <3> QED BY <3>2, <3>3 DEF HandlerInv
  <2> QED BY <1>6, <2>1, <2>2
<1>8. \A g \in Handlers : handler'[g] = IF g = h THEN r ELSE handler[g]
  BY <1>6 DEF SetHandler, RewardTypeOK
<1>9. handler' \in [Handlers -> HandlerState]
  BY <1>6 DEF SetHandler, RewardTypeOK
<1>10. (\A g \in Handlers : HandlerInv(handler[g]))'
  <2> SUFFICES ASSUME NEW g \in Handlers PROVE HandlerInv(handler[g])'
    OBVIOUS
  <2>1. CASE g = h
    <3>1. handler'[g] = r
      BY <1>8, <2>1
    <3> QED BY <1>7, <3>1 DEF HandlerInv, HandlerOK, WindowRead, SplitFairly, TotalDifficulty
  <2>2. CASE g # h
    <3> DEFINE q == handler[g]
    <3>1. handler'[g] = q
      BY <1>8, <2>2
    <3>2. q \in HandlerState /\ HandlerInv(q)
      BY DEF RewardTypeOK, RewardInv, HandlerInv, WindowComplete, FairSplit
    <3>3. PICK x \in HandlerState : x = q /\ HandlerInv(x)
      BY <3>2
    <3>4. HandlerInv(x)'
      BY <1>4, <3>3
    <3>5. handler'[g] = x
      BY <3>1, <3>3
    <3> QED BY <3>4, <3>5 DEF HandlerInv, HandlerOK, WindowRead, SplitFairly, TotalDifficulty
  <2> QED BY <2>1, <2>2
<1>11. Unbooked(r) = 0 /\ Unbooked(handler[h]) = 0
  BY <1>1, <1>6, UnbookedZero DEF Announcing, Splitting
<1>12. StillUnbooked' = StillUnbooked /\ StillUnbooked \in Nat
  <2>1. r.dustSats >= 0
    BY <1>6
  <2>2. /\ StillUnbooked \in Nat
        /\ StillUnbooked' = StillUnbooked - Unbooked(handler[h]) + Unbooked(r)
    BY <1>6, <2>1, StillUnbookedChanges
  <2> QED BY <1>11, <2>2
<1>13. Booked' = Booked /\ Mined' = Mined
  BY <1>1 DEF Booked, Mined
<1>14. Surplus' = Surplus
  BY <1>12, <1>13 DEF Surplus
<1>15. RewardTypeOK'
  BY <1>1, <1>4, <1>9 DEF RewardTypeOK
<1>16. RewardInv'
  <2>1. (\A g \in Handlers : HandlerOK(handler[g]))' /\ WindowComplete' /\ FairSplit'
    BY <1>10 DEF HandlerInv, WindowComplete, FairSplit
  <2>2. IsFiniteSet(accepted')
    BY <1>1 DEF RewardInv
  <2> QED BY <1>4, <2>1, <2>2 DEF RewardInv
<1> QED BY <1>14, <1>15, <1>16

\* Its INSERT throws.
LEMMA RecordFailsKeeps ==
  ASSUME RewardTypeOK, RewardInv, NEW h \in Handlers, RecordFails(h)
  PROVE  RewardTypeOK' /\ RewardInv' /\ Surplus' = Surplus
<1>1. /\ handler[h].pc = "record" /\ AfterRecord(h, 0)
      /\ UNCHANGED <<clock, shareLog, pruned, ledger, accounting, tip, accepted>>
  BY DEF RecordFails
<1>2. Len(shareLog) \in Nat /\ shareLog \in Seq(PplnsShareEntity)
  BY DEF RewardTypeOK
<1>3. PICK r \in HandlerState :
        /\ SetHandler(h, r)
        /\ \/ r = Idle /\ r.pc = "idle" /\ r.dustSats >= 0
           \/ /\ r.pc = "submitblock" /\ r.share = 0 /\ r.counted = {} /\ r.todo = {}
              /\ r.dustSats >= 0 /\ r.since <= clock /\ clock <= r.since + MaxDelay
              /\ r.difficulty > 0
  BY <1>1, AfterRecordFacts
<1>4. HandlerInv(r)
  <2>1. CASE r.pc = "idle"
    BY <1>2, <1>3, <2>1, IdleFacts
  <2>2. CASE r.pc = "submitblock"
    <3>1. /\ r.pc = "submitblock" /\ r.share = 0 /\ r.counted = {} /\ r.todo = {}
          /\ r.dustSats >= 0 /\ r.since <= clock /\ clock <= r.since + MaxDelay
          /\ r.difficulty > 0
      BY <1>3, <2>2
    <3>2. HandlerOK(r)
      BY <1>2, <3>1 DEF HandlerOK, Splitting
    <3> QED BY <3>1, <3>2, EarlyHandler DEF Splitting
  <2> QED BY <1>3, <2>1, <2>2
<1>5. Unbooked(r) = 0 /\ Unbooked(handler[h]) = 0
  BY <1>1, <1>3, UnbookedZero DEF Announcing, Splitting
<1>6. Unbooked(r) <= Unbooked(handler[h])
  BY <1>5
<1>7. /\ RewardTypeOK' /\ RewardInv'
      /\ Surplus' = Surplus + (Unbooked(handler[h]) - Unbooked(r))
  BY <1>1, <1>3, <1>4, <1>6, QuietStep
<1> QED BY <1>5, <1>7, SurplusInt

\* A block of this pool on top of the tip: what was mined grows by its coinbase.
LEMMA AcceptedGrows ==
  ASSUME RewardTypeOK, RewardInv, NEW h \in Handlers, NodeAccepts(h)
  PROVE  /\ tip' \in Nat /\ accepted' \subseteq [height : 1..tip', coinbasevalue : Nat]
         /\ IsFiniteSet(accepted')
         /\ Mined' = Mined + handler[h].coinbasevalue /\ handler[h].coinbasevalue \in Nat
<1> DEFINE v == handler[h].coinbasevalue
           b == [height |-> tip + 1, coinbasevalue |-> v]
           f == [x \in accepted |-> x.coinbasevalue]
           ff == [x \in accepted' |-> x.coinbasevalue]
<1>1. tip \in Nat /\ v \in Nat /\ accepted \subseteq [height : 1..tip, coinbasevalue : Nat]
  BY DEF RewardTypeOK, HandlerState
<1>2. tip' = tip + 1 /\ accepted' = accepted \cup {b}
  BY DEF NodeAccepts
<1>3. IsFiniteSet(accepted)
  BY DEF RewardInv
<1>4. IsFiniteSet(accepted')
  BY <1>2, <1>3, FS_AddElement
<1>5. b \notin accepted /\ b \in [height : 1..(tip + 1), coinbasevalue : Nat]
      /\ b.coinbasevalue = v
  BY <1>1
<1>6. accepted' \subseteq [height : 1..tip', coinbasevalue : Nat]
  BY <1>1, <1>2, <1>5
<1>7. ff[b] = v /\ \A x \in accepted : f[x] \in Int /\ ff[x] \in Int /\ f[x] = ff[x]
  BY <1>1, <1>2, <1>5
<1>8. Mined = SumOver(f, accepted) /\ Mined' = SumOver(ff, accepted')
  BY DEF Mined
<1> HIDE DEF f, ff, b, v
<1>9. SumOver(ff, accepted \cup {b}) = ff[b] + SumOver(ff, accepted)
  <2>1. \A x \in accepted \cup {b} : ff[x] \in Int
    BY <1>1, <1>7
  <2> QED BY <1>3, <1>5, <2>1, SumAdd
<1>10. SumOver(f, accepted) = SumOver(ff, accepted)
  BY <1>3, <1>7, SumAgree
<1>11. Mined' = Mined + v
  <2>1. Mined \in Nat
    BY BooksNat
  <2>2. Mined' = v + Mined
    BY <1>2, <1>7, <1>8, <1>9, <1>10
  <2> QED BY <1>1, <2>1, <2>2
<1> QED BY <1>1, <1>2, <1>4, <1>6, <1>11 DEF v

\* The node accepts the block: its handler has its reward to book.
LEMMA SUBMIT_BLOCKKeeps ==
  ASSUME RewardTypeOK, RewardInv, NEW h \in Handlers, SUBMIT_BLOCK(h)
  PROVE  RewardTypeOK' /\ RewardInv' /\ Surplus' = Surplus
<1> DEFINE o == handler[h]
           r == [o EXCEPT !.pc = "save"]
<1>1. /\ o.pc = "submitblock" /\ NodeAccepts(h) /\ SetHandler(h, r)
      /\ UNCHANGED <<clock, shareLog, pruned, ledger, accounting>>
  BY DEF SUBMIT_BLOCK, Goto
<1>2. o \in HandlerState /\ HandlerOK(o)
  BY DEF RewardTypeOK, RewardInv
<1>3. /\ r \in HandlerState /\ r.pc = "save" /\ r.since = o.since /\ r.difficulty = o.difficulty
      /\ r.share = o.share /\ r.counted = o.counted /\ r.todo = o.todo
      /\ r.dustSats = o.dustSats /\ r.coinbasevalue = o.coinbasevalue
  BY <1>2 DEF HandlerState, HandlerPc
<1>4. /\ tip' \in Nat /\ accepted' \subseteq [height : 1..tip', coinbasevalue : Nat]
      /\ IsFiniteSet(accepted')
      /\ Mined' = Mined + o.coinbasevalue /\ o.coinbasevalue \in Nat
  BY <1>1, AcceptedGrows
<1>5. Booked' = Booked + 0
  <2>1. Booked' = Booked
    BY <1>1 DEF Booked
  <2> QED BY <2>1, BooksNat
<1> HIDE DEF o, r
<1>6. HandlerInv(r)
  <2>1. HandlerOK(r)
    BY <1>1, <1>2, <1>3 DEF HandlerOK, Splitting
  <2> QED BY <1>3, <2>1, EarlyHandler DEF Splitting
<1>7. Unbooked(r) = o.coinbasevalue /\ Unbooked(o) = 0
  BY <1>1, <1>3, UnbookedZero DEF Unbooked, Announcing, Splitting
<1>8. ledger' \in Seq(PayoutLedgerEntity) /\ accounting' \in PoolAccountingEntity
  BY <1>1 DEF RewardTypeOK
<1>9. /\ RewardTypeOK' /\ RewardInv'
      /\ Surplus' = Surplus + ((o.coinbasevalue + Unbooked(handler[h])) - (0 + Unbooked(r)))
  <2>1. o.coinbasevalue \in Int /\ 0 \in Int /\ UNCHANGED <<clock, shareLog, pruned>>
    BY <1>1, <1>4
  <2>2. 0 + Unbooked(r) <= o.coinbasevalue + Unbooked(handler[h])
    BY <1>4, <1>7 DEF o
  <2> QED BY <1>1, <1>3, <1>4, <1>5, <1>6, <1>8, <2>1, <2>2, HandlerStepKeeps
<1> QED BY <1>4, <1>7, <1>9, SurplusInt DEF o

\* The node's answer is lost: the block is mined and never booked.
LEMMA SubmitReplyLostKeeps ==
  ASSUME RewardTypeOK, RewardInv, NEW h \in Handlers, SubmitReplyLost(h)
  PROVE  RewardTypeOK' /\ RewardInv' /\ Surplus' >= Surplus
<1> DEFINE v == handler[h].coinbasevalue
<1>1. /\ handler[h].pc = "submitblock" /\ NodeAccepts(h) /\ SetHandler(h, Idle)
      /\ UNCHANGED <<clock, shareLog, pruned, ledger, accounting>>
  BY DEF SubmitReplyLost, Finish
<1>2. Idle \in HandlerState /\ HandlerInv(Idle) /\ Idle.pc = "idle"
  BY IdleFacts DEF RewardTypeOK
<1>3. /\ tip' \in Nat /\ accepted' \subseteq [height : 1..tip', coinbasevalue : Nat]
      /\ IsFiniteSet(accepted') /\ Mined' = Mined + v /\ v \in Nat
  BY <1>1, AcceptedGrows
<1>4. Booked' = Booked + 0
  <2>1. Booked' = Booked
    BY <1>1 DEF Booked
  <2> QED BY <2>1, BooksNat
<1> HIDE DEF v, Idle
<1>5. Unbooked(Idle) = 0 /\ Unbooked(handler[h]) = 0
  BY <1>1, <1>2, UnbookedZero DEF Announcing, Splitting
<1>6. ledger' \in Seq(PayoutLedgerEntity) /\ accounting' \in PoolAccountingEntity
  BY <1>1 DEF RewardTypeOK
<1>7. v \in Int /\ 0 \in Int /\ UNCHANGED <<clock, shareLog, pruned>>
  BY <1>1, <1>3
<1>8. 0 + Unbooked(Idle) <= v + Unbooked(handler[h])
  BY <1>3, <1>5
<1>9. /\ RewardTypeOK' /\ RewardInv'
      /\ Surplus' = Surplus + ((v + Unbooked(handler[h])) - (0 + Unbooked(Idle)))
  BY <1>1, <1>2, <1>3, <1>4, <1>6, <1>7, <1>8, HandlerStepKeeps
<1> QED BY <1>3, <1>5, <1>9, SurplusInt

\* The block is saved, announced and the best difficulties are reset.
LEMMA AnnounceKeeps ==
  ASSUME RewardTypeOK, RewardInv, NEW h \in Handlers, Announce(h)
  PROVE  RewardTypeOK' /\ RewardInv' /\ Surplus' = Surplus
<1>1. PICK pc \in {"notify", "reset", "report"} : Goto(h, pc)
  BY DEF Announce
<1>2. handler[h].pc \in {"save", "notify", "reset"}
      /\ UNCHANGED <<clock, shareLog, pruned, ledger, accounting, tip, accepted>>
  BY DEF Announce
<1>3. /\ handler[h].pc \notin {"idle", "credit", "window"} \cup Splitting
      /\ pc \notin {"idle", "window"} \cup Splitting /\ pc \in HandlerPc
      /\ (pc \in Announcing) <=> (handler[h].pc \in Announcing)
  BY <1>2 DEF Announcing, Splitting, HandlerPc
<1> QED BY <1>1, <1>2, <1>3, GotoStep

\* The start of the window is computed.
LEMMA ReportBlockFoundKeeps ==
  ASSUME RewardTypeOK, RewardInv, NEW h \in Handlers, ReportBlockFound(h)
  PROVE  RewardTypeOK' /\ RewardInv' /\ Surplus' = Surplus
<1> DEFINE o == handler[h]
           r == [o EXCEPT !.pc = "window", !.windowStart = WindowStart]
<1>1. /\ o.pc = "report" /\ SetHandler(h, r)
      /\ UNCHANGED <<clock, shareLog, pruned, ledger, accounting, tip, accepted>>
  BY DEF ReportBlockFound
<1>2. o \in HandlerState /\ HandlerOK(o)
  BY DEF RewardTypeOK, RewardInv
<1>3. clock \in Nat /\ Window \in Nat /\ WindowStart = clock - Window /\ WindowStart \in Int
  BY RewardAssumption DEF RewardTypeOK, WindowStart
<1> HIDE DEF WindowStart
<1>4. /\ r \in HandlerState /\ r.pc = "window" /\ r.windowStart = WindowStart
      /\ r.since = o.since /\ r.difficulty = o.difficulty
      /\ r.share = o.share /\ r.counted = o.counted /\ r.todo = o.todo
      /\ r.dustSats = o.dustSats /\ r.coinbasevalue = o.coinbasevalue
  BY <1>2, <1>3 DEF HandlerState, HandlerPc
<1>5. o.since \in Nat /\ o.coinbasevalue \in Nat
  BY <1>2 DEF HandlerState
<1> HIDE DEF o, r
<1>6. HandlerInv(r)
  <2>1. r.windowStart >= r.since - Window /\ r.windowStart <= clock - Window
    BY <1>1, <1>2, <1>3, <1>4, <1>5 DEF HandlerOK
  <2>2. HandlerOK(r)
    BY <1>1, <1>2, <1>4, <2>1 DEF HandlerOK, Splitting
  <2> QED BY <1>4, <2>2, EarlyHandler DEF Splitting
<1>7. Unbooked(r) = o.coinbasevalue /\ Unbooked(o) = o.coinbasevalue
  BY <1>1, <1>4 DEF Unbooked, Announcing, Splitting
<1>8. Unbooked(r) <= Unbooked(handler[h])
  BY <1>5, <1>7 DEF o
<1>9. /\ RewardTypeOK' /\ RewardInv'
      /\ Surplus' = Surplus + (Unbooked(handler[h]) - Unbooked(r))
  BY <1>1, <1>4, <1>6, <1>8, QuietStep
<1> QED BY <1>5, <1>7, <1>9, SurplusInt DEF o

-----------------------------------------------------------------------------
(* processBlockFound.                                                      *)

\* Every share since the start of the window is read: what was pruned is older, the
\* handler being at most MaxDelay behind the pruning timer.
LEMMA WindowIsWhole ==
  ASSUME RewardTypeOK, RewardInv, NEW h \in Handlers, handler[h].pc = "window"
  PROVE  LET S == getSharesInWindow(handler[h].windowStart)
         IN  /\ S \in SUBSET (1..Len(shareLog))
             /\ \A i \in 1..Len(shareLog) :
                  shareLog[i].timestamp >= handler[h].windowStart => i \in S
<1> DEFINE o == handler[h]
           S == getSharesInWindow(o.windowStart)
<1>1. S \in SUBSET (1..Len(shareLog))
  BY DEF getSharesInWindow
<1>2. o \in HandlerState /\ HandlerOK(o) /\ ShareLogInv
  BY DEF RewardTypeOK, RewardInv
<1>3. o.windowStart \in Int /\ o.since \in Nat /\ clock \in Nat
  BY <1>2 DEF HandlerState, RewardTypeOK
<1>4. /\ Window \in Nat /\ PruneMargin \in Nat /\ MaxDelay \in Nat /\ MaxDelay <= PruneMargin
  BY RewardAssumption
<1>5. clock <= o.since + MaxDelay /\ o.windowStart >= o.since - Window
  BY <1>2 DEF HandlerOK
<1>6. PruneCutoff <= o.windowStart /\ PruneCutoff \in Int
  <2> HIDE DEF o
  <2> QED BY <1>3, <1>4, <1>5 DEF PruneCutoff
<1>7. ASSUME NEW i \in 1..Len(shareLog), shareLog[i].timestamp >= o.windowStart
      PROVE  i \in S
  <2>0. shareLog[i] \in PplnsShareEntity
    BY DEF RewardTypeOK
  <2>1. shareLog[i].timestamp \in Nat
    BY <2>0 DEF PplnsShareEntity
  <2>2. ~(shareLog[i].timestamp < PruneCutoff)
    <3> HIDE DEF o
    <3> QED BY <1>3, <1>6, <1>7, <2>1
  <2>3. i \notin pruned
    BY <1>2, <2>2 DEF ShareLogInv
  <2> QED BY <1>7, <2>3 DEF getSharesInWindow
<1> QED BY <1>1, <1>7

\* A window without weight is empty.
LEMMA WeightlessIsEmpty ==
  ASSUME RewardTypeOK, RewardInv, NEW S \in SUBSET (1..Len(shareLog)), TotalDifficulty(S) <= 0
  PROVE  S = {}
<1> SUFFICES ASSUME NEW x \in S PROVE FALSE
  OBVIOUS
<1> DEFINE d == [i \in DOMAIN shareLog |-> shareLog[i].difficulty]
<1>1. shareLog \in Seq(PplnsShareEntity) /\ ShareLogInv
  BY DEF RewardTypeOK, RewardInv
<1>2. IsFiniteSet(S) /\ IsFiniteSet(S \ {x})
  BY <1>1, SharesFinite, FS_RemoveElement
<1>3. \A i \in S : i \in DOMAIN shareLog /\ shareLog[i] \in PplnsShareEntity
  BY <1>1
<1>4. \A i \in S : d[i] \in Nat /\ d[i] > 0
  BY <1>1, <1>3 DEF PplnsShareEntity, ShareLogInv
<1>5. TotalDifficulty(S) = SumOver(d, S)
  BY DEF TotalDifficulty
<1> HIDE DEF d
<1>6. SumOver(d, S) = d[x] + SumOver(d, S \ {x})
  <2>1. \A i \in S : d[i] \in Int
    BY <1>4
  <2> QED BY <1>2, <2>1, SumRemove
<1>7. SumOver(d, S \ {x}) \in Nat
  <2>1. \A i \in S \ {x} : d[i] \in Nat
    BY <1>4
  <2> QED BY <1>2, <2>1, SumNat
<1> QED BY <1>4, <1>5, <1>6, <1>7

\* Nobody to credit: the whole reward goes to the pool.
LEMMA EmptyWindowKeeps ==
  ASSUME RewardTypeOK, RewardInv, NEW h \in Handlers, EmptyWindow(h)
  PROVE  RewardTypeOK' /\ RewardInv' /\ Surplus' = Surplus
<1> DEFINE o == handler[h]
           r == [o EXCEPT !.pc = "insertRow", !.feeSats = 0, !.dustSats = o.coinbasevalue]
           S == getSharesInWindow(o.windowStart)
<1>1. /\ o.pc = "window" /\ TotalDifficulty(S) <= 0 /\ SetHandler(h, r)
      /\ UNCHANGED <<clock, shareLog, pruned, ledger, accounting, tip, accepted>>
  BY DEF EmptyWindow
<1>2. o \in HandlerState /\ HandlerOK(o)
  BY DEF RewardTypeOK, RewardInv
<1>3. /\ r \in HandlerState /\ r.pc = "insertRow" /\ r.windowStart = o.windowStart
      /\ r.since = o.since /\ r.difficulty = o.difficulty
      /\ r.share = o.share /\ r.counted = o.counted /\ r.todo = o.todo
      /\ r.dustSats = o.coinbasevalue /\ r.feeSats = 0
  <2>1. o.coinbasevalue \in Int /\ 0 \in Nat /\ "insertRow" \in HandlerPc
    BY <1>2 DEF HandlerState, HandlerPc
  <2>2. r \in HandlerState
    <3> HIDE DEF o
    <3> QED BY <1>2, <2>1 DEF HandlerState
  <2> QED BY <1>2, <2>2 DEF HandlerState
<1>4. o.windowStart \in Int /\ o.coinbasevalue \in Nat /\ o.share \in Nat /\ Window \in Nat
      /\ Len(shareLog) \in Nat
  BY <1>2, RewardAssumption DEF HandlerState, RewardTypeOK
<1>5. \A i \in 1..Len(shareLog) : ~(shareLog[i].timestamp >= o.windowStart)
  <2>1. S = {}
    BY <1>1, WindowIsWhole, WeightlessIsEmpty
  <2> QED BY <1>1, <2>1, WindowIsWhole
<1> HIDE DEF o, r, S
<1>6. HandlerOK(r)
  BY <1>1, <1>2, <1>3, <1>4 DEF HandlerOK, Splitting
<1>7. r.counted = {} /\ r.todo = {}
  BY <1>1, <1>2, <1>3 DEF HandlerOK, Splitting
<1>8. WindowRead(r)
  <2>1. \A i \in 1..Len(shareLog) :
          shareLog[i].timestamp \notin r.windowStart..(r.windowStart + Window - 1)
    BY <1>3, <1>4, <1>5
  <2>2. r.share # 0 => r.share \in 1..Len(shareLog)
    BY <1>3, <1>4, <1>6 DEF HandlerOK
  <2> QED BY <1>3, <1>5, <2>1, <2>2 DEF WindowRead
<1>9. HandlerInv(r)
  BY <1>6, <1>7, <1>8 DEF HandlerInv, SplitFairly
<1>10. Unbooked(r) = o.coinbasevalue /\ Unbooked(o) = o.coinbasevalue
  <2>1. SumOver(r.perMinerTotals, r.todo) = 0
    BY <1>7, SumEmpty
  <2>2. Unbooked(r) = 0 + o.coinbasevalue + 0
    BY <1>3, <2>1 DEF Unbooked, Announcing, Splitting
  <2>3. Unbooked(o) = o.coinbasevalue
    BY <1>1 DEF Unbooked, Announcing, Splitting
  <2> QED BY <1>4, <2>2, <2>3
<1>11. Unbooked(r) <= Unbooked(handler[h])
  BY <1>4, <1>10 DEF o
<1>12. /\ RewardTypeOK' /\ RewardInv'
       /\ Surplus' = Surplus + (Unbooked(handler[h]) - Unbooked(r))
  BY <1>1, <1>3, <1>9, <1>11, QuietStep
<1> QED BY <1>4, <1>10, <1>12, SurplusInt DEF o

\* The credits to come are the sum over the miners who earned something.
LEMMA PaidIsAll ==
  ASSUME NEW totals \in [Miners -> Nat]
  PROVE  SumOver(totals, {m \in Miners : totals[m] > 0}) = CreditedTotal(totals)
<1> DEFINE P == {m \in Miners : totals[m] > 0}
<1>1. IsFiniteSet(Miners) /\ P \in SUBSET Miners
  BY RewardAssumption
<1>2. IsFiniteSet(P) /\ IsFiniteSet(Miners \ P)
  BY <1>1, FS_Subset, FS_Difference
<1>3. \A m \in Miners \ P : totals[m] = 0
  OBVIOUS
<1>4. \A m \in Miners : totals[m] \in Int
  OBVIOUS
<1> HIDE DEF P
<1>5. SumOver(totals, Miners \ P) = 0
  BY <1>2, <1>3, SumZero
<1>6. SumOver(totals, Miners) = SumOver(totals, P) + SumOver(totals, Miners \ P)
  BY <1>1, <1>4, SumSplit
<1>7. SumOver(totals, P) \in Nat
  <2>1. \A m \in P : totals[m] \in Nat
    BY <1>1
  <2> QED BY <1>2, <2>1, SumNat
<1> QED BY <1>5, <1>6, <1>7 DEF CreditedTotal, P

\* The window is split: the amounts, the fee and the dust add up to the coinbase.
LEMMA SplitKeeps ==
  ASSUME RewardTypeOK, RewardInv, NEW h \in Handlers, Split(h)
  PROVE  RewardTypeOK' /\ RewardInv' /\ Surplus' = Surplus
<1> DEFINE o == handler[h]
           S == getSharesInWindow(o.windowStart)
           T(amount) == PerMinerTotals(S, amount)
           P(amount) == {m \in Miners : T(amount)[m] > 0}
           R(dist, amount) ==
             [o EXCEPT !.pc = IF P(amount) = {} THEN "insertRow" ELSE "credit",
                       !.counted = S, !.perMinerTotals = T(amount), !.todo = P(amount),
                       !.feeSats = o.coinbasevalue - dist,
                       !.dustSats = dist - CreditedTotal(T(amount))]
<1>1. /\ o.pc = "window" /\ TotalDifficulty(S) > 0
      /\ UNCHANGED <<clock, shareLog, pruned, ledger, accounting, tip, accepted>>
  BY DEF Split
<1>2. PICK dist \in Distributable(o.coinbasevalue) :
        \E amount \in ShareAmounts(S, dist) : SetHandler(h, R(dist, amount))
  BY DEF Split
<1>3. PICK amount \in ShareAmounts(S, dist) : SetHandler(h, R(dist, amount))
  BY <1>2
<1> DEFINE totals == T(amount)
           paid == P(amount)
           r == R(dist, amount)
           fee == o.coinbasevalue - dist
           dust == dist - CreditedTotal(totals)
           Own(m) == {i \in S : shareLog[i].minerAddress = m}
<1>4. o \in HandlerState /\ HandlerOK(o) /\ shareLog \in Seq(PplnsShareEntity)
  BY DEF RewardTypeOK, RewardInv
<1>5. /\ o.coinbasevalue \in Nat /\ o.windowStart \in Int /\ o.share \in Nat
      /\ Len(shareLog) \in Nat /\ Window \in Nat
      /\ o.coinbasevalue < Precision /\ Precision \in Nat
  BY <1>4, RewardAssumption DEF HandlerState
<1>6. dist \in Nat /\ fee \in Nat /\ dist < Precision
  <2>1. dist \in Nat /\ dist <= o.coinbasevalue
    BY <1>2, <1>5, DistributableBounds
  <2> QED BY <1>5, <2>1
<1>7. /\ S \in SUBSET (1..Len(shareLog))
      /\ \A i \in 1..Len(shareLog) : shareLog[i].timestamp >= o.windowStart => i \in S
  BY <1>1, WindowIsWhole
<1>8. /\ totals \in [Miners -> Nat] /\ CreditedTotal(totals) \in Nat
      /\ dust \in 0..Cardinality(S)
      /\ \A m \in Miners :
           /\ totals[m] * TotalDifficulty(S)
                < dist * TotalDifficulty(Own(m)) + TotalDifficulty(S)
           /\ (totals[m] + Cardinality(Own(m)) + 1) * TotalDifficulty(S)
                > dist * TotalDifficulty(Own(m))
  <2> HIDE DEF S
  <2> QED BY <1>1, <1>3, <1>4, <1>6, <1>7, SplitBounds
<1>9. dust \in Nat /\ dust \in Int
  BY <1>8
<1>10. paid \in SUBSET Miners /\ SumOver(totals, paid) = CreditedTotal(totals)
  <2> HIDE DEF totals
  <2> QED BY <1>8, PaidIsAll DEF totals
<1>11. /\ r \in HandlerState /\ r.pc \in {"insertRow", "credit"}
       /\ r.pc # "credit" => r.todo = {}
       /\ r.counted = S /\ r.perMinerTotals = totals /\ r.todo = paid
       /\ r.feeSats = fee /\ r.dustSats = dust /\ r.coinbasevalue = o.coinbasevalue
       /\ r.since = o.since /\ r.difficulty = o.difficulty /\ r.share = o.share
       /\ r.windowStart = o.windowStart
  <2> DEFINE pc == IF paid = {} THEN "insertRow" ELSE "credit"
             q == [o EXCEPT !.pc = pc, !.counted = S, !.perMinerTotals = totals,
                            !.todo = paid, !.feeSats = fee, !.dustSats = dust]
  <2>1. r = q
    OBVIOUS
  <2>2. S \in SUBSET Nat
    BY <1>5, <1>7
  <2>3. pc \in {"insertRow", "credit"} /\ pc \in HandlerPc /\ (pc # "credit" => paid = {})
    BY DEF HandlerPc
  <2> HIDE DEF pc, paid, S, totals, fee, dust, o, r
  <2>4. q \in HandlerState
    BY <1>4, <1>6, <1>8, <1>9, <1>10, <2>2, <2>3 DEF HandlerState
  <2>5. /\ q.pc = pc /\ q.counted = S /\ q.perMinerTotals = totals /\ q.todo = paid
        /\ q.feeSats = fee /\ q.dustSats = dust /\ q.coinbasevalue = o.coinbasevalue
        /\ q.since = o.since /\ q.difficulty = o.difficulty /\ q.share = o.share
        /\ q.windowStart = o.windowStart
    BY <1>4 DEF HandlerState
  <2> QED BY <2>1, <2>3, <2>4, <2>5
<1>12. SetHandler(h, r)
  BY <1>3
<1>13. fee = o.coinbasevalue - dist /\ dust = dist - CreditedTotal(totals)
  OBVIOUS
<1> HIDE DEF r, paid, totals, fee, dust, R, T, P, o, S
<1>14. HandlerOK(r)
  <2>1. r.counted \subseteq 1..Len(shareLog)
    BY <1>7, <1>11
  <2> QED BY <1>1, <1>4, <1>9, <1>11, <2>1 DEF HandlerOK, Splitting
<1>15. WindowRead(r)
  <2>1. \A i \in 1..Len(shareLog) :
          shareLog[i].timestamp \in r.windowStart..(r.windowStart + Window - 1) => i \in r.counted
    BY <1>5, <1>7, <1>11
  <2>2. r.share # 0 => r.share \in 1..Len(shareLog)
    BY <1>5, <1>11, <1>14 DEF HandlerOK
  <2> QED BY <1>7, <1>11, <2>1, <2>2 DEF WindowRead
<1>16. SplitFairly(r)
  <2>1. r.coinbasevalue - r.feeSats = dist
    BY <1>5, <1>6, <1>11, <1>13
  <2> QED BY <1>8, <1>11, <2>1 DEF SplitFairly
<1>17. HandlerInv(r)
  BY <1>14, <1>15, <1>16 DEF HandlerInv
<1>18. Unbooked(o) = o.coinbasevalue
  BY <1>1 DEF Unbooked, Announcing, Splitting
<1>19. Unbooked(r) = o.coinbasevalue
  <2>1. Unbooked(r) = fee + dust + CreditedTotal(totals)
    BY <1>10, <1>11 DEF Unbooked, Announcing, Splitting
  <2>2. \A v, d, c \in Int : (v - d) + (d - c) + c = v
    OBVIOUS
  <2>3. o.coinbasevalue \in Int /\ dist \in Int /\ CreditedTotal(totals) \in Int
    BY <1>5, <1>6, <1>8
  <2>4. fee + dust + CreditedTotal(totals) = o.coinbasevalue
    BY <1>13, <2>2, <2>3
  <2> QED BY <2>1, <2>4
<1>20. Unbooked(r) <= Unbooked(handler[h])
  BY <1>5, <1>18, <1>19 DEF o
<1>21. /\ RewardTypeOK' /\ RewardInv'
       /\ Surplus' = Surplus + (Unbooked(handler[h]) - Unbooked(r))
  BY <1>1, <1>11, <1>12, <1>17, <1>20, QuietStep
<1> QED BY <1>5, <1>18, <1>19, <1>21, SurplusInt DEF o

\* One miner is credited: a row of its amount, and one miner less to go.
LEMMA CreditMinerKeeps ==
  ASSUME RewardTypeOK, RewardInv, NEW h \in Handlers, NEW m, CreditMiner(h, m)
  PROVE  RewardTypeOK' /\ RewardInv' /\ Surplus' = Surplus
<1> DEFINE o == handler[h]
           pc == IF o.todo = {m} THEN "insertRow" ELSE "credit"
           r == [o EXCEPT !.todo = o.todo \ {m}, !.pc = pc]
           amount == o.perMinerTotals[m]
<1>1. /\ o.pc = "credit" /\ m \in o.todo /\ SetHandler(h, r)
      /\ ledger' = credit(ledger, m, amount, o.height)
      /\ UNCHANGED <<clock, shareLog, pruned, accounting, tip, accepted>>
  BY DEF CreditMiner
<1>2. /\ o \in HandlerState /\ HandlerOK(o) /\ WindowRead(o) /\ SplitFairly(o)
      /\ ledger \in Seq(PayoutLedgerEntity)
  BY DEF RewardTypeOK, RewardInv, WindowComplete, FairSplit
<1>3. /\ o.todo \in SUBSET Miners /\ o.perMinerTotals \in [Miners -> Nat] /\ o.height \in Nat
      /\ o.feeSats \in Nat /\ o.dustSats \in Int
  BY <1>2 DEF HandlerState
<1>4. m \in Miners /\ amount \in Nat
  BY <1>1, <1>3
<1>5. pc \in {"insertRow", "credit"} /\ pc \in HandlerPc /\ (pc # "credit" => o.todo \ {m} = {})
  BY DEF HandlerPc
<1>6. /\ r \in HandlerState /\ r.pc = pc /\ r.todo = o.todo \ {m} /\ r.counted = o.counted
      /\ r.perMinerTotals = o.perMinerTotals /\ r.feeSats = o.feeSats
      /\ r.dustSats = o.dustSats /\ r.coinbasevalue = o.coinbasevalue
      /\ r.since = o.since /\ r.difficulty = o.difficulty /\ r.share = o.share
      /\ r.windowStart = o.windowStart
  <2> HIDE DEF o, pc
  <2> QED BY <1>2, <1>3, <1>5 DEF HandlerState
<1>7. /\ ledger' \in Seq(PayoutLedgerEntity)
      /\ SumSats(ledger', 1..Len(ledger')) = SumSats(ledger, 1..Len(ledger)) + amount
  <2> HIDE DEF amount, o
  <2> QED BY <1>1, <1>2, <1>3, <1>4, CreditAdds, ZenonT(60)
<1> HIDE DEF o, r, pc, amount
<1>8. HandlerInv(r)
  <2>1. o.pc \in Splitting /\ r.pc \in Splitting
    BY <1>1, <1>5, <1>6 DEF Splitting
  <2>2. HandlerOK(r)
    BY <1>1, <1>2, <1>5, <1>6, <2>1 DEF HandlerOK, Splitting
  <2>3. WindowRead(r)
    BY <1>2, <1>6, <2>1 DEF WindowRead
  <2>4. SplitFairly(r)
    BY <1>2, <1>6, <2>1 DEF SplitFairly
  <2> QED BY <2>2, <2>3, <2>4 DEF HandlerInv
<1>9. Booked' = Booked + amount
  <2> DEFINE s == SumSats(ledger, 1..Len(ledger))
             a == accounting.totalFeeSats
             b == accounting.totalDustSats
  <2>1. s \in Nat /\ a \in Nat /\ b \in Nat
    BY LedgerSum DEF RewardTypeOK, PoolAccountingEntity
  <2>2. Booked = s + a + b /\ Booked' = (s + amount) + a + b
    BY <1>1, <1>7 DEF Booked
  <2> HIDE DEF s, a, b
  <2> QED BY <1>4, <2>1, <2>2
<1>10. Mined' = Mined + 0
  <2>1. Mined' = Mined
    BY <1>1 DEF Mined
  <2> QED BY <2>1, BooksNat
<1>11. Unbooked(o) = amount + Unbooked(r) /\ Unbooked(r) \in Nat
  <2> DEFINE f == o.perMinerTotals
             sum == SumOver(f, o.todo \ {m})
  <2>1. IsFiniteSet(o.todo) /\ \A x \in o.todo : f[x] \in Int
    BY <1>3, RewardAssumption, FS_Subset
  <2>2. SumOver(f, o.todo) = f[m] + sum
    BY <1>1, <2>1, SumRemove
  <2>3. Unbooked(o) = o.feeSats + o.dustSats + SumOver(f, o.todo)
    BY <1>1 DEF Unbooked, Announcing, Splitting
  <2>4. Unbooked(r) = o.feeSats + o.dustSats + sum
    BY <1>5, <1>6 DEF Unbooked, Announcing, Splitting
  <2>5. Unbooked(r) \in Nat
    BY <1>2, <1>6, UnbookedNat DEF HandlerOK
  <2>6. sum \in Int
    <3>1. IsFiniteSet(o.todo \ {m}) /\ \A x \in o.todo \ {m} : f[x] \in Int
      BY <2>1, FS_RemoveElement
    <3> HIDE DEF f
    <3> QED BY <3>1, SumType
  <2>7. f[m] = amount
    BY DEF amount
  <2> HIDE DEF f, sum
  <2> QED BY <1>3, <1>4, <2>2, <2>3, <2>4, <2>5, <2>6, <2>7
<1>12. /\ tip' \in Nat /\ accepted' \subseteq [height : 1..tip', coinbasevalue : Nat]
       /\ IsFiniteSet(accepted') /\ accounting' \in PoolAccountingEntity
  BY <1>1 DEF RewardTypeOK, RewardInv
<1>13. /\ RewardTypeOK' /\ RewardInv'
       /\ Surplus' = Surplus + ((0 + Unbooked(handler[h])) - (amount + Unbooked(r)))
  <2>1. amount \in Int /\ 0 \in Int /\ UNCHANGED <<clock, shareLog, pruned>>
    BY <1>1, <1>4
  <2>2. amount + Unbooked(r) <= 0 + Unbooked(handler[h])
    BY <1>4, <1>11 DEF o
  <2> QED BY <1>1, <1>6, <1>7, <1>8, <1>9, <1>10, <1>12, <2>1, <2>2, HandlerStepKeeps
<1> QED BY <1>4, <1>11, <1>13, SurplusInt DEF o

\* The accounting row exists.
LEMMA InsertAccountingRowKeeps ==
  ASSUME RewardTypeOK, RewardInv, NEW h \in Handlers, InsertAccountingRow(h)
  PROVE  RewardTypeOK' /\ RewardInv' /\ Surplus' = Surplus
<1> DEFINE o == handler[h]
           r == [o EXCEPT !.pc = "increment"]
<1>1. /\ o.pc = "insertRow" /\ SetHandler(h, r)
      /\ accounting' = [accounting EXCEPT !.exists = TRUE]
      /\ UNCHANGED <<clock, shareLog, pruned, ledger, tip, accepted>>
  BY DEF InsertAccountingRow, Goto
<1>2. o \in HandlerState /\ HandlerOK(o) /\ WindowRead(o) /\ SplitFairly(o)
  BY DEF RewardTypeOK, RewardInv, WindowComplete, FairSplit
<1>3. /\ r \in HandlerState /\ r.pc = "increment" /\ r.todo = o.todo /\ r.counted = o.counted
      /\ r.perMinerTotals = o.perMinerTotals /\ r.feeSats = o.feeSats
      /\ r.dustSats = o.dustSats /\ r.coinbasevalue = o.coinbasevalue
      /\ r.since = o.since /\ r.difficulty = o.difficulty /\ r.share = o.share
      /\ r.windowStart = o.windowStart
  BY <1>2 DEF HandlerState, HandlerPc
<1>4. /\ accounting' \in PoolAccountingEntity
      /\ accounting'.totalFeeSats = accounting.totalFeeSats
      /\ accounting'.totalDustSats = accounting.totalDustSats
  BY <1>1 DEF RewardTypeOK, PoolAccountingEntity
<1> HIDE DEF o, r
<1>5. HandlerInv(r)
  <2>1. o.pc \in Splitting /\ r.pc \in Splitting
    BY <1>1, <1>3 DEF Splitting
  <2>2. HandlerOK(r)
    BY <1>1, <1>2, <1>3, <2>1 DEF HandlerOK, Splitting
  <2>3. WindowRead(r)
    BY <1>2, <1>3, <2>1 DEF WindowRead
  <2>4. SplitFairly(r)
    BY <1>2, <1>3, <2>1 DEF SplitFairly
  <2> QED BY <2>2, <2>3, <2>4 DEF HandlerInv
<1>6. Unbooked(r) = Unbooked(o) /\ Unbooked(r) \in Nat
  <2>1. Unbooked(r) = Unbooked(o)
    BY <1>1, <1>3 DEF Unbooked, Announcing, Splitting
  <2>2. Unbooked(r) \in Nat
    BY <1>2, <1>3, UnbookedNat DEF HandlerOK
  <2> QED BY <2>1, <2>2
<1>7. Booked' = Booked + 0 /\ Mined' = Mined + 0
  <2>1. Booked' = Booked /\ Mined' = Mined
    BY <1>1, <1>4 DEF Booked, Mined
  <2> QED BY <2>1, BooksNat
<1>8. /\ tip' \in Nat /\ accepted' \subseteq [height : 1..tip', coinbasevalue : Nat]
      /\ IsFiniteSet(accepted') /\ ledger' \in Seq(PayoutLedgerEntity)
  BY <1>1 DEF RewardTypeOK, RewardInv
<1>9. /\ RewardTypeOK' /\ RewardInv'
      /\ Surplus' = Surplus + ((0 + Unbooked(handler[h])) - (0 + Unbooked(r)))
  <2>1. 0 \in Int /\ UNCHANGED <<clock, shareLog, pruned>>
    BY <1>1
  <2>2. 0 + Unbooked(r) <= 0 + Unbooked(handler[h])
    BY <1>6 DEF o
  <2> QED BY <1>1, <1>3, <1>4, <1>5, <1>7, <1>8, <2>1, <2>2, HandlerStepKeeps
<1> QED BY <1>6, <1>9, SurplusInt DEF o

\* Fee and dust are booked, and the split is over.
LEMMA addFeeAndDustKeeps ==
  ASSUME RewardTypeOK, RewardInv, NEW h \in Handlers, addFeeAndDust(h)
  PROVE  RewardTypeOK' /\ RewardInv' /\ Surplus' = Surplus
<1> DEFINE o == handler[h]
           k == o.feeSats + o.dustSats
<1>1. /\ o.pc = "increment" /\ SetHandler(h, Idle)
      /\ accounting' = [accounting EXCEPT !.totalFeeSats = @ + o.feeSats,
                                          !.totalDustSats = @ + o.dustSats]
      /\ UNCHANGED <<clock, shareLog, pruned, ledger, tip, accepted>>
  BY DEF addFeeAndDust, Finish
<1>2. o \in HandlerState /\ HandlerOK(o)
  BY DEF RewardTypeOK, RewardInv
<1>3. o.feeSats \in Nat /\ o.dustSats \in Nat /\ o.todo = {}
  BY <1>1, <1>2 DEF HandlerState, HandlerOK
<1>4. Idle \in HandlerState /\ HandlerInv(Idle) /\ Idle.pc = "idle"
  BY IdleFacts DEF RewardTypeOK
<1>5. accounting.totalFeeSats \in Nat /\ accounting.totalDustSats \in Nat
  BY DEF RewardTypeOK, PoolAccountingEntity
<1> HIDE DEF Idle, o
<1>6. /\ accounting' \in PoolAccountingEntity
      /\ accounting'.totalFeeSats = accounting.totalFeeSats + o.feeSats
      /\ accounting'.totalDustSats = accounting.totalDustSats + o.dustSats
  <2> DEFINE fee == accounting.totalFeeSats + o.feeSats
             dust == accounting.totalDustSats + o.dustSats
  <2>1. fee \in Nat /\ dust \in Nat
    BY <1>3, <1>5
  <2>2. accounting \in PoolAccountingEntity
    BY DEF RewardTypeOK
  <2>3. accounting' = [accounting EXCEPT !.totalFeeSats = fee, !.totalDustSats = dust]
    BY <1>1
  <2> HIDE DEF fee, dust
  <2>4. /\ accounting' \in PoolAccountingEntity
        /\ accounting'.totalFeeSats = fee /\ accounting'.totalDustSats = dust
    BY <2>1, <2>2, <2>3 DEF PoolAccountingEntity
  <2> QED BY <2>4 DEF fee, dust
<1>7. Booked' = Booked + k /\ k \in Nat
  <2> DEFINE s == SumSats(ledger, 1..Len(ledger))
  <2>1. s \in Nat
    BY LedgerSum DEF RewardTypeOK
  <2>2. /\ Booked = s + accounting.totalFeeSats + accounting.totalDustSats
        /\ Booked' = s + (accounting.totalFeeSats + o.feeSats)
                       + (accounting.totalDustSats + o.dustSats)
    BY <1>1, <1>6 DEF Booked
  <2> HIDE DEF s
  <2> QED BY <1>3, <1>5, <2>1, <2>2
<1>8. Mined' = Mined + 0
  <2>1. Mined' = Mined
    BY <1>1 DEF Mined
  <2> QED BY <2>1, BooksNat
<1>9. Unbooked(Idle) = 0 /\ Unbooked(o) = k
  <2>1. SumOver(o.perMinerTotals, o.todo) = 0
    BY <1>3, SumEmpty
  <2>2. Unbooked(o) = o.feeSats + o.dustSats + 0
    BY <1>1, <2>1 DEF Unbooked, Announcing, Splitting
  <2>3. Unbooked(Idle) = 0
    BY <1>4, UnbookedZero DEF Announcing, Splitting
  <2> QED BY <1>3, <2>2, <2>3
<1> HIDE DEF k
<1>10. /\ tip' \in Nat /\ accepted' \subseteq [height : 1..tip', coinbasevalue : Nat]
       /\ IsFiniteSet(accepted') /\ ledger' \in Seq(PayoutLedgerEntity)
  BY <1>1 DEF RewardTypeOK, RewardInv
<1>11. /\ RewardTypeOK' /\ RewardInv'
       /\ Surplus' = Surplus + ((0 + Unbooked(handler[h])) - (k + Unbooked(Idle)))
  <2>1. k \in Int /\ 0 \in Int /\ UNCHANGED <<clock, shareLog, pruned>>
    BY <1>1, <1>7
  <2>2. k + Unbooked(Idle) <= 0 + Unbooked(handler[h])
    BY <1>7, <1>9 DEF o
  <2> QED BY <1>1, <1>4, <1>6, <1>7, <1>8, <1>10, <2>1, <2>2, HandlerStepKeeps
<1> QED BY <1>7, <1>9, <1>11, SurplusInt DEF o

-----------------------------------------------------------------------------
(* The rest of the world.                                                  *)

\* Time passes: the handlers under way are within their time, the pruned shares older.
LEMMA TickKeeps ==
  ASSUME RewardTypeOK, RewardInv, Tick
  PROVE  RewardTypeOK' /\ RewardInv' /\ Surplus' = Surplus
<1>1. /\ clock' = clock + 1
      /\ \A h \in Handlers : handler[h].pc # "idle" => clock < handler[h].since + MaxDelay
      /\ UNCHANGED <<shareLog, pruned, ledger, accounting, tip, accepted, handler>>
  BY DEF Tick
<1>2. /\ clock \in Nat /\ MaxDelay \in Nat /\ Window \in Nat /\ PruneMargin \in Nat
      /\ shareLog \in Seq(PplnsShareEntity) /\ pruned \subseteq 1..Len(shareLog)
  BY RewardAssumption DEF RewardTypeOK
<1>3. RewardTypeOK'
  BY <1>1, <1>2 DEF RewardTypeOK
<1>4. ShareLogInv'
  <2>1. \A i \in 1..Len(shareLog) : shareLog[i] \in PplnsShareEntity
    BY <1>2
  <2>2. \A i \in 1..Len(shareLog) : shareLog[i].timestamp \in Nat
    BY <2>1 DEF PplnsShareEntity
  <2>3. ShareLogInv
    BY DEF RewardInv
  <2>4. \A i \in 1..Len(shareLog) : shareLog[i].difficulty > 0 /\ shareLog[i].timestamp <= clock + 1
    BY <1>2, <2>2, <2>3 DEF ShareLogInv
  <2>5. \A i \in pruned : shareLog[i].timestamp < (clock + 1) - Window - PruneMargin
    BY <1>2, <2>2, <2>3 DEF ShareLogInv, PruneCutoff
  <2> QED BY <1>1, <2>4, <2>5 DEF ShareLogInv, PruneCutoff
<1>5. ASSUME NEW h \in Handlers PROVE HandlerOK(handler[h])'
  <2> DEFINE o == handler[h]
  <2>1. o \in HandlerState /\ HandlerOK(o) /\ (o.pc # "idle" => clock < o.since + MaxDelay)
    BY <1>1 DEF RewardTypeOK, RewardInv
  <2>2. o.since \in Nat /\ o.windowStart \in Int
    BY <2>1 DEF HandlerState
  <2> HIDE DEF o
  <2>3. o.pc # "idle" => o.since <= clock + 1 /\ clock + 1 <= o.since + MaxDelay /\ o.difficulty > 0
    BY <1>2, <2>1, <2>2 DEF HandlerOK
  <2>4. o.pc \in Splitting \cup {"window"} =>
          o.windowStart >= o.since - Window /\ o.windowStart <= (clock + 1) - Window
    BY <1>2, <2>1, <2>2 DEF HandlerOK
  <2>5. o' = o
    BY <1>1 DEF o
  <2>6. HandlerOK(o)'
    BY <1>1, <2>1, <2>3, <2>4, <2>5 DEF HandlerOK
  <2> QED BY <2>6 DEF o
<1>6. WindowComplete' /\ FairSplit'
  BY <1>1, ZenonT(60) DEF RewardInv, WindowComplete, WindowRead, FairSplit, SplitFairly, TotalDifficulty
<1>7. Booked' = Booked /\ Mined' = Mined /\ StillUnbooked' = StillUnbooked
  BY <1>1 DEF Booked, Mined, StillUnbooked, Unbooked
<1>8. Surplus' = Surplus
  BY <1>7 DEF Surplus
<1>9. IsFiniteSet(accepted')
  BY <1>1 DEF RewardInv
<1> QED BY <1>3, <1>4, <1>5, <1>6, <1>8, <1>9 DEF RewardInv

\* A step that leaves the clock, the share log, the handlers and the books alone.
LEMMA OutsideStep ==
  ASSUME RewardTypeOK, RewardInv, UNCHANGED <<clock, shareLog, ledger, accounting, accepted, handler>>,
         pruned' \subseteq 1..Len(shareLog), \A i \in pruned' : shareLog[i].timestamp < PruneCutoff,
         tip' \in Nat, accepted \subseteq [height : 1..tip', coinbasevalue : Nat]
  PROVE  RewardTypeOK' /\ RewardInv' /\ Surplus' = Surplus
<1>1. RewardTypeOK'
  BY DEF RewardTypeOK
<1>2. ShareLogInv'
  BY DEF RewardInv, ShareLogInv, PruneCutoff
<1>3. (\A h \in Handlers : HandlerOK(handler[h]))' /\ WindowComplete' /\ FairSplit'
  <2>1. (\A h \in Handlers : HandlerOK(handler[h]))'
    BY DEF RewardInv, HandlerOK
  <2>2. WindowComplete' /\ FairSplit'
    BY ZenonT(60) DEF RewardInv, WindowComplete, WindowRead, FairSplit, SplitFairly, TotalDifficulty
  <2> QED BY <2>1, <2>2
<1>4. Booked' = Booked /\ Mined' = Mined /\ StillUnbooked' = StillUnbooked
  BY DEF Booked, Mined, StillUnbooked, Unbooked
<1>5. Surplus' = Surplus
  BY <1>4 DEF Surplus
<1>6. IsFiniteSet(accepted')
  BY DEF RewardInv
<1> QED BY <1>1, <1>2, <1>3, <1>5, <1>6 DEF RewardInv

\* The pruning timer deletes what is older than the window and the margin.
LEMMA pruneOlderThanKeeps ==
  ASSUME RewardTypeOK, RewardInv, pruneOlderThan
  PROVE  RewardTypeOK' /\ RewardInv' /\ Surplus' = Surplus
<1>1. /\ pruned' = pruned \cup {i \in 1..Len(shareLog) : shareLog[i].timestamp < PruneCutoff}
      /\ UNCHANGED <<clock, shareLog, ledger, accounting, tip, accepted, handler>>
  BY DEF pruneOlderThan
<1>2. pruned' \subseteq 1..Len(shareLog) /\ \A i \in pruned' : shareLog[i].timestamp < PruneCutoff
  BY <1>1 DEF RewardTypeOK, RewardInv, ShareLogInv
<1>3. tip' \in Nat /\ accepted \subseteq [height : 1..tip', coinbasevalue : Nat]
  BY <1>1 DEF RewardTypeOK
<1> QED BY <1>1, <1>2, <1>3, OutsideStep

\* Another pool's block.
LEMMA OtherBlockKeeps ==
  ASSUME RewardTypeOK, RewardInv, OtherBlock
  PROVE  RewardTypeOK' /\ RewardInv' /\ Surplus' = Surplus
<1>1. /\ tip' = tip + 1
      /\ UNCHANGED <<clock, shareLog, pruned, ledger, accounting, accepted, handler>>
  BY DEF OtherBlock
<1>2. pruned' \subseteq 1..Len(shareLog) /\ \A i \in pruned' : shareLog[i].timestamp < PruneCutoff
  BY <1>1 DEF RewardTypeOK, RewardInv, ShareLogInv
<1>3. tip' \in Nat /\ accepted \subseteq [height : 1..tip', coinbasevalue : Nat]
  <2>1. tip \in Nat /\ accepted \subseteq [height : 1..tip, coinbasevalue : Nat]
    BY DEF RewardTypeOK
  <2>2. 1..tip \subseteq 1..(tip + 1)
    BY <2>1
  <2> QED BY <1>1, <2>1, <2>2
<1> QED BY <1>1, <1>2, <1>3, OutsideStep

\* Handlers that are all idle have nothing to book.
LEMMA AllIdle ==
  ASSUME handler = [h \in Handlers |-> Idle], shareLog \in Seq(PplnsShareEntity)
  PROVE  /\ handler \in [Handlers -> HandlerState] /\ StillUnbooked = 0
         /\ \A h \in Handlers : HandlerInv(handler[h])
<1>1. Idle \in HandlerState /\ HandlerInv(Idle) /\ Idle.pc = "idle"
  BY IdleFacts
<1> DEFINE f == [h \in Handlers |-> Unbooked(handler[h])]
<1> HIDE DEF Idle
<1>2. \A h \in Handlers : handler[h] = Idle
  OBVIOUS
<1>3. Unbooked(Idle) = 0
  BY <1>1, UnbookedZero DEF Announcing, Splitting
<1>4. \A h \in Handlers : f[h] = 0
  BY <1>2, <1>3
<1>5. IsFiniteSet(Handlers)
  BY RewardAssumption
<1>6. SumOver(f, Handlers) = 0
  <2> HIDE DEF f
  <2> QED BY <1>4, <1>5, SumZero
<1> QED BY <1>1, <1>2, <1>6 DEF StillUnbooked

\* The process restarts: what its handlers had to book is never booked.
LEMMA CrashKeeps ==
  ASSUME RewardTypeOK, RewardInv, RewardCrash
  PROVE  RewardTypeOK' /\ RewardInv' /\ Surplus' >= Surplus
<1>1. /\ handler' = [h \in Handlers |-> Idle]
      /\ UNCHANGED <<clock, shareLog, pruned, ledger, accounting, tip, accepted>>
  BY DEF RewardCrash
<1>2. shareLog' \in Seq(PplnsShareEntity)
  BY <1>1 DEF RewardTypeOK
<1>3. /\ handler' \in [Handlers -> HandlerState] /\ StillUnbooked' = 0
      /\ (\A h \in Handlers : HandlerInv(handler[h]))'
  <2>1. (handler = [h \in Handlers |-> Idle] /\ shareLog \in Seq(PplnsShareEntity) =>
          /\ handler \in [Handlers -> HandlerState] /\ StillUnbooked = 0
          /\ \A h \in Handlers : HandlerInv(handler[h]))'
    BY AllIdle, PTL
  <2> QED BY <1>1, <1>2, <2>1
<1>4. RewardTypeOK'
  BY <1>1, <1>3 DEF RewardTypeOK
<1>5. Surplus' >= Surplus
  <2>1. StillUnbooked \in Nat
    BY StillUnbookedNat
  <2>2. Booked' = Booked /\ Mined' = Mined
    BY <1>1 DEF Booked, Mined
  <2>3. Mined - (Booked + 0) >= Mined - (Booked + StillUnbooked)
    BY <2>1, BooksNat
  <2> QED BY <1>3, <2>2, <2>3 DEF Surplus
<1>6. ShareLogInv' /\ IsFiniteSet(accepted')
  BY <1>1 DEF RewardInv, ShareLogInv, PruneCutoff
<1> QED BY <1>3, <1>4, <1>5, <1>6 DEF RewardInv, HandlerInv, WindowComplete, FairSplit

\* The pool before its first share.
LEMMA RewardInitHolds ==
  ASSUME RewardInit
  PROVE  RewardTypeOK /\ RewardInv /\ Surplus = 0
<1>1. /\ clock = 0 /\ shareLog = << >> /\ pruned = {} /\ ledger = << >>
      /\ accounting = NoRow /\ tip = 0 /\ accepted = {}
      /\ handler = [h \in Handlers |-> Idle]
  BY DEF RewardInit
<1>2. /\ shareLog \in Seq(PplnsShareEntity) /\ Len(shareLog) = 0
      /\ ledger \in Seq(PayoutLedgerEntity) /\ 1..Len(ledger) = {}
      /\ accounting \in PoolAccountingEntity
      /\ accounting.totalFeeSats = 0 /\ accounting.totalDustSats = 0
  BY <1>1 DEF NoRow, PoolAccountingEntity
<1>3. /\ handler \in [Handlers -> HandlerState] /\ StillUnbooked = 0
      /\ \A h \in Handlers : HandlerInv(handler[h])
  BY <1>1, <1>2, AllIdle
<1>4. RewardTypeOK
  BY <1>1, <1>2, <1>3 DEF RewardTypeOK
<1>5. Booked = 0 /\ Mined = 0 /\ IsFiniteSet(accepted)
  <2>1. SumSats(ledger, 1..Len(ledger)) = 0
    BY <1>2, SumEmpty DEF SumSats
  <2>2. Mined = 0
    BY <1>1, SumEmpty DEF Mined
  <2>3. IsFiniteSet(accepted)
    BY <1>1, FS_EmptySet
  <2> QED BY <1>2, <2>1, <2>2, <2>3 DEF Booked
<1>6. ShareLogInv
  BY <1>1, <1>2 DEF ShareLogInv
<1>7. Surplus = 0
  BY <1>3, <1>5 DEF Surplus
<1> QED
  BY <1>3, <1>4, <1>5, <1>6, <1>7 DEF RewardInv, HandlerInv, WindowComplete, FairSplit

-----------------------------------------------------------------------------
(* The theorems.                                                           *)

\* The steps that give something up: one of Failures behind each.
GivesUp(h) == SubmitReplyLost(h) \/ AnnounceFails(h) \/ ProcessFails(h)

\* Every step keeps the invariant, and only one that gives something up, or a crash,
\* changes what is mined and not booked.
LEMMA RewardNextKeeps ==
  ASSUME RewardTypeOK, RewardInv, [RewardNext]_rewardVars
  PROVE  /\ RewardTypeOK' /\ RewardInv' /\ Surplus' >= Surplus
         /\ Surplus' = Surplus \/ RewardCrash \/ \E h \in Handlers : GivesUp(h)
<1>0. Surplus \in Int /\ Surplus >= Surplus
  BY SurplusInt
<1>1. ASSUME NEW h \in Handlers, NEW m \in Miners, NEW d \in Difficulties,
             NEW v \in CoinbaseValues, Submit(h, m, d, v)
      PROVE  RewardTypeOK' /\ RewardInv' /\ Surplus' = Surplus
  BY <1>1, SubmitKeeps
<1>2. ASSUME NEW h \in Handlers, HandlerStep(h)
      PROVE  /\ RewardTypeOK' /\ RewardInv'
             /\ Surplus' = Surplus \/ (Surplus' >= Surplus /\ GivesUp(h))
  <2>1. ASSUME NEW written \in BOOLEAN, Respond(h, written)
        PROVE  RewardTypeOK' /\ RewardInv' /\ Surplus' = Surplus
    BY <2>1, RespondKeeps
  <2>2. CASE record(h)
    BY <2>2, recordKeeps
  <2>3. CASE RecordFails(h)
    BY <2>3, RecordFailsKeeps
  <2>4. CASE SUBMIT_BLOCK(h)
    BY <2>4, SUBMIT_BLOCKKeeps
  <2>5. CASE BlockRejected(h)
    <3>1. /\ Finish(h) /\ handler[h].pc = "submitblock"
          /\ UNCHANGED <<clock, shareLog, pruned, ledger, accounting, tip, accepted>>
      BY <2>5 DEF BlockRejected
    <3>2. handler[h].pc \notin Announcing \cup Splitting
      BY <3>1 DEF Announcing, Splitting
    <3> QED BY <3>1, <3>2, FinishEarly
  <2>6. CASE SubmitReplyLost(h)
    BY <2>6, SubmitReplyLostKeeps DEF GivesUp
  <2>7. CASE Announce(h)
    BY <2>7, AnnounceKeeps
  <2>8. CASE AnnounceFails(h)
    BY <2>8, FinishLate DEF AnnounceFails, GivesUp
  <2>9. CASE ReportBlockFound(h)
    BY <2>9, ReportBlockFoundKeeps
  <2>10. CASE EmptyWindow(h)
    BY <2>10, EmptyWindowKeeps
  <2>11. CASE Split(h)
    BY <2>11, SplitKeeps
  <2>12. ASSUME NEW m \in handler[h].todo, CreditMiner(h, m)
         PROVE  RewardTypeOK' /\ RewardInv' /\ Surplus' = Surplus
    BY <2>12, CreditMinerKeeps
  <2>13. CASE InsertAccountingRow(h)
    BY <2>13, InsertAccountingRowKeeps
  <2>14. CASE addFeeAndDust(h)
    BY <2>14, addFeeAndDustKeeps
  <2>15. CASE ProcessFails(h)
    BY <2>15, FinishLate DEF ProcessFails, GivesUp
  <2> QED BY <1>2, <2>1, <2>2, <2>3, <2>4, <2>5, <2>6, <2>7, <2>8, <2>9, <2>10, <2>11, <2>12,
             <2>13, <2>14, <2>15 DEF HandlerStep
<1>3. CASE Tick
  BY <1>0, <1>3, TickKeeps
<1>4. CASE pruneOlderThan
  BY <1>0, <1>4, pruneOlderThanKeeps
<1>5. CASE OtherBlock
  BY <1>0, <1>5, OtherBlockKeeps
<1>6. CASE RewardCrash
  BY <1>6, CrashKeeps
<1>7. CASE UNCHANGED rewardVars
  <2>1. UNCHANGED <<clock, shareLog, pruned, ledger, accounting, tip, accepted, handler>>
    BY <1>7 DEF rewardVars
  <2>2. pruned' \subseteq 1..Len(shareLog) /\ \A i \in pruned' : shareLog[i].timestamp < PruneCutoff
    BY <2>1 DEF RewardTypeOK, RewardInv, ShareLogInv
  <2>3. tip' \in Nat /\ accepted \subseteq [height : 1..tip', coinbasevalue : Nat]
    BY <2>1 DEF RewardTypeOK
  <2> QED BY <1>0, <2>1, <2>2, <2>3, OutsideStep
<1> QED BY <1>0, <1>1, <1>2, <1>3, <1>4, <1>5, <1>6, <1>7 DEF RewardNext

\* The type invariant and the inductive invariant hold of every behaviour of the reward
\* path, whatever fails.
THEOREM RewardInvariant == RewardSpec => [](RewardTypeOK /\ RewardInv)
<1>1. RewardInit => RewardTypeOK /\ RewardInv
  BY RewardInitHolds
<1>2. RewardTypeOK /\ RewardInv /\ [RewardNext]_rewardVars => (RewardTypeOK /\ RewardInv)'
  BY RewardNextKeeps
<1> QED BY <1>1, <1>2, PTL DEF RewardSpec

\* What the reward path keeps is of its types: the dust of a split included, which
\* processBlockFound computes as a difference.
THEOREM RewardTyped == RewardSpec => []RewardTypeOK
BY RewardInvariant, PTL

\* Whatever fails and wherever the process stops, credits, fee, dust and what is about
\* to be booked never exceed what the pool mined.
THEOREM RewardNeverOvercredits == RewardSpec => []NeverOvercredits
<1> DEFINE Inv == RewardTypeOK /\ RewardInv /\ Surplus >= 0
<1>1. RewardInit => Inv
  BY RewardInitHolds
<1>2. Inv /\ [RewardNext]_rewardVars => Inv'
  <2>1. SUFFICES ASSUME RewardTypeOK, RewardInv, Surplus >= 0, [RewardNext]_rewardVars
                 PROVE  RewardTypeOK' /\ RewardInv' /\ Surplus' >= 0
    OBVIOUS
  <2>2. RewardTypeOK' /\ RewardInv' /\ Surplus' >= Surplus
    BY <2>1, RewardNextKeeps
  <2>3. Surplus \in Int
    BY <2>1, SurplusInt
  <2>4. Surplus' \in Int
    <3>1. (RewardTypeOK /\ RewardInv => Surplus \in Int)'
      BY SurplusInt, PTL
    <3> QED BY <2>2, <3>1
  <2> QED BY <2>1, <2>2, <2>3, <2>4
<1>3. Inv => NeverOvercredits
  <2>1. SUFFICES ASSUME RewardTypeOK, RewardInv, Surplus >= 0 PROVE NeverOvercredits
    OBVIOUS
  <2>2. Booked \in Nat /\ Mined \in Nat /\ StillUnbooked \in Nat
    BY <2>1, BooksNat, StillUnbookedNat
  <2> QED BY <2>1, <2>2 DEF Surplus, NeverOvercredits
<1> HIDE DEF Inv
<1> QED BY <1>1, <1>2, <1>3, PTL DEF RewardSpec

\* No share in the window of a block is missing from its split, for any window, margin
\* and handler delay within the margin.
THEOREM RewardWindowComplete == RewardSpec => []WindowComplete
<1>1. RewardInv => WindowComplete
  BY DEF RewardInv
<1> QED BY <1>1, RewardInvariant, PTL

\* The split of processBlockFound is proportional up to less than a lepton too much, or
\* one lepton per share and one too little, and never gives away more than is
\* distributed, for any fee and difficulties, with every amount rounded up or down by
\* doubles that are off by less than one part in Precision, and rewards below that.
THEOREM RewardFairSplit == RewardSpec => []FairSplit
<1>1. RewardInv => FairSplit
  BY DEF RewardInv
<1> QED BY <1>1, RewardInvariant, PTL

\* Where nothing but the acknowledgement of a share can fail, every lepton mined is
\* booked or about to be.
THEOREM RewardIsConserved ==
  ASSUME Failures \subseteq {"write"}
  PROVE  RewardSpec => []RewardConserved
<1> DEFINE Inv == RewardTypeOK /\ RewardInv /\ Surplus = 0
<1>1. RewardInit => Inv
  BY RewardInitHolds
<1>2. Inv /\ [RewardNext]_rewardVars => Inv'
  <2>1. SUFFICES ASSUME RewardTypeOK, RewardInv, Surplus = 0, [RewardNext]_rewardVars
                 PROVE  RewardTypeOK' /\ RewardInv' /\ Surplus' = 0
    OBVIOUS
  <2>2. ~RewardCrash /\ \A h \in Handlers : ~GivesUp(h)
    BY DEF RewardCrash, GivesUp, SubmitReplyLost, AnnounceFails, ProcessFails
  <2> QED BY <2>1, <2>2, RewardNextKeeps
<1>3. Inv => RewardConserved
  <2>1. SUFFICES ASSUME RewardTypeOK, RewardInv, Surplus = 0 PROVE RewardConserved
    OBVIOUS
  <2>2. Booked \in Nat /\ Mined \in Nat
    BY <2>1, BooksNat
  <2>3. StillUnbooked \in Nat
    BY <2>1, StillUnbookedNat
  <2> QED BY <2>1, <2>2, <2>3 DEF Surplus, RewardConserved
<1> HIDE DEF Inv
<1> QED BY <1>1, <1>2, <1>3, PTL DEF RewardSpec
=============================================================================
