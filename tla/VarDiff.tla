------------------------------ MODULE VarDiff ------------------------------
(***************************************************************************)
(* Variable difficulty: the cache of submissions of                        *)
(* StratumV1ClientStatistics, getSuggestedDifficulty, the bit arithmetic   *)
(* of nearestPowerOfTwo, and the timer of StratumV1Client.checkDifficulty  *)
(* that applies a suggestion.                                              *)
(*                                                                         *)
(* A difficulty is a fraction: nearestPowerOfTwo yields a power of two,    *)
(* divided by 100 as often as it had to multiply by 100.  Double           *)
(* precision is exact for the values of an instance.                       *)
(***************************************************************************)
EXTENDS Integers, Sequences

CONSTANTS
  WordBits,          \* width of the integers of the bit operators (32)
  MinDenominator,    \* MIN_DIFF is 1 / MinDenominator (100000)
  CacheSize,         \* CACHE_SIZE (30)
  MinShares,         \* submissions needed for an estimate (5)
  IdleAfter,         \* a minute
  TargetPerSecond,   \* TARGET_SUBMISSION_PER_SECOND (10)
  WorkDone,          \* difficulties of submitted shares
  StartDifficulty,   \* difficulty of a new session
  MaxVarTime         \* bound: the clock

ASSUME VarDiffAssumption ==
  /\ WordBits \in 2..32 /\ MinDenominator \in Nat \ {0}
  /\ CacheSize \in Nat \ {0} /\ MinShares \in 1..CacheSize
  /\ IdleAfter \in Nat /\ TargetPerSecond \in Nat \ {0}
  /\ WorkDone \subseteq Nat \ {0}
  /\ StartDifficulty \in Nat \ {0} /\ MaxVarTime \in Nat

VARIABLES
  seconds,           \* Date.now(); the session began at 0
  submissionCache,   \* time and difficulty of the last submissions
  target,            \* sessionDifficulty
  thrown             \* checkDifficulty threw: an unhandled rejection

vardiffVars == <<seconds, submissionCache, target, thrown>>

-----------------------------------------------------------------------------
(* Fractions                                                               *)

Less(a, b) == a.num * b.den < b.num * a.den
Times(a, n) == [num |-> a.num * n, den |-> a.den]
Over(a, n) == [num |-> a.num, den |-> a.den * n]

MIN_DIFF == [num |-> 1, den |-> MinDenominator]

-----------------------------------------------------------------------------
(* nearestPowerOfTwo                                                       *)

Bit == 0..(WordBits - 1)
Word == 0..(2^WordBits - 1)

\* The word that the bit operators make of val * 100^k; 0 for an infinite value.
ToInt32(val, k) ==
  LET modulus == val.den * 2^WordBits
      scaled[i \in 0..k] == IF i = 0 THEN val.num % modulus
                            ELSE (scaled[i - 1] * 100) % modulus
  IN  IF val.den = 0 THEN 0 ELSE scaled[k] \div val.den

Bits(w) == {i \in Bit : (w \div 2^i) % 2 = 1}

\* x >> 1, which copies the sign bit.
Half(x) == {i \in Bit : i + 1 \in x \/ (i = WordBits - 1 /\ i \in x)}

\* Mutant of Reach: the shifts end with that by 2.
ReachShort == 3

\* How far x | (x >> 1) | ... copies a bit down: 1 + 2 + 4 + 8 + 16 places.
Reach == 31

Smear(x) == {i \in Bit : \E j \in x : i <= j /\ j <= i + Reach}

\* x - (x >> 1) of the smeared word, where no bit is borrowed: 0 when the word is 0 or
\* negative.
HighestBit ==
  [w \in Word |-> LET bits == Smear(Bits(w)) \ Half(Smear(Bits(w)))
                  IN  IF bits = {} THEN 0 ELSE 2^(CHOOSE i \in bits : TRUE)]

\* Past this depth the value has become infinite.
MaxDepth == 2 * WordBits

NoSuggestion == [kind |-> "null"]
Throws == [kind |-> "RangeError"]
Suggest(d) == [kind |-> "difficulty", value |-> d]

\* A result of 0 makes the function call itself with 100 times the value.
nearestPowerOfTwo(val) ==
  LET try[k \in 0..(MaxDepth + 1)] ==
        LET res == HighestBit[ToInt32(val, k)]
        IN  IF k > MaxDepth THEN Throws
            ELSE IF res = 0 THEN try[k + 1]
            ELSE Suggest([num |-> res, den |-> 100^k])
  IN  IF Less(val, MIN_DIFF) THEN Suggest(MIN_DIFF) ELSE try[0]

-----------------------------------------------------------------------------
(* getSuggestedDifficulty                                                  *)

Last(cache) == cache[Len(cache)]

\* The work per second the miner delivered, times the submissions wanted per second.
\* The denominator is 0 when all came at the same time: the target is infinite.
Estimate(cache) ==
  LET sum[i \in 0..Len(cache)] == IF i = 0 THEN 0 ELSE sum[i - 1] + cache[i].difficulty
  IN  [num |-> sum[Len(cache)] * TargetPerSecond,
       den |-> Last(cache).time - cache[1].time]

\* Mutant of getSuggestedDifficulty: an idle session keeps its difficulty.
getSuggestedDifficultyIdle(current) ==
  IF Len(submissionCache) < MinShares THEN NoSuggestion
  ELSE nearestPowerOfTwo(Estimate(submissionCache))

getSuggestedDifficulty(current) ==
  LET wanted == Estimate(submissionCache)
  IN  IF Len(submissionCache) < MinShares
      THEN IF seconds > IdleAfter THEN nearestPowerOfTwo(Over(current, 6)) ELSE NoSuggestion
      ELSE IF Less(Times(current, 2), wanted) \/ Less(wanted, Over(current, 2))
           THEN nearestPowerOfTwo(wanted)
           ELSE NoSuggestion

-----------------------------------------------------------------------------
(* The session                                                             *)

VarDiffInit ==
  /\ seconds = 0
  /\ submissionCache = << >>
  /\ target = [num |-> StartDifficulty, den |-> 1]
  /\ thrown = FALSE

\* Mutant of Cached: the oldest submission is never dropped.
CachedAll(s) == Append(submissionCache, s)

\* The head of addShares: a full cache drops its oldest entry.
Cached(s) ==
  Append(IF Len(submissionCache) > CacheSize THEN Tail(submissionCache) ELSE submissionCache, s)

\* A share counts if it meets the session's difficulty.
addShares(d) ==
  /\ ~thrown
  /\ ~Less([num |-> d, den |-> 1], target)
  /\ submissionCache' = Cached([time |-> seconds, difficulty |-> d])
  /\ UNCHANGED <<seconds, target, thrown>>

\* The timer: a suggestion other than the current difficulty is applied.
CheckTarget ==
  /\ ~thrown
  /\ LET suggestion == getSuggestedDifficulty(target)
     IN  /\ suggestion # NoSuggestion
         /\ thrown' = (suggestion = Throws)
         /\ target' = IF suggestion = Throws THEN target ELSE suggestion.value
  /\ UNCHANGED <<seconds, submissionCache>>

Second ==
  /\ seconds < MaxVarTime
  /\ seconds' = seconds + 1
  /\ UNCHANGED <<submissionCache, target, thrown>>

VarDiffNext == (\E d \in WorkDone : addShares(d)) \/ CheckTarget \/ Second

VarDiffSpec == VarDiffInit /\ [][VarDiffNext]_vardiffVars

-----------------------------------------------------------------------------
(* Properties                                                              *)

Fraction == [num : Nat \ {0}, den : Nat \ {0}]

VarDiffTypeOK ==
  /\ seconds \in 0..MaxVarTime
  /\ submissionCache \in Seq([time : 0..MaxVarTime, difficulty : WorkDone])
  /\ Len(submissionCache) <= CacheSize + 1
  /\ target \in Fraction
  /\ thrown \in BOOLEAN

\* A signed word holds it.  A burst of lucky shares, or of shares within one
\* millisecond, asks for more.
InRange(d) == Less(d, [num |-> 2^(WordBits - 1), den |-> 1])

\* A retarget from shares whose target a signed word holds does not throw, and gives a
\* difficulty within a factor of two below that target, down to the minimum, whatever
\* fractions the bit arithmetic was given.  (Beyond, it may throw, or end below the
\* minimum: the check against it comes before the wrapped multiplications.)
RetargetFits ==
  [][CheckTarget /\ Len(submissionCache) >= MinShares /\ InRange(Estimate(submissionCache)) =>
       LET wanted == Estimate(submissionCache)
       IN  /\ ~thrown'
           /\ IF Less(wanted, MIN_DIFF) THEN target' = MIN_DIFF
              ELSE ~Less(wanted, target') /\ Less(wanted, Times(target', 2))]_vardiffVars

\* No share for more than a minute.
Silent ==
  seconds - (IF submissionCache = << >> THEN 0 ELSE Last(submissionCache).time) > IdleAfter

\* A session that is silent before it has sent enough shares for an estimate gets down
\* to the minimum difficulty, unless it sends some more.  (With enough shares in the
\* cache the estimate does not change while the miner is silent, however long.)
NewMinerLowered ==
  (Silent /\ Len(submissionCache) < MinShares) ~>
    (target = MIN_DIFF \/ ~Silent \/ Len(submissionCache) >= MinShares)
=============================================================================
