----------------------------- MODULE Timelocks -----------------------------
(***************************************************************************)
(* The arithmetic of time locks with the integers of the code.  A time     *)
(* lock on BCH is a number of blocks (uint16), one on sBCH a number of     *)
(* seconds (uint32); the bot locks for half of the user's time, less what  *)
(* the divisions cut off, and not at all when a third of it is over.       *)
(* Bch2Sbch and Sbch2Bch count in units of 300 s and without a limit; the  *)
(* theorems say when that is what the code computes.                       *)
(***************************************************************************)
EXTENDS Integers, TLAPS

Uint16(n) == n % 65536
Uint32(n) == n % 4294967296
Uint64(n) == n % 18446744073709551616

bchTimeLockToSeconds(nBlocks) == Uint32(nBlocks * 600)
sbchTimeLockToBlocks(nSeconds) == Uint16(nSeconds \div 600)

\* the bot's time lock for the user's time lock T
SbchLock(T) == bchTimeLockToSeconds(T) \div 2
BchLock(T) == sbchTimeLockToBlocks(T) \div 2

\* unlockableTime of refundLockedSbch, requiredConfirmations of refundLockedBCH;
\* a slave and a lazy master add a delay
unlockableTime(txTime, T, delay) == Uint64(txTime + SbchLock(T) + delay)
requiredConfirmations(T, delay) == Uint16(BchLock(T) + delay)

\* a user's deposit of BCH is too old to be answered
TooLateToLockSbch(confirmations, T) == confirmations > T \div 3

\* a user's deposit of sBCH is too old: the difference of two uint64
timeElapsed(currTime, lockTime) == Uint32(Uint64(currTime - lockTime))
TooLateToLockBch(currTime, lockTime, T) == timeElapsed(currTime, lockTime) > T \div 3

-----------------------------------------------------------------------------

\* A number that fits is not cut.
LEMMA Fits16 == ASSUME NEW n \in Nat, n < 65536 PROVE Uint16(n) = n
  BY SMT DEF Uint16

LEMMA Fits32 == ASSUME NEW n \in Nat, n < 4294967296 PROVE Uint32(n) = n
  BY SMT DEF Uint32

LEMMA Fits64 == ASSUME NEW n \in Nat, n < 18446744073709551616 PROVE Uint64(n) = n
  BY SMT DEF Uint64

LEMMA Wraps64 ==
  ASSUME NEW n \in Int, n < 0, -n < 2147483648
  PROVE  Uint64(n) = n + 18446744073709551616
  BY SMT DEF Uint64

LEMMA Wraps32 ==
  ASSUME NEW n \in Int, n < 0, -n < 2147483648
  PROVE  Uint32(n + 18446744073709551616) = n + 4294967296
  BY SMT DEF Uint32

\* Every time lock of a BCH deposit, which has 16 bits, becomes half as many
\* seconds on sBCH, and no time of this age of the world overflows.
THEOREM SbchLockExact ==
  ASSUME NEW T \in Nat, T < 65536,
         NEW txTime \in Nat, txTime < 4294967296,
         NEW delay \in Nat, delay < 100000
  PROVE  /\ SbchLock(T) = 300 * T
         /\ unlockableTime(txTime, T, delay) = txTime + 300 * T + delay
  <1>1. T * 600 \in Nat /\ T * 600 < 4294967296
    BY SMT
  <1>2. SbchLock(T) = 300 * T
    BY <1>1, Fits32, SMT DEF SbchLock, bchTimeLockToSeconds
  <1>3. /\ txTime + 300 * T + delay \in Nat
        /\ txTime + 300 * T + delay < 18446744073709551616
    BY SMT
  <1> QED BY <1>2, <1>3, Fits64, SMT DEF unlockableTime

\* Time locks on sBCH of less than 39321600 s (455 days) become half as many
\* blocks, rounded down, and a delay of the slave does not overflow either.
THEOREM BchLockExact ==
  ASSUME NEW T \in Nat, T < 39321600, NEW delay \in Nat, delay < 32768
  PROVE  /\ BchLock(T) = T \div 1200
         /\ requiredConfirmations(T, delay) = T \div 1200 + delay
  <1>1. T \div 600 \in Nat /\ T \div 600 < 65536
    BY SMT
  <1>2. BchLock(T) = (T \div 600) \div 2
    BY <1>1, Fits16, SMT DEF BchLock, sbchTimeLockToBlocks
  <1>3. (T \div 600) \div 2 = T \div 1200
    BY SMT
  <1>4. T \div 1200 + delay \in Nat /\ T \div 1200 + delay < 65536
    BY SMT
  <1> QED BY <1>2, <1>3, <1>4, Fits16, SMT DEF requiredConfirmations

\* The next time lock wraps around: the bot's BCH would be locked for 0 blocks.
THEOREM BchLockWraps == BchLock(39321600) = 0
  BY SMT DEF BchLock, sbchTimeLockToBlocks, Uint16

\* A deposit that is not too late was made at most a third of its time ago.
\* In particular one that is ahead of the bot's node is refused, for the
\* difference is unsigned.
THEOREM NotTooLate ==
  ASSUME NEW T \in Nat, T < 4294967296,
         NEW currTime \in Nat, NEW lockTime \in Nat,
         currTime - lockTime < 4294967296, lockTime - currTime < 2147483648,
         ~TooLateToLockBch(currTime, lockTime, T)
  PROVE  0 <= currTime - lockTime /\ currTime - lockTime <= T \div 3
  <1> DEFINE d == currTime - lockTime
  <1>1. ~(timeElapsed(currTime, lockTime) > T \div 3)
    BY DEF TooLateToLockBch
  <1>2. CASE d < 0
    <2>1. timeElapsed(currTime, lockTime) = d + 4294967296
      BY <1>2, Wraps64, Wraps32, SMT DEF timeElapsed
    <2> QED BY <1>1, <2>1, SMT
  <1>3. CASE d >= 0
    <2>1. timeElapsed(currTime, lockTime) = d
      BY <1>3, Fits64, Fits32, SMT DEF timeElapsed
    <2> QED BY <1>1, <1>3, <2>1, SMT
  <1> QED BY <1>2, <1>3, SMT

\* What the user's BCH lock has left when the bot's sBCH lock has expired: a
\* sixth of its time at least, counting 600 s for a block.
THEOREM SbchMargin ==
  ASSUME NEW T \in Nat, T < 65536, NEW confirmations \in Nat,
         ~TooLateToLockSbch(confirmations, T)
  PROVE  600 * confirmations + SbchLock(T) + 100 * T <= 600 * T
  <1>1. SbchLock(T) = 300 * T
    BY SbchLockExact, SMT
  <1>2. ~(confirmations > T \div 3)
    BY DEF TooLateToLockSbch
  <1> QED BY <1>1, <1>2, SMT

\* The same for sBCH=>BCH, where what the divisions cut off shortens the bot's
\* own time lock.
THEOREM BchMargin ==
  ASSUME NEW T \in Nat, T < 39321600,
         NEW currTime \in Nat, NEW lockTime \in Nat,
         currTime - lockTime < 4294967296, lockTime - currTime < 2147483648,
         ~TooLateToLockBch(currTime, lockTime, T)
  PROVE  6 * ((currTime - lockTime) + 600 * BchLock(T)) + T <= 6 * T
  <1>1. BchLock(T) = T \div 1200
    BY BchLockExact, 0 \in Nat, 0 < 32768, SMT
  <1>2. currTime - lockTime <= T \div 3
    BY NotTooLate, SMT
  <1> QED BY <1>1, <1>2, SMT

=============================================================================
