------------------------ MODULE ServerProfile_proofs ------------------------
(***************************************************************************)
(* The buffer pool that is computed for a server fits in its memory, for   *)
(* every amount of memory and every size of a mebibyte.                    *)
(***************************************************************************)
EXTENDS ServerProfile, TLAPS

(* A multiple of k leaves no remainder. *)
LEMMA MultipleRemainder ==
  ASSUME NEW k \in Nat \ {0}, NEW q \in Nat
  PROVE  k * q \in Nat /\ (k * q) % k = 0
  OBVIOUS

(* Rounding up in steps of k reaches a multiple of k that is less than one  *)
(* step away.                                                               *)
LEMMA RoundUpBounds ==
  ASSUME NEW k \in Nat \ {0}, NEW n \in Nat
  PROVE  /\ RoundUp(n, k) \in Nat
         /\ n <= RoundUp(n, k) /\ RoundUp(n, k) < n + k
         /\ RoundUp(n, k) % k = 0
<1> DEFINE q == n \div k
           r == n % k
<1>1. q \in Nat /\ r \in 0 .. k - 1 /\ n = k * q + r
  OBVIOUS
<1>2. CASE r = 0
  BY <1>1, <1>2 DEF RoundUp
<1>3. CASE r # 0
  <2>1. RoundUp(n, k) = n + (k - r)
    BY <1>3 DEF RoundUp
  <2>2. k * (q + 1) = k * q + k
    BY <1>1
  <2>3. RoundUp(n, k) = k * (q + 1)
    BY <1>1, <2>1, <2>2
  <2>4. RoundUp(n, k) % k = 0
    BY <1>1, <2>3, MultipleRemainder
  <2> QED  BY <1>1, <1>3, <2>1, <2>4
<1> QED  BY <1>2, <1>3

(* The buffer pool and the message cache of calculate_buffer_pool fit in    *)
(* any memory of at least half a GiB, and the pool is made of whole chunks. *)
THEOREM PoolFitsMemory ==
  ASSUME NEW memory \in Nat, memory >= 512 * MiB
  PROVE  FitsMemory(memory)
<1> DEFINE quarters == (3 * memory) \div 4
           small == quarters < GiB \/ memory - (quarters - GiB) < GiB
           share == IF small THEN memory \div 2 ELSE quarters - GiB
           pool == RoundUp(share, 128 * MiB)
           chunk == RoundUp(pool \div 8, MiB)
           b == CalculateBufferPool(memory)
           c == ProductionConfig(0, memory)
<1>1. MiB \in Nat \ {0} /\ 128 * MiB \in Nat \ {0} /\ GiB = 1024 * MiB
  BY MiBAssumption DEF GiB
<1>2. quarters \in Nat /\ 4 * quarters <= 3 * memory /\ 3 * memory < 4 * quarters + 4
  OBVIOUS
<1>3. b = [pool  |-> IF pool > GiB THEN 8 * chunk ELSE pool,
           chunk |-> IF pool > GiB THEN chunk ELSE 0,
           cache |-> IF small THEN 128 * MiB ELSE 0]
  BY DEF CalculateBufferPool
<1>4. /\ c.pool = b.pool
      /\ c.chunk = IF b.chunk = 0 THEN 128 * MiB ELSE b.chunk
      /\ c.cache = IF b.cache = 0 THEN GiB ELSE b.cache
  <2> HIDE DEF b
  <2> QED  BY DEF ProductionConfig, b
<1>5. share \in Nat /\ (small => share = memory \div 2)
      /\ (~small => share = quarters - GiB)
  BY <1>1, <1>2
<1> HIDE DEF share
<1>6. /\ pool \in Nat /\ share <= pool /\ pool < share + 128 * MiB
      /\ pool % (128 * MiB) = 0
  BY <1>1, <1>5, RoundUpBounds
<1> HIDE DEF pool
<1>7. pool \div 8 \in Nat /\ 8 * (pool \div 8) <= pool /\ pool < 8 * (pool \div 8) + 8
  BY <1>6
<1>8. chunk \in Nat /\ pool \div 8 <= chunk /\ chunk < pool \div 8 + MiB
  BY <1>1, <1>7, RoundUpBounds
<1> HIDE DEF chunk, b, c
<1>9. /\ small <=> quarters < GiB
      /\ small => c.cache = 128 * MiB
      /\ ~small => c.cache = GiB
  BY <1>1, <1>2, <1>3, <1>4
<1> HIDE DEF quarters, small
<1>10. small => pool <= GiB
  <2>1. memory \div 2 \in Nat /\ 2 * (memory \div 2) <= memory
    OBVIOUS
  <2> QED  BY <1>1, <1>2, <1>5, <1>6, <1>9, <2>1
<1>11. c.pool + c.cache <= memory
  <2>1. CASE small
    <3>1. c.pool = pool
      BY <1>3, <1>4, <1>6, <1>1, <1>10, <2>1
    <3>2. memory \div 2 \in Nat /\ 2 * (memory \div 2) <= memory
      OBVIOUS
    <3> QED  BY <1>1, <1>5, <1>6, <1>9, <2>1, <3>1, <3>2
  <2>2. CASE ~small
    <3>1. c.pool \in Nat /\ c.pool < share + 136 * MiB
      BY <1>1, <1>3, <1>4, <1>5, <1>6, <1>7, <1>8
    <3> QED  BY <1>1, <1>2, <1>5, <1>9, <2>2, <3>1
  <2> QED  BY <2>1, <2>2
<1>12. c.pool % c.chunk = 0
  <2>1. CASE pool > GiB
    <3>1. chunk \in Nat \ {0}
      BY <1>1, <1>6, <1>7, <1>8, <2>1
    <3>2. (chunk * 8) % chunk = 0
      BY <3>1, MultipleRemainder
    <3>3. c.pool = chunk * 8 /\ c.chunk = chunk
      BY <1>3, <1>4, <2>1, <3>1
    <3> QED  BY <3>2, <3>3
  <2>2. CASE ~(pool > GiB)
    <3>1. c.pool = pool /\ c.chunk = 128 * MiB
      BY <1>3, <1>4, <2>2
    <3> QED  BY <1>6, <3>1
  <2> QED  BY <2>1, <2>2
<1> QED  BY <1>11, <1>12 DEF FitsMemory, c
=============================================================================
