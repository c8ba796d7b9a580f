--------------------------- MODULE ServerProfile ---------------------------
(***************************************************************************)
(* The part of the server configuration that is computed: the memory a     *)
(* server may use, its buffer pool and its connections.  Sizes are in      *)
(* bytes; MiB is a parameter, so that TLC can use small numbers.  A value  *)
(* that the code leaves out (None) is 0 here.                              *)
(***************************************************************************)
EXTENDS Naturals

CONSTANT MiB   \* Bytes of a mebibyte

ASSUME MiBAssumption == MiB \in Nat \ {0}

GiB == 1024 * MiB
MinMemory == 200 * MiB
MinConnections == 10

Larger(a, b) == IF a < b THEN b ELSE a
Smaller(a, b) == IF a < b THEN a ELSE b

\* The smallest multiple of k that is not below n
RoundUp(n, k) == IF n % k = 0 THEN n ELSE n + (k - (n % k))

\* min(m for m in (container, node) if m): the limit of the container, if there is one
GetMemory(container, node) ==
  IF container = 0 THEN node ELSE IF node = 0 THEN container ELSE Smaller(container, node)

\* The memory after profile-limit-memory, which is compared as it was given
LimitMemory(memory, limit) == IF limit = 0 THEN memory ELSE Smaller(memory, limit)

(* Mistake: the pool is computed as if the message cache were not there *)
PoolWithoutCache(memory) ==
  LET pool == RoundUp((3 * memory) \div 4, 128 * MiB)
  IN  [pool |-> pool, chunk |-> 0, cache |-> 0]

\* Half of a small memory, or three quarters of it less the default message cache,
\* rounded up to chunks; above one GiB the pool has eight chunks.  The second test of
\* the code, for a memory that leaves less than one GiB, is kept as it is
CalculateBufferPool(memory) ==
  LET quarters == (3 * memory) \div 4
      small == quarters < GiB \/ memory - (quarters - GiB) < GiB
      pool == RoundUp(IF small THEN memory \div 2 ELSE quarters - GiB, 128 * MiB)
      chunk == RoundUp(pool \div 8, MiB)
  IN  [pool  |-> IF pool > GiB THEN 8 * chunk ELSE pool,
       chunk |-> IF pool > GiB THEN chunk ELSE 0,
       cache |-> IF small THEN 128 * MiB ELSE 0]

\* What is left of the memory, twelve MiB each
MaxConnections(left) == left \div (12 * MiB)

\* The connections that were asked for are taken off the memory first
ProductionConfig(connections, memory) ==
  LET asked == 12 * MiB * connections
      usable == IF connections = 0 THEN memory
                ELSE IF memory < asked THEN MinMemory ELSE Larger(memory - asked, MinMemory)
      b == CalculateBufferPool(usable)
      left == IF usable < b.pool + b.cache THEN 0 ELSE usable - (b.pool + b.cache)
  IN  [pool  |-> b.pool,
       chunk |-> IF b.chunk = 0 THEN 128 * MiB ELSE b.chunk,
       cache |-> IF b.cache = 0 THEN GiB ELSE b.cache,
       connections |-> IF connections = 0 THEN Larger(MaxConnections(left), MinConnections)
                       ELSE connections]

TestingConfig(connections) ==
  [pool |-> 20 * MiB, chunk |-> MiB, cache |-> 128 * MiB,
   connections |-> IF connections = 0 THEN 100 ELSE connections]

GetConfig(profile, memory, connections) ==
  IF profile = "production" THEN ProductionConfig(connections, memory)
  ELSE TestingConfig(connections)

-----------------------------------------------------------------------------

\* The buffer pool and the message cache fit in the memory they were computed for, and
\* the pool is made of whole chunks
FitsMemory(memory) ==
  LET c == ProductionConfig(0, memory)
  IN  c.pool + c.cache <= memory /\ c.pool % c.chunk = 0
=============================================================================
