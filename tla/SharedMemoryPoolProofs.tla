------------------------ MODULE SharedMemoryPoolProofs ------------------------
(***************************************************************************)
(* Proofs about the shared memory pool, for pools of any size and any      *)
(* number of threads: the memory that it gives out does not overlap, none  *)
(* is lost, the guards have the lengths of their blocks, and a search that *)
(* nobody disturbs ends with the first room there is.                      *)
(*                                                                         *)
(* The bits of the registry change only under the mutex, which a thread    *)
(* keeps during its search; that others move the cursor meanwhile makes    *)
(* the search longer or shorter, but what it has found so far stays free.  *)
(* What a call read before it locked the mutex stays right as well: it is  *)
(* about the caller's own block.                                           *)
(***************************************************************************)
EXTENDS SharedMemoryPool, TLAPS

OnBlock == {"setCursor", "lockExtend", "scanExtend", "restart", "scanMove"}

(* What a search has found so far is free, and is not enough.              *)
ScanAgrees(t) ==
    /\ pc[t] \in Scanning \cup {"restart"} => mutex = t
    /\ pc[t] \in Scanning =>
          /\ scan[t].candidate + scan[t].obtained = scan[t].current
          /\ scan[t].obtained < Wanted(t)
          /\ \A x \in Chunks :
                scan[t].candidate <= x /\ x < scan[t].current => x \notin used
ScansAgree == \A t \in Threads : ScanAgrees(t)

(* What a call knows about its block.                                      *)
CallAgrees(t) ==
    /\ pc[t] \in {"lockMalloc", "scanMalloc"} => requested[t] >= 2
    /\ pc[t] \in OnBlock \cup {"lockShrink"} =>
          owner[block[t]] = t /\ size[block[t]] = current[t]
    /\ pc[t] \in OnBlock => requested[t] > current[t]
    /\ pc[t] = "lockShrink" => requested[t] \in 2 .. current[t] - 1
    /\ pc[t] \in {"lockFree", "writeGuard"} =>
          owner[block[t]] = t /\ size[block[t]] = requested[t]
CallsAgree == \A t \in Threads : CallAgrees(t)

(* The blocks lie within the pool and apart from each other, and the       *)
(* registry has their chunks: NoOverlap, in terms of the numbers of chunks,*)
(* of any registry u and any blocks with owners o and sizes s.             *)
Shaped(u, o, s) ==
    /\ u \subseteq Chunks
    /\ o \in [Chunks -> Threads \cup {None}]
    /\ s \in [Chunks -> Nat]
Fits(o, s) ==
    \A c \in Chunks : o[c] # None => s[c] >= 2 /\ c + s[c] <= N
Apart(o, s) ==
    \A c, d \in Chunks : o[c] # None /\ o[d] # None /\ c # d =>
        c + s[c] <= d \/ d + s[d] <= c
Registered(u, o, s) ==
    \A x \in Chunks : x \in u <=>
        \E c \in Chunks : o[c] # None /\ c <= x /\ x < c + s[c]
Layout(u, o, s) ==
    Shaped(u, o, s) /\ Fits(o, s) /\ Apart(o, s) /\ Registered(u, o, s)

BlocksKept == Layout(used, owner, size)

IInv ==
    /\ TypeOK
    /\ ScansAgree
    /\ CallsAgree
    /\ BlocksKept
    /\ GuardExact

-----------------------------------------------------------------------------

-----------------------------------------------------------------------------
(* Arithmetic.                                                             *)
LEMMA DivMod ==
    ASSUME NEW a \in Nat, NEW k \in Nat, k > 0
    PROVE  /\ a \div k \in Nat /\ a % k \in Nat /\ a % k < k
           /\ a = (a \div k) * k + (a % k)
OBVIOUS

LEMMA Product ==
    ASSUME NEW a \in Nat, NEW b \in Nat, NEW k \in Nat
    PROVE  a * k \in Nat /\ (a + b) * k = a * k + b * k
OBVIOUS

(* allocChunks, for all that it does byte by byte, is about the n chunks   *)
(* from start on.                                                          *)
LEMMA AllocatesAll ==
    ASSUME NEW start \in Nat, NEW n \in Nat
    PROVE  AllocChunks(start, n) = start .. start + n - 1
<1> DEFINE q == start \div Byte
           r == start % Byte
           f == InFirstByte(start, n)
           b == NextByte(start)
           m == (n - f) \div Byte
           s == (n - f) % Byte
<1>0. Byte \in Nat /\ Byte > 0
  BY PoolAssumption
<1>1. q \in Nat /\ r \in Nat /\ r < Byte /\ start = q * Byte + r
  BY <1>0, DivMod
<1>2. f = IF r = 0 THEN 0 ELSE IF Byte - r <= n THEN Byte - r ELSE n
  BY DEF InFirstByte, Least
<1>3. f \in Nat /\ n - f \in Nat
  BY <1>0, <1>1, <1>2
<1>4. m \in Nat /\ s \in Nat /\ s < Byte /\ n - f = m * Byte + s
  <2>1. PICK e \in Nat : e = n - f
    BY <1>3
  <2>2. e \div Byte \in Nat /\ e % Byte \in Nat /\ e % Byte < Byte
        /\ e = (e \div Byte) * Byte + (e % Byte)
    BY <1>0, DivMod
  <2>3. QED
    BY <2>1, <2>2
<1>5. b = IF r = 0 THEN q ELSE q + 1
  BY DEF NextByte
<1>6. b \in Nat /\ b * Byte = IF r = 0 THEN q * Byte ELSE q * Byte + Byte
  <2>1. (q + 1) * Byte = q * Byte + 1 * Byte
    BY <1>0, <1>1, Product
  <2>2. 1 * Byte = Byte
    BY <1>0
  <2>3. QED
    BY <2>1, <2>2, <1>1, <1>5
<1>7. (b + m) * Byte = b * Byte + m * Byte /\ b * Byte \in Nat /\ m * Byte \in Nat
  BY <1>0, <1>4, <1>6, Product
<1>8. /\ PreChunks(start, n) = start .. start + f - 1
      /\ ByteChunks(start, n) = b * Byte .. (b + m) * Byte - 1
      /\ PostChunks(start, n) = (b + m) * Byte .. (b + m) * Byte + s - 1
  BY DEF PreChunks, ByteChunks, PostChunks
<1> DEFINE bB == b * Byte
           mB == m * Byte
<1>9. /\ PreChunks(start, n) = start .. start + f - 1
      /\ ByteChunks(start, n) = bB .. bB + mB - 1
      /\ PostChunks(start, n) = bB + mB .. bB + mB + s - 1
  BY <1>7, <1>8
<1>10. /\ bB \in Nat /\ mB \in Nat /\ n - f = mB + s
       /\ f # n => bB = start + f
  BY <1>0, <1>1, <1>2, <1>3, <1>4, <1>6, <1>7
<1>11. f = n => mB = 0 /\ s = 0
  BY <1>3, <1>4, <1>10
<1> HIDE DEF q, r, f, b, m, s, bB, mB
<1>12. QED
  BY <1>3, <1>4, <1>9, <1>10, <1>11 DEF AllocChunks

(* The parts of the locals of a search.                                    *)
LEMMA ScanParts ==
    ASSUME TypeOK, NEW t \in Threads
    PROVE  /\ scan[t].start \in Chunks /\ scan[t].current \in Chunks
           /\ scan[t].obtained \in Nat /\ scan[t].candidate \in Nat
BY DEF TypeOK, ScanState

(* One iteration of a search, by cases.                                    *)
LEMMA IterationParts ==
    ASSUME TypeOK, NEW t \in Threads, Wanted(t) \in Nat \ {0}
    PROVE  LET s == scan[t]
               i == Iteration(t)
               w == Wanted(t)
           IN
           /\ i.start = s.start
           /\ i.current = IF s.current + 1 >= N THEN 0 ELSE s.current + 1
           /\ s.current \notin used /\ ~(s.current + 1 >= N /\ s.obtained + 1 < w) =>
                 i.obtained = s.obtained + 1 /\ i.candidate = s.candidate
           /\ s.current \in used /\ s.current + 1 < N =>
                 i.obtained = 0 /\ i.candidate = s.current + 1
           /\ s.current + 1 >= N /\ (s.current \in used \/ s.obtained + 1 < w) =>
                 i.obtained = 0 /\ i.candidate = 0
           /\ i = [start |-> i.start, obtained |-> i.obtained,
                   candidate |-> i.candidate, current |-> i.current]
BY PoolAssumption, ScanParts DEF Iteration, Chunks

(* A search that finds something has found chunks of the pool, all free.   *)
LEMMA Search ==
    ASSUME IInv, NEW t \in Threads, pc[t] \in Scanning
    PROVE  /\ Wanted(t) \in Nat \ {0}
           /\ Iteration(t) \in ScanState
           /\ Iteration(t).obtained < Wanted(t) =>
                /\ Iteration(t).candidate + Iteration(t).obtained = Iteration(t).current
                /\ \A x \in Chunks :
                      Iteration(t).candidate <= x /\ x < Iteration(t).current
                        => x \notin used
           /\ Iteration(t).obtained >= Wanted(t) =>
                /\ Found(t) \in Chunks /\ Found(t) + Wanted(t) <= N
                /\ \A x \in Chunks :
                      Found(t) <= x /\ x < Found(t) + Wanted(t) => x \notin used
<1> DEFINE s == scan[t]
           i == Iteration(t)
           w == Wanted(t)
<1>1. N \in Nat /\ N > 0
  BY PoolAssumption
<1>2. /\ s.start \in Chunks /\ s.current \in Chunks
      /\ s.obtained \in Nat /\ s.candidate \in Nat
  BY ScanParts DEF IInv
<1>3. w \in Nat \ {0}
  BY DEF IInv, TypeOK, CallsAgree, CallAgrees, Wanted, Scanning, OnBlock
<1>4. /\ s.candidate + s.obtained = s.current /\ s.obtained < w
      /\ \A x \in Chunks : s.candidate <= x /\ x < s.current => x \notin used
  BY DEF IInv, ScansAgree, ScanAgrees
<1>5. /\ i.start = s.start
      /\ i.current = IF s.current + 1 >= N THEN 0 ELSE s.current + 1
      /\ s.current \notin used /\ ~(s.current + 1 >= N /\ s.obtained + 1 < w) =>
            i.obtained = s.obtained + 1 /\ i.candidate = s.candidate
      /\ s.current \in used /\ s.current + 1 < N =>
            i.obtained = 0 /\ i.candidate = s.current + 1
      /\ s.current + 1 >= N /\ (s.current \in used \/ s.obtained + 1 < w) =>
            i.obtained = 0 /\ i.candidate = 0
      /\ i = [start |-> i.start, obtained |-> i.obtained, candidate |-> i.candidate,
              current |-> i.current]
  BY <1>3, IterationParts DEF IInv
<1> HIDE DEF s, i, w
<1>6. i.start \in Chunks /\ i.current \in Chunks /\ i.obtained \in Nat /\ i.candidate \in Nat
  BY <1>1, <1>2, <1>3, <1>5 DEF Chunks
<1>7. [start |-> i.start, obtained |-> i.obtained, candidate |-> i.candidate,
       current |-> i.current] \in ScanState
  BY <1>6 DEF ScanState
<1>8. i \in ScanState
  BY <1>5, <1>7
<1>9. ASSUME i.obtained < w
      PROVE  /\ i.candidate + i.obtained = i.current
             /\ \A x \in Chunks : i.candidate <= x /\ x < i.current => x \notin used
  BY <1>1, <1>2, <1>3, <1>4, <1>5, <1>9 DEF Chunks
<1>10. ASSUME i.obtained >= w
       PROVE  /\ i.candidate \in Chunks /\ i.candidate + w <= N
              /\ \A x \in Chunks : i.candidate <= x /\ x < i.candidate + w => x \notin used
  BY <1>1, <1>2, <1>3, <1>4, <1>5, <1>10 DEF Chunks
<1>11. QED
  BY <1>3, <1>8, <1>9, <1>10 DEF Found, s, i, w

(* Free chunks are apart from every block.                                 *)
LEMMA FreeIsApart ==
    ASSUME NEW u, NEW o, NEW s, Layout(u, o, s),
           NEW f \in Chunks, NEW n \in Nat \ {0}, f + n <= N,
           \A x \in Chunks : f <= x /\ x < f + n => x \notin u
    PROVE  \A c \in Chunks : o[c] # None =>
              (c + s[c] <= f \/ f + n <= c) /\ c # f
<1> SUFFICES ASSUME NEW c \in Chunks, o[c] # None
             PROVE  (c + s[c] <= f \/ f + n <= c) /\ c # f
  OBVIOUS
<1>1. s[c] \in Nat /\ s[c] >= 2 /\ c + s[c] <= N /\ N \in Nat /\ c \in Nat /\ f \in Nat
  BY PoolAssumption DEF Layout, Shaped, Fits, Chunks
<1>2. \A x \in Chunks : c <= x /\ x < c + s[c] => x \in u
  BY DEF Layout, Registered
<1>3. CASE c <= f /\ f < c + s[c]
  BY <1>1, <1>2, <1>3
<1>4. CASE f <= c /\ c < f + n
  BY <1>1, <1>2, <1>4
<1>5. QED
  BY <1>1, <1>3, <1>4

(* Free chunks can be given to a thread.                                   *)
LEMMA AddBlock ==
    ASSUME NEW u, NEW o, NEW s, Layout(u, o, s), NEW t \in Threads,
           NEW f \in Chunks, NEW n \in Nat, n >= 2, f + n <= N,
           \A x \in Chunks : f <= x /\ x < f + n => x \notin u
    PROVE  Layout(u \cup (f .. f + n - 1), [o EXCEPT ![f] = t], [s EXCEPT ![f] = n])
<1> DEFINE v == u \cup (f .. f + n - 1)
           p == [o EXCEPT ![f] = t]
           q == [s EXCEPT ![f] = n]
<1>0. N \in Nat /\ t # None
  BY PoolAssumption, NoneAssumption
<1>1. Shaped(u, o, s) /\ Fits(o, s) /\ Apart(o, s) /\ Registered(u, o, s)
  BY DEF Layout
<1>2. \A c \in Chunks : o[c] # None => (c + s[c] <= f \/ f + n <= c) /\ c # f
  BY FreeIsApart
<1>3. /\ p[f] = t /\ q[f] = n
      /\ \A c \in Chunks : c # f => p[c] = o[c] /\ q[c] = s[c]
  BY <1>1 DEF Shaped
<1>4. Shaped(v, p, q)
  BY <1>0, <1>1 DEF Shaped, Chunks
<1> HIDE DEF v, p, q
<1>5. Fits(p, q)
  BY <1>1, <1>3 DEF Fits
<1>6. Apart(p, q)
  BY <1>1, <1>2, <1>3 DEF Apart
<1>7. Registered(v, p, q)
  <2> SUFFICES ASSUME NEW x \in Chunks
               PROVE  x \in v <=> \E c \in Chunks : p[c] # None /\ c <= x /\ x < c + q[c]
    BY DEF Registered
  <2>1. x \in v <=> x \in u \/ (f <= x /\ x < f + n)
    BY <1>0 DEF v, Chunks
  <2>2. ASSUME x \in u
        PROVE  \E c \in Chunks : p[c] # None /\ c <= x /\ x < c + q[c]
    <3>1. PICK c \in Chunks : o[c] # None /\ c <= x /\ x < c + s[c]
      BY <1>1, <2>2 DEF Registered
    <3>2. p[c] # None /\ q[c] = s[c]
      BY <1>2, <1>3, <3>1
    <3>3. QED
      BY <3>1, <3>2
  <2>3. ASSUME f <= x, x < f + n
        PROVE  \E c \in Chunks : p[c] # None /\ c <= x /\ x < c + q[c]
    BY <1>0, <1>3, <2>3
  <2>4. ASSUME NEW c \in Chunks, p[c] # None, c <= x, x < c + q[c]
        PROVE  x \in v
    BY <1>1, <1>3, <2>1, <2>4 DEF Registered
  <2>5. QED
    BY <2>1, <2>2, <2>3, <2>4
<1>8. QED
  BY <1>4, <1>5, <1>6, <1>7 DEF Layout, v, p, q

(* A block can get the free chunks after it.                               *)
LEMMA GrowBlock ==
    ASSUME NEW u, NEW o, NEW s, Layout(u, o, s), NEW t \in Threads,
           NEW b \in Chunks, o[b] # None, NEW n \in Nat, n > s[b], b + n <= N,
           \A x \in Chunks : b + s[b] <= x /\ x < b + n => x \notin u
    PROVE  Layout(u \cup (b + s[b] .. b + n - 1),
                  [o EXCEPT ![b] = t], [s EXCEPT ![b] = n])
<1> DEFINE k == s[b]
           v == u \cup (b + k .. b + n - 1)
           p == [o EXCEPT ![b] = t]
           q == [s EXCEPT ![b] = n]
<1>0. N \in Nat /\ t # None
  BY PoolAssumption, NoneAssumption
<1>1. Shaped(u, o, s) /\ Fits(o, s) /\ Apart(o, s) /\ Registered(u, o, s)
  BY DEF Layout
<1>2. k \in Nat /\ k >= 2 /\ b \in Nat /\ n > k
  BY <1>1 DEF Shaped, Fits, Chunks
<1>3. /\ p[b] = t /\ q[b] = n
      /\ \A c \in Chunks : c # b => p[c] = o[c] /\ q[c] = s[c]
  BY <1>1 DEF Shaped
<1>4. Shaped(v, p, q)
  <2>1. b + k .. b + n - 1 \subseteq Chunks
    BY <1>0, <1>2 DEF Chunks
  <2>2. QED
    BY <1>1, <2>1 DEF Shaped
<1>5. \A c \in Chunks : o[c] # None /\ c # b => c + s[c] <= b \/ b + n <= c
  <2> SUFFICES ASSUME NEW c \in Chunks, o[c] # None, c # b
               PROVE  c + s[c] <= b \/ b + n <= c
    OBVIOUS
  <2>1. /\ s[c] \in Nat /\ s[c] >= 2 /\ c + s[c] <= N /\ c \in Nat
        /\ c + s[c] <= b \/ b + k <= c
    BY <1>1 DEF Shaped, Fits, Apart, Chunks
  <2>2. c \in u
    BY <1>1, <2>1 DEF Registered
  <2>3. QED
    BY <1>2, <2>1, <2>2
<1> HIDE DEF k, v, p, q
<1>6. Fits(p, q)
  <2>1. q[b] >= 2 /\ b + q[b] <= N
    BY <1>0, <1>2, <1>3
  <2>2. QED
    BY <1>1, <1>3, <2>1 DEF Fits
<1>7. Apart(p, q)
  BY <1>1, <1>3, <1>5 DEF Apart
<1>8. Registered(v, p, q)
  <2> SUFFICES ASSUME NEW x \in Chunks
               PROVE  x \in v <=> \E c \in Chunks : p[c] # None /\ c <= x /\ x < c + q[c]
    BY DEF Registered
  <2>1. x \in v <=> x \in u \/ (b + k <= x /\ x < b + n)
    BY <1>0, <1>2 DEF v, Chunks
  <2>2. ASSUME x \in u
        PROVE  \E c \in Chunks : p[c] # None /\ c <= x /\ x < c + q[c]
    <3>1. PICK c \in Chunks : o[c] # None /\ c <= x /\ x < c + s[c]
      BY <1>1, <2>2 DEF Registered
    <3>2. p[c] # None /\ x < c + q[c]
      BY <1>0, <1>2, <1>3, <3>1 DEF k, Chunks
    <3>3. QED
      BY <3>1, <3>2
  <2>3. ASSUME b + k <= x, x < b + n
        PROVE  \E c \in Chunks : p[c] # None /\ c <= x /\ x < c + q[c]
    BY <1>0, <1>2, <1>3, <2>3 DEF Chunks
  <2>4. ASSUME NEW c \in Chunks, p[c] # None, c <= x, x < c + q[c]
        PROVE  x \in v
    <3>1. CASE c = b
      <4>1. b <= x /\ x < b + n /\ x \in Nat
        BY <1>3, <2>4, <3>1 DEF Chunks
      <4>2. CASE x < b + k
        BY <1>1, <2>1, <4>1, <4>2 DEF Registered, k
      <4>3. QED
        BY <1>2, <2>1, <4>1, <4>2
    <3>2. CASE c # b
      BY <1>1, <1>3, <2>1, <2>4, <3>2 DEF Registered
    <3>3. QED
      BY <3>1, <3>2
  <2>5. QED
    BY <2>1, <2>2, <2>3, <2>4
<1>9. QED
  BY <1>4, <1>6, <1>7, <1>8 DEF Layout, k, v, p, q

(* A block can lose chunks at its end.                                     *)
LEMMA ShrinkBlock ==
    ASSUME NEW u, NEW o, NEW s, Layout(u, o, s), NEW t \in Threads,
           NEW b \in Chunks, o[b] # None, NEW n \in Nat, n >= 2, n < s[b]
    PROVE  Layout(u \ (b + n .. b + s[b] - 1),
                  [o EXCEPT ![b] = t], [s EXCEPT ![b] = n])
<1> DEFINE k == s[b]
           v == u \ (b + n .. b + k - 1)
           p == [o EXCEPT ![b] = t]
           q == [s EXCEPT ![b] = n]
<1>0. N \in Nat /\ t # None
  BY PoolAssumption, NoneAssumption
<1>1. Shaped(u, o, s) /\ Fits(o, s) /\ Apart(o, s) /\ Registered(u, o, s)
  BY DEF Layout
<1>2. k \in Nat /\ b \in Nat /\ n < k /\ b + k <= N
  BY <1>1 DEF Shaped, Fits, Chunks
<1>3. /\ p[b] = t /\ q[b] = n
      /\ \A c \in Chunks : c # b => p[c] = o[c] /\ q[c] = s[c]
  BY <1>1 DEF Shaped
<1>4. Shaped(v, p, q)
  BY <1>0, <1>1, <1>2 DEF Shaped, Chunks
<1>5. \A c \in Chunks : o[c] # None /\ c # b =>
         /\ s[c] \in Nat /\ c \in Nat
         /\ c + s[c] <= b \/ b + k <= c
  BY <1>1 DEF Shaped, Apart, Chunks
<1> HIDE DEF k, v, p, q
<1>6. Fits(p, q)
  <2>1. q[b] >= 2 /\ b + q[b] <= N
    BY <1>0, <1>2, <1>3
  <2>2. QED
    BY <1>1, <1>3, <2>1 DEF Fits
<1>7. Apart(p, q)
  BY <1>1, <1>2, <1>3, <1>5 DEF Apart
<1>8. Registered(v, p, q)
  <2> SUFFICES ASSUME NEW x \in Chunks
               PROVE  x \in v <=> \E c \in Chunks : p[c] # None /\ c <= x /\ x < c + q[c]
    BY DEF Registered
  <2>1. (x \in v <=> x \in u /\ (x < b + n \/ b + k <= x)) /\ x \in Nat
    BY <1>0, <1>2 DEF v, Chunks
  <2>2. ASSUME x \in v
        PROVE  \E c \in Chunks : p[c] # None /\ c <= x /\ x < c + q[c]
    <3>1. PICK c \in Chunks : o[c] # None /\ c <= x /\ x < c + s[c]
      BY <1>1, <2>1, <2>2 DEF Registered
    <3>2. p[c] # None /\ x < c + q[c]
      BY <1>0, <1>2, <1>3, <2>1, <2>2, <3>1 DEF k, Chunks
    <3>3. QED
      BY <3>1, <3>2
  <2>3. ASSUME NEW c \in Chunks, p[c] # None, c <= x, x < c + q[c]
        PROVE  x \in v
    <3>1. CASE c = b
      <4>1. b <= x /\ x < b + n
        BY <1>3, <2>3, <3>1
      <4>2. o[b] # None /\ x < b + s[b]
        BY <1>2, <2>1, <4>1 DEF k
      <4>3. x \in u
        BY <1>1, <4>1, <4>2 DEF Registered
      <4>4. QED
        BY <2>1, <4>1, <4>3
    <3>2. CASE c # b
      <4>1. o[c] # None /\ x < c + s[c]
        BY <1>3, <2>3, <3>2
      <4>2. x \in u
        BY <1>1, <2>3, <4>1 DEF Registered
      <4>3. QED
        BY <1>2, <1>5, <2>1, <2>3, <3>2, <4>1, <4>2
    <3>3. QED
      BY <3>1, <3>2
  <2>4. QED
    BY <2>2, <2>3
<1>9. QED
  BY <1>4, <1>6, <1>7, <1>8 DEF Layout, k, v, p, q

(* A block can be freed.                                                   *)
LEMMA FreeBlock ==
    ASSUME NEW u, NEW o, NEW s, Layout(u, o, s), NEW b \in Chunks, o[b] # None
    PROVE  Layout(u \ (b .. b + s[b] - 1), [o EXCEPT ![b] = None], [s EXCEPT ![b] = 0])
<1> DEFINE k == s[b]
           v == u \ (b .. b + k - 1)
           p == [o EXCEPT ![b] = None]
           q == [s EXCEPT ![b] = 0]
<1>0. N \in Nat
  BY PoolAssumption
<1>1. Shaped(u, o, s) /\ Fits(o, s) /\ Apart(o, s) /\ Registered(u, o, s)
  BY DEF Layout
<1>2. k \in Nat /\ b \in Nat
  BY <1>1 DEF Shaped, Chunks
<1>3. /\ p[b] = None
      /\ \A c \in Chunks : c # b => p[c] = o[c] /\ q[c] = s[c]
  BY <1>1 DEF Shaped
<1>4. Shaped(v, p, q)
  BY <1>1 DEF Shaped
<1>5. \A c \in Chunks : o[c] # None /\ c # b =>
         /\ s[c] \in Nat /\ c \in Nat
         /\ c + s[c] <= b \/ b + k <= c
  BY <1>1 DEF Shaped, Apart, Chunks
<1> HIDE DEF k, v, p, q
<1>6. Fits(p, q)
  BY <1>1, <1>3 DEF Fits
<1>7. Apart(p, q)
  BY <1>1, <1>3 DEF Apart
<1>8. Registered(v, p, q)
  <2> SUFFICES ASSUME NEW x \in Chunks
               PROVE  x \in v <=> \E c \in Chunks : p[c] # None /\ c <= x /\ x < c + q[c]
    BY DEF Registered
  <2>1. (x \in v <=> x \in u /\ (x < b \/ b + k <= x)) /\ x \in Nat
    BY <1>0, <1>2 DEF v, Chunks
  <2>2. ASSUME x \in v
        PROVE  \E c \in Chunks : p[c] # None /\ c <= x /\ x < c + q[c]
    <3>1. PICK c \in Chunks : o[c] # None /\ c <= x /\ x < c + s[c]
      BY <1>1, <2>1, <2>2 DEF Registered
    <3>2. c # b
      BY <1>2, <2>1, <2>2, <3>1 DEF k
    <3>3. QED
      BY <1>3, <3>1, <3>2
  <2>3. ASSUME NEW c \in Chunks, p[c] # None, c <= x, x < c + q[c]
        PROVE  x \in v
    <3>1. c # b
      BY <1>3, <2>3
    <3>2. o[c] # None /\ x < c + s[c]
      BY <1>3, <2>3, <3>1
    <3>3. x \in u
      BY <1>1, <2>3, <3>2 DEF Registered
    <3>4. c \in Nat /\ s[c] \in Nat /\ (c + s[c] <= b \/ b + k <= c)
      BY <1>5, <3>1, <3>2
    <3>5. x < b \/ b + k <= x
      BY <1>2, <2>1, <2>3, <3>2, <3>4
    <3>6. QED
      BY <2>1, <3>3, <3>5
  <2>4. QED
    BY <2>2, <2>3
<1>9. QED
  BY <1>4, <1>6, <1>7, <1>8 DEF Layout, k, v, p, q

(* The initial states.                                                     *)
LEMMA InitIInv == ASSUME Init PROVE IInv
<1> USE NoneAssumption, PoolAssumption DEF Init
<1>1. TypeOK
  BY DEF TypeOK, Chunks, Places, ScanState, NoScan
<1>2. ScansAgree /\ CallsAgree
  BY DEF ScansAgree, ScanAgrees, CallsAgree, CallAgrees, Scanning, OnBlock
<1>3. BlocksKept /\ GuardExact
  BY DEF BlocksKept, Layout, Shaped, Fits, Apart, Registered, GuardExact
<1>4. QED
  BY <1>1, <1>2, <1>3 DEF IInv

-----------------------------------------------------------------------------
(* The types of what the steps assign.                                     *)
LEMMA Types ==
    /\ 0 \in Chunks /\ NoScan \in ScanState
    /\ \A c \in Chunks :
          [start |-> c, obtained |-> 0, candidate |-> c, current |-> c] \in ScanState
    /\ \A n \in Sizes : n + 1 \in Nat
    /\ \A c \in Chunks, n \in Nat : c + n <= N => c .. c + n - 1 \subseteq Chunks
BY PoolAssumption, SizesAssumption DEF Chunks, NoScan, ScanState

(* The steps of t that give and take no memory.                            *)
LEMMA NoBlockChanges ==
    ASSUME IInv, NEW t \in Threads,
           UNCHANGED <<used, guard, users>>,
           \A u \in Threads \ {t} :
              /\ pc'[u] = pc[u] /\ block'[u] = block[u] /\ requested'[u] = requested[u]
              /\ current'[u] = current[u] /\ scan'[u] = scan[u]
              /\ mutex = u => mutex' = u,
           pc[t] # "writeGuard", pc'[t] # "writeGuard",
           ScanAgrees(t)', CallAgrees(t)'
    PROVE  ScansAgree' /\ CallsAgree' /\ BlocksKept' /\ GuardExact'
<1>1. ScansAgree'
  <2> SUFFICES ASSUME NEW u \in Threads \ {t} PROVE ScanAgrees(u)'
    BY DEF ScansAgree
  <2>1. ScanAgrees(u)
    BY DEF IInv, ScansAgree
  <2>2. QED
    BY <2>1 DEF ScanAgrees, Wanted
<1>2. CallsAgree'
  <2> SUFFICES ASSUME NEW u \in Threads \ {t} PROVE CallAgrees(u)'
    BY DEF CallsAgree
  <2>1. CallAgrees(u)
    BY DEF IInv, CallsAgree
  <2>2. QED
    BY <2>1 DEF CallAgrees, users
<1>3. BlocksKept'
  BY DEF IInv, BlocksKept, Layout, Shaped, Fits, Apart, Registered, users
<1>4. GuardExact'
  <2> SUFFICES ASSUME NEW u \in Threads, NEW c \in Chunks, owner'[c] = u,
                      pc'[u] = "writeGuard" => block'[u] # c
               PROVE  guard'[c] = size'[c] - 1
    BY DEF GuardExact
  <2>1. QED
    BY DEF IInv, GuardExact, users
<1>5. QED
  BY <1>1, <1>2, <1>3, <1>4

(* The steps of t that do, while no other thread searches.                 *)
LEMMA OthersKept ==
    ASSUME IInv, NEW t \in Threads, mutex = None \/ mutex = t,
           \A u \in Threads \ {t} :
              /\ pc'[u] = pc[u] /\ block'[u] = block[u]
              /\ requested'[u] = requested[u] /\ current'[u] = current[u],
           \A c \in Chunks : owner[c] # None /\ owner[c] # t =>
              owner'[c] = owner[c] /\ size'[c] = size[c] /\ guard'[c] = guard[c],
           \A c \in Chunks : owner'[c] # None /\ owner'[c] # t => owner[c] = owner'[c],
           pc'[t] \notin Scanning \cup {"restart"},
           CallAgrees(t)',
           \A c \in Chunks :
              owner'[c] = t /\ (pc'[t] = "writeGuard" => block'[t] # c)
                 => guard'[c] = size'[c] - 1
    PROVE  ScansAgree' /\ CallsAgree' /\ GuardExact'
<1>1. ASSUME NEW u \in Threads \ {t}
      PROVE  pc[u] \notin Scanning \cup {"restart"}
  BY <1>1, NoneAssumption DEF IInv, ScansAgree, ScanAgrees
<1>2. ScansAgree'
  <2> SUFFICES ASSUME NEW u \in Threads PROVE pc'[u] \notin Scanning \cup {"restart"}
    BY DEF ScansAgree, ScanAgrees
  <2>1. QED
    BY <1>1
<1>3. CallsAgree'
  <2> SUFFICES ASSUME NEW u \in Threads \ {t} PROVE CallAgrees(u)'
    BY DEF CallsAgree
  <2>1. CallAgrees(u) /\ block[u] \in Chunks
    BY DEF IInv, CallsAgree, TypeOK
  <2>2. owner[block[u]] = u =>
           owner'[block[u]] = u /\ size'[block[u]] = size[block[u]]
    BY <2>1, NoneAssumption
  <2>3. QED
    BY <2>1, <2>2 DEF CallAgrees
<1>4. GuardExact'
  <2> SUFFICES ASSUME NEW u \in Threads, NEW c \in Chunks, owner'[c] = u,
                      pc'[u] = "writeGuard" => block'[u] # c
               PROVE  guard'[c] = size'[c] - 1
    BY DEF GuardExact
  <2>1. CASE u = t
    BY <2>1
  <2>2. CASE u # t
    <3>1. owner[c] = u /\ (pc[u] = "writeGuard" => block[u] # c) /\ u # None
      BY <2>2, NoneAssumption
    <3>2. guard[c] = size[c] - 1
      BY <3>1 DEF IInv, GuardExact
    <3>3. QED
      BY <2>2, <3>1, <3>2
  <2>3. QED
    BY <2>1, <2>2
<1>5. QED
  BY <1>2, <1>3, <1>4

(* smp_malloc begins.                                                      *)
LEMMA MallocStep ==
    ASSUME IInv, NEW t \in Threads, NEW n \in Sizes, Malloc(t, n)
    PROVE  IInv'
<1> USE DEF Malloc, Go, Return, EndScan, BeginScan
<1>1. TypeOK'
  BY Types, NoneAssumption DEF IInv, TypeOK, Places, Locking, Scanning, pool, users
<1>2. ScanAgrees(t)'
  BY DEF IInv, TypeOK, ScanAgrees, Scanning
<1>3. CallAgrees(t)'
  BY SizesAssumption DEF IInv, TypeOK, CallsAgree, CallAgrees, OnBlock
<1>4. \A u \in Threads \ {t} :
         /\ pc'[u] = pc[u] /\ block'[u] = block[u] /\ requested'[u] = requested[u]
         /\ current'[u] = current[u] /\ scan'[u] = scan[u]
         /\ mutex = u => mutex' = u
  BY NoneAssumption DEF IInv, TypeOK, ScansAgree, ScanAgrees, Scanning, pool
<1>5. /\ UNCHANGED <<used, guard, users>>
      /\ pc[t] # "writeGuard" /\ pc'[t] # "writeGuard"
  BY DEF IInv, TypeOK, pool, Scanning
<1> HIDE DEF Malloc
<1>6. QED
  BY <1>1, <1>2, <1>3, <1>4, <1>5, NoBlockChanges DEF IInv

(* Its search begins.                                                      *)
LEMMA LockMallocStep ==
    ASSUME IInv, NEW t \in Threads, LockMalloc(t)
    PROVE  IInv'
<1> USE DEF LockMalloc, Go, Return, EndScan, BeginScan
<1>1. TypeOK'
  BY Types, NoneAssumption DEF IInv, TypeOK, Places, Locking, Scanning, pool, users
<1>2. ScanAgrees(t)'
  <2>1. /\ scan'[t] = [start |-> cursor, obtained |-> 0, candidate |-> cursor, current |-> cursor]
        /\ pc'[t] \in Scanning /\ mutex' = t
    BY DEF IInv, TypeOK, ScansAgree, ScanAgrees, Scanning, pool
  <2>2. scan'[t].candidate = cursor /\ scan'[t].obtained = 0 /\ scan'[t].current = cursor
    BY <2>1
  <2>3. cursor \in Nat /\ 0 < Wanted(t)'
    BY PoolAssumption DEF IInv, TypeOK, Chunks, CallsAgree, CallAgrees, OnBlock, Wanted
  <2>4. QED
    BY <2>1, <2>2, <2>3 DEF ScanAgrees, Chunks
<1>3. CallAgrees(t)'
  BY DEF IInv, TypeOK, CallsAgree, CallAgrees, OnBlock, Scanning, users, pool
<1>4. \A u \in Threads \ {t} :
         /\ pc'[u] = pc[u] /\ block'[u] = block[u] /\ requested'[u] = requested[u]
         /\ current'[u] = current[u] /\ scan'[u] = scan[u]
         /\ mutex = u => mutex' = u
  BY NoneAssumption DEF IInv, TypeOK, ScansAgree, ScanAgrees, Scanning, pool
<1>5. /\ UNCHANGED <<used, guard, users>>
      /\ pc[t] # "writeGuard" /\ pc'[t] # "writeGuard"
  BY DEF IInv, TypeOK, pool, Scanning
<1> HIDE DEF LockMalloc
<1>6. QED
  BY <1>1, <1>2, <1>3, <1>4, <1>5, NoBlockChanges DEF IInv

(* It finds no room.                                                       *)
LEMMA MallocFailsStep ==
    ASSUME IInv, NEW t \in Threads, MallocFails(t)
    PROVE  IInv'
<1> USE DEF MallocFails, Go, Return, EndScan, BeginScan
<1>1. TypeOK'
  BY Types, NoneAssumption DEF IInv, TypeOK, Places, Locking, Scanning, pool, users
<1>2. ScanAgrees(t)'
  BY DEF IInv, TypeOK, ScanAgrees, Scanning
<1>3. CallAgrees(t)'
  BY DEF IInv, TypeOK, CallsAgree, CallAgrees, OnBlock, Scanning, users, pool
<1>4. \A u \in Threads \ {t} :
         /\ pc'[u] = pc[u] /\ block'[u] = block[u] /\ requested'[u] = requested[u]
         /\ current'[u] = current[u] /\ scan'[u] = scan[u]
         /\ mutex = u => mutex' = u
  BY NoneAssumption DEF IInv, TypeOK, ScansAgree, ScanAgrees, Scanning, pool
<1>5. /\ UNCHANGED <<used, guard, users>>
      /\ pc[t] # "writeGuard" /\ pc'[t] # "writeGuard"
  BY DEF IInv, TypeOK, pool, Scanning
<1> HIDE DEF MallocFails
<1>6. QED
  BY <1>1, <1>2, <1>3, <1>4, <1>5, NoBlockChanges DEF IInv

(* smp_realloc begins.                                                     *)
LEMMA ReallocStep ==
    ASSUME IInv, NEW t \in Threads, NEW c \in Chunks, NEW n \in Sizes, Realloc(t, c, n)
    PROVE  IInv'
<1> USE DEF Realloc, Go, Return, EndScan, BeginScan
<1>1. TypeOK'
  BY Types, NoneAssumption DEF IInv, TypeOK, Places, Locking, Scanning, pool, users
<1>2. ScanAgrees(t)'
  BY DEF IInv, TypeOK, ScanAgrees, Scanning
<1>3. CallAgrees(t)'
  <2>1. size[c] \in Nat /\ size[c] >= 2 /\ guard[c] = size[c] - 1
    BY NoneAssumption DEF IInv, TypeOK, BlocksKept, Layout, Fits, GuardExact
  <2>2. QED
    BY <2>1, SizesAssumption DEF IInv, TypeOK, CallsAgree, CallAgrees, OnBlock, users
<1>4. \A u \in Threads \ {t} :
         /\ pc'[u] = pc[u] /\ block'[u] = block[u] /\ requested'[u] = requested[u]
         /\ current'[u] = current[u] /\ scan'[u] = scan[u]
         /\ mutex = u => mutex' = u
  BY NoneAssumption DEF IInv, TypeOK, ScansAgree, ScanAgrees, Scanning, pool
<1>5. /\ UNCHANGED <<used, guard, users>>
      /\ pc[t] # "writeGuard" /\ pc'[t] # "writeGuard"
  BY DEF IInv, TypeOK, pool, Scanning
<1> HIDE DEF Realloc
<1>6. QED
  BY <1>1, <1>2, <1>3, <1>4, <1>5, NoBlockChanges DEF IInv

(* It moves the cursor, under way or not what others search.               *)
LEMMA SetCursorStep ==
    ASSUME IInv, NEW t \in Threads, SetCursor(t)
    PROVE  IInv'
<1> USE DEF SetCursor, Go, Return, EndScan, BeginScan
<1>1. TypeOK'
  <2>1. /\ owner[block[t]] = t /\ block[t] \in Chunks
    BY DEF IInv, TypeOK, CallsAgree, CallAgrees, OnBlock
  <2>2. block[t] + 1 \in Chunks
    BY <2>1, NoneAssumption, PoolAssumption
       DEF IInv, BlocksKept, Layout, Shaped, Fits, Chunks
  <2>3. QED
    BY <2>2 DEF IInv, TypeOK, Places, Locking, users
<1>2. ScanAgrees(t)'
  BY DEF IInv, TypeOK, ScanAgrees, Scanning
<1>3. CallAgrees(t)'
  BY DEF IInv, TypeOK, CallsAgree, CallAgrees, OnBlock, Scanning, users, pool
<1>4. \A u \in Threads \ {t} :
         /\ pc'[u] = pc[u] /\ block'[u] = block[u] /\ requested'[u] = requested[u]
         /\ current'[u] = current[u] /\ scan'[u] = scan[u]
         /\ mutex = u => mutex' = u
  BY NoneAssumption DEF IInv, TypeOK, ScansAgree, ScanAgrees, Scanning, pool
<1>5. /\ UNCHANGED <<used, guard, users>>
      /\ pc[t] # "writeGuard" /\ pc'[t] # "writeGuard"
  BY DEF IInv, TypeOK, pool, Scanning
<1> HIDE DEF SetCursor
<1>6. QED
  BY <1>1, <1>2, <1>3, <1>4, <1>5, NoBlockChanges DEF IInv

(* Its first search begins.                                                *)
LEMMA LockExtendStep ==
    ASSUME IInv, NEW t \in Threads, LockExtend(t)
    PROVE  IInv'
<1> USE DEF LockExtend, Go, Return, EndScan, BeginScan
<1>1. TypeOK'
  BY Types, NoneAssumption DEF IInv, TypeOK, Places, Locking, Scanning, pool, users
<1>2. ScanAgrees(t)'
  <2>1. /\ scan'[t] = [start |-> cursor, obtained |-> 0, candidate |-> cursor, current |-> cursor]
        /\ pc'[t] \in Scanning /\ mutex' = t
    BY DEF IInv, TypeOK, ScansAgree, ScanAgrees, Scanning, pool
  <2>2. scan'[t].candidate = cursor /\ scan'[t].obtained = 0 /\ scan'[t].current = cursor
    BY <2>1
  <2>3. cursor \in Nat /\ 0 < Wanted(t)'
    BY PoolAssumption DEF IInv, TypeOK, Chunks, CallsAgree, CallAgrees, OnBlock, Wanted
  <2>4. QED
    BY <2>1, <2>2, <2>3 DEF ScanAgrees, Chunks
<1>3. CallAgrees(t)'
  BY DEF IInv, TypeOK, CallsAgree, CallAgrees, OnBlock, Scanning, users, pool
<1>4. \A u \in Threads \ {t} :
         /\ pc'[u] = pc[u] /\ block'[u] = block[u] /\ requested'[u] = requested[u]
         /\ current'[u] = current[u] /\ scan'[u] = scan[u]
         /\ mutex = u => mutex' = u
  BY NoneAssumption DEF IInv, TypeOK, ScansAgree, ScanAgrees, Scanning, pool
<1>5. /\ UNCHANGED <<used, guard, users>>
      /\ pc[t] # "writeGuard" /\ pc'[t] # "writeGuard"
  BY DEF IInv, TypeOK, pool, Scanning
<1> HIDE DEF LockExtend
<1>6. QED
  BY <1>1, <1>2, <1>3, <1>4, <1>5, NoBlockChanges DEF IInv

(* It finds no room for the difference.                                    *)
LEMMA ExtendFailsStep ==
    ASSUME IInv, NEW t \in Threads, ExtendFails(t)
    PROVE  IInv'
<1> USE DEF ExtendFails, Go, Return, EndScan, BeginScan
<1>1. TypeOK'
  BY Types, NoneAssumption DEF IInv, TypeOK, Places, Locking, Scanning, pool, users
<1>2. ScanAgrees(t)'
  BY DEF IInv, TypeOK, ScanAgrees, Scanning
<1>3. CallAgrees(t)'
  BY DEF IInv, TypeOK, CallsAgree, CallAgrees, OnBlock, Scanning, users, pool
<1>4. \A u \in Threads \ {t} :
         /\ pc'[u] = pc[u] /\ block'[u] = block[u] /\ requested'[u] = requested[u]
         /\ current'[u] = current[u] /\ scan'[u] = scan[u]
         /\ mutex = u => mutex' = u
  BY NoneAssumption DEF IInv, TypeOK, ScansAgree, ScanAgrees, Scanning, pool
<1>5. /\ UNCHANGED <<used, guard, users>>
      /\ pc[t] # "writeGuard" /\ pc'[t] # "writeGuard"
  BY DEF IInv, TypeOK, pool, Scanning
<1> HIDE DEF ExtendFails
<1>6. QED
  BY <1>1, <1>2, <1>3, <1>4, <1>5, NoBlockChanges DEF IInv

(* The room that it finds is somewhere else.                               *)
LEMMA MoveInsteadStep ==
    ASSUME IInv, NEW t \in Threads, MoveInstead(t)
    PROVE  IInv'
<1> USE DEF MoveInstead, Go, Return, EndScan, BeginScan
<1>1. TypeOK'
  <2>1. Found(t) \in Chunks
    BY Search DEF ScanFinds, Scanning
  <2>2. QED
    BY <2>1, Types DEF IInv, TypeOK, Places, users
<1>2. ScanAgrees(t)'
  BY DEF IInv, TypeOK, ScansAgree, ScanAgrees, Scanning
<1>3. CallAgrees(t)'
  BY DEF IInv, TypeOK, CallsAgree, CallAgrees, OnBlock, Scanning, users, pool
<1>4. \A u \in Threads \ {t} :
         /\ pc'[u] = pc[u] /\ block'[u] = block[u] /\ requested'[u] = requested[u]
         /\ current'[u] = current[u] /\ scan'[u] = scan[u]
         /\ mutex = u => mutex' = u
  BY NoneAssumption DEF IInv, TypeOK, ScansAgree, ScanAgrees, Scanning, pool
<1>5. /\ UNCHANGED <<used, guard, users>>
      /\ pc[t] # "writeGuard" /\ pc'[t] # "writeGuard"
  BY DEF IInv, TypeOK, pool, Scanning
<1> HIDE DEF MoveInstead
<1>6. QED
  BY <1>1, <1>2, <1>3, <1>4, <1>5, NoBlockChanges DEF IInv

(* Its second search begins.                                               *)
LEMMA RestartStep ==
    ASSUME IInv, NEW t \in Threads, Restart(t)
    PROVE  IInv'
<1> USE DEF Restart, Go, Return, EndScan, BeginScan
<1>1. TypeOK'
  BY Types, NoneAssumption DEF IInv, TypeOK, Places, Locking, Scanning, pool, users
<1>2. ScanAgrees(t)'
  <2>1. /\ scan'[t] = [start |-> cursor, obtained |-> 0, candidate |-> cursor, current |-> cursor]
        /\ pc'[t] \in Scanning /\ mutex' = t
    BY DEF IInv, TypeOK, ScansAgree, ScanAgrees, Scanning, pool
  <2>2. scan'[t].candidate = cursor /\ scan'[t].obtained = 0 /\ scan'[t].current = cursor
    BY <2>1
  <2>3. cursor \in Nat /\ 0 < Wanted(t)'
    BY PoolAssumption DEF IInv, TypeOK, Chunks, CallsAgree, CallAgrees, OnBlock, Wanted
  <2>4. QED
    BY <2>1, <2>2, <2>3 DEF ScanAgrees, Chunks
<1>3. CallAgrees(t)'
  BY DEF IInv, TypeOK, CallsAgree, CallAgrees, OnBlock, Scanning, users, pool
<1>4. \A u \in Threads \ {t} :
         /\ pc'[u] = pc[u] /\ block'[u] = block[u] /\ requested'[u] = requested[u]
         /\ current'[u] = current[u] /\ scan'[u] = scan[u]
         /\ mutex = u => mutex' = u
  BY NoneAssumption DEF IInv, TypeOK, ScansAgree, ScanAgrees, Scanning, pool
<1>5. /\ UNCHANGED <<used, guard, users>>
      /\ pc[t] # "writeGuard" /\ pc'[t] # "writeGuard"
  BY DEF IInv, TypeOK, pool, Scanning
<1> HIDE DEF Restart
<1>6. QED
  BY <1>1, <1>2, <1>3, <1>4, <1>5, NoBlockChanges DEF IInv

(* It finds no room to move to.                                            *)
LEMMA MoveFailsStep ==
    ASSUME IInv, NEW t \in Threads, MoveFails(t)
    PROVE  IInv'
<1> USE DEF MoveFails, Go, Return, EndScan, BeginScan
<1>1. TypeOK'
  BY Types, NoneAssumption DEF IInv, TypeOK, Places, Locking, Scanning, pool, users
<1>2. ScanAgrees(t)'
  BY DEF IInv, TypeOK, ScanAgrees, Scanning
<1>3. CallAgrees(t)'
  BY DEF IInv, TypeOK, CallsAgree, CallAgrees, OnBlock, Scanning, users, pool
<1>4. \A u \in Threads \ {t} :
         /\ pc'[u] = pc[u] /\ block'[u] = block[u] /\ requested'[u] = requested[u]
         /\ current'[u] = current[u] /\ scan'[u] = scan[u]
         /\ mutex = u => mutex' = u
  BY NoneAssumption DEF IInv, TypeOK, ScansAgree, ScanAgrees, Scanning, pool
<1>5. /\ UNCHANGED <<used, guard, users>>
      /\ pc[t] # "writeGuard" /\ pc'[t] # "writeGuard"
  BY DEF IInv, TypeOK, pool, Scanning
<1> HIDE DEF MoveFails
<1>6. QED
  BY <1>1, <1>2, <1>3, <1>4, <1>5, NoBlockChanges DEF IInv

(* smp_free begins.                                                        *)
LEMMA FreeStep ==
    ASSUME IInv, NEW t \in Threads, NEW c \in Chunks, Free(t, c)
    PROVE  IInv'
<1> USE DEF Free, Go, Return, EndScan, BeginScan
<1>1. TypeOK'
  BY Types, NoneAssumption DEF IInv, TypeOK, Places, Locking, Scanning, pool, users
<1>2. ScanAgrees(t)'
  BY DEF IInv, TypeOK, ScanAgrees, Scanning
<1>3. CallAgrees(t)'
  <2>1. size[c] \in Nat /\ size[c] >= 2 /\ guard[c] = size[c] - 1
    BY NoneAssumption DEF IInv, TypeOK, BlocksKept, Layout, Fits, GuardExact
  <2>2. QED
    BY <2>1 DEF IInv, TypeOK, CallsAgree, CallAgrees, OnBlock, users
<1>4. \A u \in Threads \ {t} :
         /\ pc'[u] = pc[u] /\ block'[u] = block[u] /\ requested'[u] = requested[u]
         /\ current'[u] = current[u] /\ scan'[u] = scan[u]
         /\ mutex = u => mutex' = u
  BY NoneAssumption DEF IInv, TypeOK, ScansAgree, ScanAgrees, Scanning, pool
<1>5. /\ UNCHANGED <<used, guard, users>>
      /\ pc[t] # "writeGuard" /\ pc'[t] # "writeGuard"
  BY DEF IInv, TypeOK, pool, Scanning
<1> HIDE DEF Free
<1>6. QED
  BY <1>1, <1>2, <1>3, <1>4, <1>5, NoBlockChanges DEF IInv

(* A search goes on.                                                       *)
LEMMA GoOnStep ==
    ASSUME IInv, NEW t \in Threads, GoOn(t)
    PROVE  IInv'
<1> USE DEF GoOn, Go, Return, EndScan, BeginScan
<1>1. TypeOK'
  <2>1. Iteration(t) \in ScanState
    BY Search
  <2>2. QED
    BY <2>1 DEF IInv, TypeOK, users, pool
<1>2. ScanAgrees(t)'
  <2>1. Iteration(t).obtained < Wanted(t)
    BY Search DEF ScanFinds, ScanState
  <2>2. /\ scan'[t] = Iteration(t) /\ Wanted(t)' = Wanted(t)
        /\ pc'[t] = pc[t] /\ UNCHANGED <<mutex, used>>
    BY DEF IInv, TypeOK, Wanted, pool
  <2>3. mutex = t
    BY DEF IInv, ScansAgree, ScanAgrees
  <2>4. QED
    BY <2>1, <2>2, <2>3, Search DEF ScanAgrees
<1>3. CallAgrees(t)'
  BY DEF IInv, CallsAgree, CallAgrees, users
<1>4. \A u \in Threads \ {t} :
         /\ pc'[u] = pc[u] /\ block'[u] = block[u] /\ requested'[u] = requested[u]
         /\ current'[u] = current[u] /\ scan'[u] = scan[u]
         /\ mutex = u => mutex' = u
  BY NoneAssumption DEF IInv, TypeOK, ScansAgree, ScanAgrees, Scanning, pool
<1>5. /\ UNCHANGED <<used, guard, users>>
      /\ pc[t] # "writeGuard" /\ pc'[t] # "writeGuard"
  BY DEF IInv, TypeOK, pool, Scanning
<1> HIDE DEF GoOn
<1>6. QED
  BY <1>1, <1>2, <1>3, <1>4, <1>5, NoBlockChanges DEF IInv

(* It finds room.                                                          *)
LEMMA MallocFindsStep ==
    ASSUME IInv, NEW t \in Threads, MallocFinds(t)
    PROVE  IInv'
<1> USE DEF MallocFinds, Go, Return, EndScan, Give
<1> DEFINE f == Found(t)
           n == requested[t]
<1>1. pc[t] # "writeGuard" /\ t # None /\ pc'[t] = "writeGuard"
  BY NoneAssumption DEF IInv, TypeOK
<1>2. /\ f \in Chunks /\ n \in Nat /\ n >= 2 /\ f + n <= N
      /\ \A x \in Chunks : f <= x /\ x < f + n => x \notin used
      /\ Iteration(t).current \in Chunks
  <2>1. Wanted(t) = n /\ n \in Nat /\ n >= 2 /\ pc[t] \in Scanning
    BY DEF Wanted, Scanning, IInv, TypeOK, CallsAgree, CallAgrees
  <2>2. Iteration(t).obtained >= Wanted(t)
    BY DEF ScanFinds
  <2>3. QED
    BY <2>1, <2>2, Search DEF ScanState
<1>3. \A c \in Chunks : owner[c] # None => c # f
  BY <1>2, FreeIsApart DEF IInv, BlocksKept
<1>4. /\ owner'[f] = t /\ size'[f] = n /\ guard' = guard
      /\ \A c \in Chunks : c # f => owner'[c] = owner[c] /\ size'[c] = size[c]
      /\ block'[t] = f /\ requested'[t] = n
  BY <1>2 DEF IInv, TypeOK
<1>15. AllocChunks(f, n) = f .. f + n - 1
  BY <1>2, AllocatesAll DEF Chunks
<1>5. TypeOK'
  <2>1. AllocChunks(f, n) \subseteq Chunks
    BY <1>2, <1>15, Types
  <2>2. QED
    BY <1>1, <1>2, <2>1, Types DEF IInv, TypeOK, Places
<1>6. BlocksKept'
  <2>2. Layout(used \cup (f .. f + n - 1), [owner EXCEPT ![f] = t], [size EXCEPT ![f] = n])
    BY <1>2, AddBlock DEF IInv, BlocksKept
  <2>3. used' = used \cup (f .. f + n - 1)
        /\ owner' = [owner EXCEPT ![f] = t] /\ size' = [size EXCEPT ![f] = n]
    BY <1>15
  <2>4. QED
    BY <2>2, <2>3 DEF BlocksKept
<1>7. CallAgrees(t)'
  BY <1>1, <1>2, <1>3, <1>4, <1>5 DEF CallAgrees, OnBlock
<1>8. \A u \in Threads \ {t} :
         /\ pc'[u] = pc[u] /\ block'[u] = block[u]
         /\ requested'[u] = requested[u] /\ current'[u] = current[u]
  BY DEF IInv, TypeOK
<1>9. /\ mutex = None \/ mutex = t
      /\ pc'[t] \notin Scanning \cup {"restart"}
  BY DEF IInv, TypeOK, ScansAgree, ScanAgrees, Scanning
<1> HIDE DEF MallocFinds
<1>10. \A c \in Chunks : owner[c] # None /\ owner[c] # t =>
          owner'[c] = owner[c] /\ size'[c] = size[c] /\ guard'[c] = guard[c]
  BY <1>2, <1>3, <1>4, NoneAssumption
<1>11. \A c \in Chunks : owner'[c] # None /\ owner'[c] # t => owner[c] = owner'[c]
  BY <1>2, <1>3, <1>4, NoneAssumption
<1>12. \A c \in Chunks :
          owner'[c] = t /\ (pc'[t] = "writeGuard" => block'[t] # c)
             => guard'[c] = size'[c] - 1
  <2>1. \A c \in Chunks : owner[c] = t => guard[c] = size[c] - 1
    BY <1>1 DEF IInv, GuardExact
  <2>2. QED
    BY <1>1, <1>4, <2>1
<1>13. ScansAgree' /\ CallsAgree' /\ GuardExact'
  BY <1>7, <1>8, <1>9, <1>10, <1>11, <1>12, OthersKept
<1>14. QED
  BY <1>5, <1>6, <1>13 DEF IInv

(* The chunks that the extension needs follow the block.                   *)
LEMMA ExtendInPlaceStep ==
    ASSUME IInv, NEW t \in Threads, ExtendInPlace(t)
    PROVE  IInv'
<1> USE DEF ExtendInPlace, Go, Return, EndScan, Give
<1> DEFINE b == block[t]
           k == current[t]
           n == requested[t]
<1>1. pc[t] # "writeGuard" /\ t # None /\ pc'[t] = "writeGuard"
  BY NoneAssumption DEF IInv, TypeOK
<1>2. /\ b \in Chunks /\ owner[b] = t /\ size[b] = k /\ k \in Nat /\ n \in Nat /\ n > k
  BY DEF IInv, TypeOK, CallsAgree, CallAgrees, OnBlock
<1>3. /\ b + k \in Chunks /\ b + n <= N
      /\ \A x \in Chunks : b + k <= x /\ x < b + n => x \notin used
      /\ Iteration(t).current \in Chunks
  <2>1. Wanted(t) = n - k /\ pc[t] \in Scanning /\ Found(t) = b + k
    BY DEF Wanted, Scanning, FoundAdjacent
  <2>2. Iteration(t).obtained >= Wanted(t)
    BY DEF ScanFinds
  <2>3. /\ b + k \in Chunks /\ b + k + (n - k) <= N
        /\ \A x \in Chunks : b + k <= x /\ x < b + k + (n - k) => x \notin used
        /\ Iteration(t).current \in Chunks
    BY <2>1, <2>2, Search DEF ScanState
  <2>4. b + k + (n - k) = b + n
    BY <1>2 DEF Chunks
  <2>5. QED
    BY <2>3, <2>4
<1>4. /\ owner'[b] = t /\ size'[b] = n /\ guard' = guard
      /\ \A c \in Chunks : c # b => owner'[c] = owner[c] /\ size'[c] = size[c]
      /\ block'[t] = b /\ requested'[t] = n
  BY <1>2 DEF IInv, TypeOK
<1> DEFINE more == b + k .. b + n - 1
<1>15. AllocChunks(b + k, n - k) = more
  <2>1. PICK d \in Nat : d = n - k
    BY <1>2
  <2>2. AllocChunks(b + k, d) = b + k .. b + k + d - 1
    BY <1>2, <1>3, AllocatesAll DEF Chunks
  <2>3. b + k + d - 1 = b + n - 1
    BY <1>2, <2>1 DEF Chunks
  <2>4. AllocChunks(b + k, n - k) = AllocChunks(b + k, d)
    BY <2>1
  <2> HIDE DEF b, k, n
  <2>5. QED
    BY <2>2, <2>3, <2>4
<1>16. used' = used \cup more
  BY <1>15 DEF FoundAdjacent
<1>5. TypeOK'
  <2>1. more \subseteq Chunks
    BY <1>2, <1>3, PoolAssumption DEF Chunks
  <2> HIDE DEF more
  <2>2. used' \subseteq Chunks
    BY <1>16, <2>1 DEF IInv, TypeOK
  <2>3. QED
    BY <1>1, <1>2, <1>3, <2>2, Types DEF IInv, TypeOK, Places
<1>6. BlocksKept'
  <2>1. Layout(used \cup (b + k .. b + n - 1), [owner EXCEPT ![b] = t], [size EXCEPT ![b] = n])
    BY <1>1, <1>2, <1>3, GrowBlock DEF IInv, BlocksKept
  <2>2. owner' = [owner EXCEPT ![b] = t] /\ size' = [size EXCEPT ![b] = n]
    OBVIOUS
  <2>3. QED
    BY <1>16, <2>1, <2>2 DEF BlocksKept
<1>7. CallAgrees(t)'
  BY <1>1, <1>2, <1>3, <1>4, <1>5 DEF CallAgrees, OnBlock
<1>8. \A u \in Threads \ {t} :
         /\ pc'[u] = pc[u] /\ block'[u] = block[u]
         /\ requested'[u] = requested[u] /\ current'[u] = current[u]
  BY DEF IInv, TypeOK
<1>9. /\ mutex = None \/ mutex = t
      /\ pc'[t] \notin Scanning \cup {"restart"}
  BY DEF IInv, TypeOK, ScansAgree, ScanAgrees, Scanning
<1> HIDE DEF ExtendInPlace
<1>10. \A c \in Chunks : owner[c] # None /\ owner[c] # t =>
          owner'[c] = owner[c] /\ size'[c] = size[c] /\ guard'[c] = guard[c]
  BY <1>2, <1>3, <1>4, NoneAssumption
<1>11. \A c \in Chunks : owner'[c] # None /\ owner'[c] # t => owner[c] = owner'[c]
  BY <1>2, <1>3, <1>4, NoneAssumption
<1>12. \A c \in Chunks :
          owner'[c] = t /\ (pc'[t] = "writeGuard" => block'[t] # c)
             => guard'[c] = size'[c] - 1
  <2>1. \A c \in Chunks : owner[c] = t => guard[c] = size[c] - 1
    BY <1>1 DEF IInv, GuardExact
  <2>2. QED
    BY <1>1, <1>4, <2>1
<1>13. ScansAgree' /\ CallsAgree' /\ GuardExact'
  BY <1>7, <1>8, <1>9, <1>10, <1>11, <1>12, OthersKept
<1>14. QED
  BY <1>5, <1>6, <1>13 DEF IInv

(* smp_realloc of a smaller block.                                         *)
LEMMA ShrinkStep ==
    ASSUME IInv, NEW t \in Threads, Shrink(t)
    PROVE  IInv'
<1> USE DEF Shrink, Go, Return, EndScan, Give
<1> DEFINE b == block[t]
           k == current[t]
           n == requested[t]
<1>1. pc[t] # "writeGuard" /\ t # None /\ pc'[t] = "writeGuard"
  BY NoneAssumption DEF IInv, TypeOK
<1>2. /\ b \in Chunks /\ owner[b] = t /\ size[b] = k /\ k \in Nat /\ n \in Nat
      /\ n >= 2 /\ n < k
  BY DEF IInv, TypeOK, CallsAgree, CallAgrees, OnBlock
<1>3. AllocChunks(b + n, k - n) = b + n .. b + k - 1
  <2>1. PICK d \in Nat : d = k - n
    BY <1>2
  <2>2. b + n \in Nat
    BY <1>2 DEF Chunks
  <2>3. AllocChunks(b + n, d) = b + n .. b + n + d - 1
    BY <2>2, AllocatesAll
  <2>4. b + n + d - 1 = b + k - 1
    BY <1>2, <2>1 DEF Chunks
  <2>5. AllocChunks(b + n, k - n) = AllocChunks(b + n, d)
    BY <2>1
  <2> HIDE DEF b, k, n
  <2>6. QED
    BY <2>3, <2>4, <2>5
<1>4. /\ owner'[b] = t /\ size'[b] = n /\ guard' = guard
      /\ \A c \in Chunks : c # b => owner'[c] = owner[c] /\ size'[c] = size[c]
      /\ block'[t] = b /\ requested'[t] = n
  BY <1>2 DEF IInv, TypeOK
<1>5. TypeOK'
  BY <1>2, NoneAssumption DEF IInv, TypeOK, Places
<1>6. BlocksKept'
  <2>1. Layout(used \ (b + n .. b + k - 1), [owner EXCEPT ![b] = t], [size EXCEPT ![b] = n])
    BY <1>1, <1>2, ShrinkBlock DEF IInv, BlocksKept
  <2>2. /\ used' = used \ (b + n .. b + k - 1)
        /\ owner' = [owner EXCEPT ![b] = t] /\ size' = [size EXCEPT ![b] = n]
    BY <1>3
  <2>3. QED
    BY <2>1, <2>2 DEF BlocksKept
<1>7. CallAgrees(t)'
  BY <1>1, <1>2, <1>3, <1>4, <1>5 DEF CallAgrees, OnBlock
<1>8. \A u \in Threads \ {t} :
         /\ pc'[u] = pc[u] /\ block'[u] = block[u]
         /\ requested'[u] = requested[u] /\ current'[u] = current[u]
  BY DEF IInv, TypeOK
<1>9. /\ mutex = None \/ mutex = t
      /\ pc'[t] \notin Scanning \cup {"restart"}
  BY DEF IInv, TypeOK, ScansAgree, ScanAgrees, Scanning
<1> HIDE DEF Shrink
<1>10. \A c \in Chunks : owner[c] # None /\ owner[c] # t =>
          owner'[c] = owner[c] /\ size'[c] = size[c] /\ guard'[c] = guard[c]
  BY <1>2, <1>3, <1>4, NoneAssumption
<1>11. \A c \in Chunks : owner'[c] # None /\ owner'[c] # t => owner[c] = owner'[c]
  BY <1>2, <1>3, <1>4, NoneAssumption
<1>12. \A c \in Chunks :
          owner'[c] = t /\ (pc'[t] = "writeGuard" => block'[t] # c)
             => guard'[c] = size'[c] - 1
  <2>1. \A c \in Chunks : owner[c] = t => guard[c] = size[c] - 1
    BY <1>1 DEF IInv, GuardExact
  <2>2. QED
    BY <1>1, <1>4, <2>1
<1>13. ScansAgree' /\ CallsAgree' /\ GuardExact'
  BY <1>7, <1>8, <1>9, <1>10, <1>11, <1>12, OthersKept
<1>14. QED
  BY <1>5, <1>6, <1>13 DEF IInv

(* smp_free.                                                               *)
LEMMA FreeChunksStep ==
    ASSUME IInv, NEW t \in Threads, FreeChunks(t)
    PROVE  IInv'
<1> USE DEF FreeChunks, Go, Return, EndScan, Give
<1> DEFINE b == block[t]
           n == requested[t]
<1>1. pc[t] # "writeGuard" /\ t # None /\ pc'[t] = "idle"
  BY NoneAssumption DEF IInv, TypeOK
<1>2. b \in Chunks /\ owner[b] = t /\ size[b] = n /\ n \in Nat
  BY DEF IInv, TypeOK, CallsAgree, CallAgrees
<1>3. AllocChunks(b, n) = b .. b + n - 1
  BY <1>2, AllocatesAll DEF Chunks
<1>4. /\ owner'[b] = None
      /\ \A c \in Chunks : c # b =>
            owner'[c] = owner[c] /\ size'[c] = size[c] /\ guard'[c] = guard[c]
  BY <1>2 DEF IInv, TypeOK
<1>5. TypeOK'
  BY <1>2, Types, NoneAssumption DEF IInv, TypeOK, Places
<1>6. BlocksKept'
  <2>1. Layout(used \ (b .. b + n - 1), [owner EXCEPT ![b] = None], [size EXCEPT ![b] = 0])
    BY <1>1, <1>2, FreeBlock DEF IInv, BlocksKept
  <2>2. /\ used' = used \ (b .. b + n - 1)
        /\ owner' = [owner EXCEPT ![b] = None] /\ size' = [size EXCEPT ![b] = 0]
    BY <1>3
  <2>3. QED
    BY <2>1, <2>2 DEF BlocksKept
<1>7. CallAgrees(t)'
  BY <1>1, <1>2, <1>3, <1>4, <1>5 DEF CallAgrees, OnBlock
<1>8. \A u \in Threads \ {t} :
         /\ pc'[u] = pc[u] /\ block'[u] = block[u]
         /\ requested'[u] = requested[u] /\ current'[u] = current[u]
  BY DEF IInv, TypeOK
<1>9. /\ mutex = None \/ mutex = t
      /\ pc'[t] \notin Scanning \cup {"restart"}
  BY DEF IInv, TypeOK, ScansAgree, ScanAgrees, Scanning
<1> HIDE DEF FreeChunks
<1>10. \A c \in Chunks : owner[c] # None /\ owner[c] # t =>
          owner'[c] = owner[c] /\ size'[c] = size[c] /\ guard'[c] = guard[c]
  BY <1>2, <1>3, <1>4, NoneAssumption
<1>11. \A c \in Chunks : owner'[c] # None /\ owner'[c] # t => owner[c] = owner'[c]
  BY <1>2, <1>3, <1>4, NoneAssumption
<1>12. \A c \in Chunks :
          owner'[c] = t /\ (pc'[t] = "writeGuard" => block'[t] # c)
             => guard'[c] = size'[c] - 1
  <2>1. \A c \in Chunks : owner[c] = t => guard[c] = size[c] - 1
    BY <1>1 DEF IInv, GuardExact
  <2>2. QED
    BY <1>1, <1>4, <2>1
<1>13. ScansAgree' /\ CallsAgree' /\ GuardExact'
  BY <1>7, <1>8, <1>9, <1>10, <1>11, <1>12, OthersKept
<1>14. QED
  BY <1>5, <1>6, <1>13 DEF IInv

(* The block moves to the room that was found.                             *)
LEMMA MoveFindsStep ==
    ASSUME IInv, NEW t \in Threads, MoveFinds(t)
    PROVE  IInv'
<1> USE DEF MoveFinds, Go, Return, EndScan, Give
<1> DEFINE f == Found(t)
           b == block[t]
           k == current[t]
           n == requested[t]
<1>1. pc[t] # "writeGuard" /\ t # None /\ pc'[t] = "writeGuard"
  BY NoneAssumption DEF IInv, TypeOK
<1>2. /\ b \in Chunks /\ owner[b] = t /\ size[b] = k /\ k \in Nat /\ n \in Nat /\ n > k
      /\ k >= 2
  BY NoneAssumption DEF IInv, TypeOK, CallsAgree, CallAgrees, OnBlock, BlocksKept, Layout, Fits
<1>15. /\ f \in Chunks /\ f + n <= N /\ n >= 2
       /\ \A x \in Chunks : f <= x /\ x < f + n => x \notin used
       /\ Iteration(t).current \in Chunks
  <2>1. Wanted(t) = n /\ pc[t] \in Scanning
    BY DEF Wanted, Scanning
  <2>2. Iteration(t).obtained >= Wanted(t)
    BY DEF ScanFinds
  <2>3. QED
    BY <1>2, <2>1, <2>2, Search DEF ScanState
<1>3. (\A c \in Chunks : owner[c] # None => c # f) /\ b # f
  <2>1. \A c \in Chunks : owner[c] # None => c # f
    BY <1>2, <1>15, FreeIsApart DEF IInv, BlocksKept
  <2>2. QED
    BY <1>1, <1>2, <2>1
<1>4. /\ owner'[f] = t /\ size'[f] = n /\ owner'[b] = None
      /\ \A c \in Chunks : c # f /\ c # b => owner'[c] = owner[c] /\ size'[c] = size[c]
      /\ \A c \in Chunks : c # b => guard'[c] = guard[c]
      /\ block'[t] = f /\ requested'[t] = n
  BY <1>2, <1>3, <1>15 DEF IInv, TypeOK
<1>16. /\ AllocChunks(f, n) = f .. f + n - 1
       /\ AllocChunks(b, k) = b .. b + k - 1
  <2>1. f \in Nat /\ b \in Nat /\ n \in Nat /\ k \in Nat
    BY <1>2, <1>15 DEF Chunks
  <2> HIDE DEF f, b, n, k
  <2>2. QED
    BY <2>1, AllocatesAll
<1> DEFINE new == f .. f + n - 1
           old == b .. b + k - 1
<1>17. used' = (used \cup new) \ old
  BY <1>16
<1>5. TypeOK'
  <2>1. new \subseteq Chunks
    BY <1>2, <1>15, Types
  <2> HIDE DEF new, old
  <2>2. used' \subseteq Chunks
    BY <1>17, <2>1 DEF IInv, TypeOK
  <2>3. QED
    BY <1>1, <1>2, <1>15, <2>2, Types DEF IInv, TypeOK, Places
<1>6. BlocksKept'
  <2> DEFINE o == [owner EXCEPT ![f] = t]
             s == [size EXCEPT ![f] = n]
  <2>1. Layout(used \cup new, o, s)
    BY <1>2, <1>15, AddBlock DEF IInv, BlocksKept
  <2>2. o[b] # None /\ s[b] = k
    BY <1>1, <1>2, <1>3 DEF IInv, TypeOK
  <2>3. /\ owner' = [o EXCEPT ![b] = None] /\ size' = [s EXCEPT ![b] = 0]
    BY <1>2, <1>3, <1>15 DEF IInv, TypeOK
  <2> HIDE DEF o, s, new
  <2>4. Layout((used \cup new) \ (b .. b + s[b] - 1), [o EXCEPT ![b] = None], [s EXCEPT ![b] = 0])
    BY <1>2, <2>1, <2>2, FreeBlock
  <2>5. QED
    BY <1>17, <2>2, <2>3, <2>4 DEF BlocksKept
<1>7. CallAgrees(t)'
  BY <1>1, <1>2, <1>3, <1>4, <1>5 DEF CallAgrees, OnBlock
<1>8. \A u \in Threads \ {t} :
         /\ pc'[u] = pc[u] /\ block'[u] = block[u]
         /\ requested'[u] = requested[u] /\ current'[u] = current[u]
  BY DEF IInv, TypeOK
<1>9. /\ mutex = None \/ mutex = t
      /\ pc'[t] \notin Scanning \cup {"restart"}
  BY DEF IInv, TypeOK, ScansAgree, ScanAgrees, Scanning
<1> HIDE DEF MoveFinds
<1>10. \A c \in Chunks : owner[c] # None /\ owner[c] # t =>
          owner'[c] = owner[c] /\ size'[c] = size[c] /\ guard'[c] = guard[c]
  BY <1>2, <1>3, <1>4, NoneAssumption
<1>11. \A c \in Chunks : owner'[c] # None /\ owner'[c] # t => owner[c] = owner'[c]
  BY <1>2, <1>3, <1>4, NoneAssumption
<1>12. \A c \in Chunks :
          owner'[c] = t /\ (pc'[t] = "writeGuard" => block'[t] # c)
             => guard'[c] = size'[c] - 1
  <2>1. \A c \in Chunks : owner[c] = t => guard[c] = size[c] - 1
    BY <1>1 DEF IInv, GuardExact
  <2>2. QED
    BY <1>1, <1>4, <2>1
<1>13. ScansAgree' /\ CallsAgree' /\ GuardExact'
  BY <1>7, <1>8, <1>9, <1>10, <1>11, <1>12, OthersKept
<1>14. QED
  BY <1>5, <1>6, <1>13 DEF IInv

(* The guard is written.                                                   *)
LEMMA WriteGuardStep ==
    ASSUME IInv, NEW t \in Threads, WriteGuard(t)
    PROVE  IInv'
<1> USE DEF WriteGuard, Go, Return
<1> DEFINE b == block[t]
<1>1. /\ b \in Chunks /\ owner[b] = t /\ size[b] = requested[t] /\ t # None
      /\ size[b] \in Nat /\ size[b] >= 2
  BY NoneAssumption DEF IInv, TypeOK, CallsAgree, CallAgrees, BlocksKept, Layout, Fits
<1>2. TypeOK'
  <2>1. requested[t] - 1 \in Nat
    BY <1>1
  <2>2. QED
    BY <1>1, <2>1, Types DEF IInv, TypeOK, Places, users
<1>3. ScansAgree'
  <2> SUFFICES ASSUME NEW u \in Threads PROVE ScanAgrees(u)'
    BY DEF ScansAgree
  <2>1. CASE u = t
    BY <2>1 DEF IInv, TypeOK, ScanAgrees, Scanning
  <2>2. CASE u # t
    BY <2>2 DEF IInv, TypeOK, ScansAgree, ScanAgrees, Wanted
  <2>3. QED
    BY <2>1, <2>2
<1>4. CallsAgree'
  <2> SUFFICES ASSUME NEW u \in Threads PROVE CallAgrees(u)'
    BY DEF CallsAgree
  <2>1. CASE u = t
    BY <2>1 DEF IInv, TypeOK, CallAgrees, OnBlock
  <2>2. CASE u # t
    BY <2>2 DEF IInv, TypeOK, CallsAgree, CallAgrees, users
  <2>3. QED
    BY <2>1, <2>2
<1>5. BlocksKept'
  BY DEF IInv, BlocksKept, Layout, Shaped, Fits, Apart, Registered, users
<1>6. GuardExact'
  <2> SUFFICES ASSUME NEW u \in Threads, NEW c \in Chunks, owner'[c] = u,
                      pc'[u] = "writeGuard" => block'[u] # c
               PROVE  guard'[c] = size'[c] - 1
    BY DEF GuardExact
  <2>1. CASE c = b
    BY <1>1, <2>1 DEF IInv, TypeOK, users
  <2>2. CASE c # b
    <3>1. guard'[c] = guard[c] /\ size'[c] = size[c] /\ owner[c] = u
      BY <1>1, <2>2 DEF IInv, TypeOK, users
    <3>2. pc[u] = "writeGuard" => block[u] # c
      BY <2>2 DEF IInv, TypeOK
    <3>3. QED
      BY <3>1, <3>2 DEF IInv, GuardExact
  <2>3. QED
    BY <2>1, <2>2
<1>7. QED
  BY <1>2, <1>3, <1>4, <1>5, <1>6 DEF IInv

-----------------------------------------------------------------------------
(* What does not change a variable changes nothing that is asserted.       *)
LEMMA Stutter == ASSUME IInv, UNCHANGED vars PROVE IInv'
<1>1. TypeOK' /\ ScansAgree' /\ CallsAgree'
  BY DEF IInv, TypeOK, ScansAgree, ScanAgrees, CallsAgree, CallAgrees, Wanted,
         vars, pool, users, calls
<1>2. BlocksKept' /\ GuardExact'
  BY DEF IInv, BlocksKept, Layout, Shaped, Fits, Apart, Registered, GuardExact,
         vars, pool, users, calls
<1>3. QED
  BY <1>1, <1>2 DEF IInv

(* Every step of the pool keeps the invariant.                             *)
LEMMA NextIInv == ASSUME IInv, [Next]_vars PROVE IInv'
<1>1. ASSUME NEW t \in Threads, Call(t)
      PROVE  IInv'
  <2>1. ASSUME NEW n \in Sizes, Malloc(t, n)
        PROVE  IInv'
    BY <2>1, MallocStep
  <2>2. ASSUME NEW c \in Chunks, NEW n \in Sizes, Realloc(t, c, n)
        PROVE  IInv'
    BY <2>2, ReallocStep
  <2>3. ASSUME NEW c \in Chunks, Free(t, c)
        PROVE  IInv'
    BY <2>3, FreeStep
  <2>4. QED
    BY <1>1, <2>1, <2>2, <2>3 DEF Call
<1>2. ASSUME NEW t \in Threads, Step(t)
      PROVE  IInv'
  BY <1>2, GoOnStep, LockMallocStep, MallocFailsStep, MallocFindsStep, WriteGuardStep,
     SetCursorStep, LockExtendStep, ExtendFailsStep, ExtendInPlaceStep, MoveInsteadStep,
     RestartStep, MoveFailsStep, MoveFindsStep, ShrinkStep, FreeChunksStep DEF Step
<1>3. CASE UNCHANGED vars
  BY <1>3, Stutter
<1>4. QED
  BY <1>1, <1>2, <1>3 DEF Next

(* The blocks as sets of chunks.                                           *)
LEMMA LayoutApart == ASSUME IInv PROVE NoOverlap
<1>1. /\ Shaped(used, owner, size) /\ Fits(owner, size)
      /\ Apart(owner, size) /\ Registered(used, owner, size)
  BY DEF IInv, BlocksKept, Layout
<1>2. ASSUME NEW c \in Blocks, NEW d \in Blocks, c # d
      PROVE  Extent(c) \cap Extent(d) = {}
  <2>1. /\ c \in Nat /\ d \in Nat /\ size[c] \in Nat /\ size[d] \in Nat
        /\ c + size[c] <= d \/ d + size[d] <= c
    BY <1>1, <1>2 DEF Shaped, Apart, Blocks, Chunks
  <2>2. QED
    BY <2>1 DEF Extent
<1>3. used = UNION {Extent(c) : c \in Blocks}
  <2>1. ASSUME NEW x \in used
        PROVE  \E c \in Blocks : x \in Extent(c)
    <3>1. x \in Chunks
      BY <1>1 DEF Shaped
    <3>2. PICK c \in Chunks : owner[c] # None /\ c <= x /\ x < c + size[c]
      BY <1>1, <3>1 DEF Registered
    <3>3. size[c] \in Nat
      BY <1>1 DEF Shaped
    <3>4. QED
      BY <3>1, <3>2, <3>3 DEF Blocks, Extent, Chunks
  <2>2. ASSUME NEW c \in Blocks, NEW x \in Extent(c)
        PROVE  x \in used
    <3>1. c \in Chunks /\ owner[c] # None /\ size[c] \in Nat /\ c + size[c] <= N
      BY <1>1 DEF Shaped, Fits, Blocks
    <3>2. x \in Chunks /\ c <= x /\ x < c + size[c]
      BY <3>1, PoolAssumption DEF Extent, Chunks
    <3>3. QED
      BY <1>1, <3>1, <3>2 DEF Registered
  <2>3. QED
    BY <2>1, <2>2
<1>4. QED
  BY <1>2, <1>3 DEF NoOverlap

(* The invariant of the pool, in every reachable state                     *)
(* (shared_memory_pool.c:111-420).                                         *)
THEOREM Invariance == Spec => []IInv
<1>1. Init => IInv
  BY InitIInv
<1>2. IInv /\ [Next]_vars => IInv'
  BY NextIInv
<1>3. QED
  BY <1>1, <1>2, PTL DEF Spec

(* The variables keep their types: the cursor, in particular, never leaves *)
(* the pool (shared_memory_pool.c:223).                                    *)
THEOREM TypeCorrect == Spec => []TypeOK
<1>1. IInv => TypeOK
  BY DEF IInv
<1>2. QED
  BY <1>1, Invariance, PTL

(* No chunk is given out twice and none is lost, for pools of any size and *)
(* any number of threads that move the cursor during each other's searches *)
(* (shared_memory_pool.c:162-168, 218-254).                                *)
THEOREM AlwaysNoOverlap == Spec => []NoOverlap
<1>1. IInv => NoOverlap
  BY LayoutApart
<1>2. QED
  BY <1>1, Invariance, PTL

(* Whoever reads the guard of a block reads the block's length             *)
(* (shared_memory_pool.c:195, 205, 272).                                   *)
THEOREM AlwaysGuardExact == Spec => []GuardExact
<1>1. IInv => GuardExact
  BY DEF IInv
<1>2. QED
  BY <1>1, Invariance, PTL

-----------------------------------------------------------------------------
(* What a search passed over.                                              *)

(* No n free chunks within from .. to - 1.                                 *)
NoRoomIn(n, from, to) ==
    \A c \in Chunks : from <= c /\ c + n <= to =>
        \E x \in used : c <= x /\ x < c + n

(* What a search has in its hands begins where it started or came round,   *)
(* or after a chunk that is used; there is no room in what it passed.      *)
SweptTo(s, n) ==
    \/ /\ s.start <= s.candidate
       /\ s.candidate = s.start \/ s.candidate - 1 \in used
       /\ NoRoomIn(n, s.start, s.current)
    \/ /\ s.candidate = 0 \/ s.candidate - 1 \in used
       /\ NoRoomIn(n, s.start, N)
       /\ NoRoomIn(n, 0, s.current)

(* A search gets past the place where it started only while the cursor is  *)
(* elsewhere.  The cursor does not come back meanwhile: it is moved to     *)
(* behind a chunk that is used.                                            *)
WentPast(s) == s.candidate < s.start /\ s.start <= s.current

Swept(t) ==
    pc[t] \in Scanning =>
        /\ SweptTo(scan[t], Wanted(t))
        /\ WentPast(scan[t]) => ~hoisted /\ cursor # scan[t].start
Sweeps == \A t \in Threads : Swept(t)

LEMMA NoRoomInMore ==
    ASSUME NEW n \in Nat \ {0}, NEW from \in Nat, NEW k \in Nat, NEW o \in Nat,
           k + o \in Chunks, used \subseteq Chunks, NoRoomIn(n, from, k + o),
           k = from \/ k - 1 \in used, k + o \in used \/ o + 1 < n
    PROVE  NoRoomIn(n, from, k + o + 1)
<1> SUFFICES ASSUME NEW c \in Chunks, from <= c, c + n <= k + o + 1
             PROVE  \E x \in used : c <= x /\ x < c + n
  BY DEF NoRoomIn
<1>0. c \in Nat
  BY PoolAssumption DEF Chunks
<1>1. CASE c + n <= k + o
  BY <1>1 DEF NoRoomIn
<1>2. CASE c + n = k + o + 1 /\ k + o \in used
  BY <1>0, <1>2
<1>3. CASE c + n = k + o + 1 /\ o + 1 < n
  <2>1. c <= k - 1 /\ k - 1 < c + n
    BY <1>0, <1>3
  <2> QED
    BY <1>0, <2>1
<1> QED
  BY <1>0, <1>1, <1>2, <1>3

LEMMA NoRoomInNothing ==
    ASSUME NEW n \in Nat \ {0}, NEW from \in Nat
    PROVE  NoRoomIn(n, from, from)
BY PoolAssumption DEF NoRoomIn, Chunks

(* An iteration that finds nothing yet goes on with the sweep.             *)
LEMMA IterationSweeps ==
    ASSUME IInv, NEW t \in Threads, pc[t] \in Scanning,
           SweptTo(scan[t], Wanted(t)), Iteration(t).obtained < Wanted(t)
    PROVE  SweptTo(Iteration(t), Wanted(t))
<1> DEFINE s == scan[t]
           i == Iteration(t)
           w == Wanted(t)
<1>1. N \in Nat /\ N > 0 /\ used \subseteq Chunks
  BY PoolAssumption DEF IInv, TypeOK
<1>2. /\ s.start \in Chunks /\ s.current \in Chunks
      /\ s.obtained \in Nat /\ s.candidate \in Nat /\ w \in Nat \ {0}
      /\ s.candidate + s.obtained = s.current /\ s.obtained < w
  BY ScanParts, Search DEF IInv, ScansAgree, ScanAgrees
<1>3. /\ i.start = s.start
      /\ i.current = IF s.current + 1 >= N THEN 0 ELSE s.current + 1
      /\ s.current \notin used /\ ~(s.current + 1 >= N /\ s.obtained + 1 < w) =>
            i.obtained = s.obtained + 1 /\ i.candidate = s.candidate
      /\ s.current \in used /\ s.current + 1 < N =>
            i.obtained = 0 /\ i.candidate = s.current + 1
      /\ s.current + 1 >= N /\ (s.current \in used \/ s.obtained + 1 < w) =>
            i.obtained = 0 /\ i.candidate = 0
  BY <1>2, IterationParts DEF IInv
<1>4. SweptTo(s, w) /\ i.obtained < w
  OBVIOUS
<1> SUFFICES SweptTo(i, w)
  OBVIOUS
<1> HIDE DEF s, i, w
<1>5. s.current \in used \/ s.obtained + 1 < w
  BY <1>2, <1>3, <1>4
<1>6. /\ s.start \in Nat /\ 0 \in Nat
      /\ s.current + 1 >= N => s.current + 1 = N
  BY <1>1, <1>2 DEF Chunks
<1>7. ASSUME NEW from \in Nat, NoRoomIn(w, from, s.current),
             s.candidate = from \/ s.candidate - 1 \in used
      PROVE  NoRoomIn(w, from, s.current + 1)
  <2>1. NoRoomIn(w, from, s.candidate + s.obtained)
    BY <1>2, <1>7
  <2>2. s.candidate + s.obtained \in Chunks
    BY <1>2
  <2>3. s.candidate + s.obtained \in used \/ s.obtained + 1 < w
    BY <1>2, <1>5
  <2>4. NoRoomIn(w, from, s.candidate + s.obtained + 1)
    BY <1>1, <1>2, <1>7, <2>1, <2>2, <2>3, NoRoomInMore
  <2> QED
    BY <1>2, <2>4
<1>8. NoRoomIn(w, 0, 0)
  BY <1>2, NoRoomInNothing
<1>9. s.current + 1 >= N => i.candidate = 0
  BY <1>3, <1>5
<1>10. s.current + 1 < N =>
         \/ i.candidate = s.candidate
         \/ i.candidate - 1 \in used /\ i.candidate = s.candidate + s.obtained + 1
  <2>1. s.current \in Nat /\ s.current + 1 - 1 = s.current
    BY <1>1, <1>2 DEF Chunks
  <2> QED
    BY <1>1, <1>2, <1>3, <1>5, <2>1 DEF Chunks
<1>11. CASE /\ s.start <= s.candidate
            /\ s.candidate = s.start \/ s.candidate - 1 \in used
            /\ NoRoomIn(w, s.start, s.current)
  <2>1. NoRoomIn(w, s.start, s.current + 1)
    BY <1>6, <1>7, <1>11
  <2>2. CASE s.current + 1 >= N
    BY <1>1, <1>3, <1>6, <1>8, <1>9, <2>1, <2>2 DEF SweptTo, Chunks
  <2>3. CASE s.current + 1 < N
    BY <1>1, <1>2, <1>3, <1>6, <1>10, <1>11, <2>1, <2>3 DEF SweptTo, Chunks
  <2> QED
    BY <1>1, <1>2, <2>2, <2>3 DEF Chunks
<1>12. CASE /\ s.candidate = 0 \/ s.candidate - 1 \in used
            /\ NoRoomIn(w, s.start, N)
            /\ NoRoomIn(w, 0, s.current)
  <2>1. NoRoomIn(w, 0, s.current + 1)
    BY <1>6, <1>7, <1>12
  <2>2. CASE s.current + 1 >= N
    BY <1>1, <1>2, <1>3, <1>8, <1>9, <1>12, <2>2 DEF SweptTo, Chunks
  <2>3. CASE s.current + 1 < N
    BY <1>1, <1>2, <1>3, <1>10, <1>12, <2>1, <2>3 DEF SweptTo, Chunks
  <2> QED
    BY <1>1, <1>2, <2>2, <2>3 DEF Chunks
<1> QED
  BY <1>4, <1>11, <1>12 DEF SweptTo

(* What a step of another thread means for a search: the cursor may move.  *)
LEMMA OthersSteps ==
    ASSUME IInv, NEW t \in Threads, Call(t) \/ Step(t), NEW u \in Threads \ {t},
           pc'[u] \in Scanning
    PROVE  /\ pc[u] \in Scanning /\ scan'[u] = scan[u] /\ Wanted(u)' = Wanted(u)
           /\ used' = used /\ hoisted' = hoisted
           /\ cursor' = cursor \/ SetCursor(t)
<1>1. /\ pc'[u] = pc[u] /\ scan'[u] = scan[u] /\ requested'[u] = requested[u]
      /\ current'[u] = current[u]
  <2>1. CASE Call(t)
    BY <2>1 DEF IInv, TypeOK, Call, Malloc, Realloc, Free, Go
  <2>2. CASE GoOn(t)
    BY <2>2 DEF IInv, TypeOK, GoOn
  <2>3. CASE LockMalloc(t) \/ LockExtend(t) \/ Restart(t) \/ SetCursor(t) \/ MoveInstead(t)
    BY <2>3 DEF IInv, TypeOK, LockMalloc, LockExtend, Restart, SetCursor, MoveInstead,
                BeginScan, EndScan, Go
  <2>4. CASE MallocFails(t) \/ ExtendFails(t) \/ MoveFails(t) \/ WriteGuard(t)
    BY <2>4 DEF IInv, TypeOK, MallocFails, ExtendFails, MoveFails, WriteGuard,
                Return, EndScan, Go
  <2>5. CASE MallocFinds(t) \/ ExtendInPlace(t) \/ MoveFinds(t)
    BY <2>5 DEF IInv, TypeOK, MallocFinds, ExtendInPlace, MoveFinds, EndScan, Go
  <2>6. CASE Shrink(t) \/ FreeChunks(t)
    BY <2>6 DEF IInv, TypeOK, Shrink, FreeChunks, Return, Go
  <2> QED
    BY <2>1, <2>2, <2>3, <2>4, <2>5, <2>6 DEF Step
<1>2. pc[u] \in Scanning /\ ScanAgrees(u) /\ ScanAgrees(t)
  BY <1>1 DEF IInv, ScansAgree
<1>3. mutex = u
  BY <1>2 DEF ScanAgrees
<1>4. mutex # None /\ mutex # t
  BY <1>3, NoneAssumption
<1>5. pc[t] \notin Scanning \cup {"restart"}
  BY <1>2, <1>4 DEF ScanAgrees
<1>6. used' = used /\ (cursor' = cursor \/ SetCursor(t))
  BY <1>4, <1>5
  DEF Call, Malloc, Realloc, Free, Step, GoOn, LockMalloc, MallocFails, MallocFinds,
      WriteGuard, SetCursor, LockExtend, ExtendFails, ExtendInPlace, MoveInstead,
      Restart, MoveFails, MoveFinds, Shrink, FreeChunks, pool, Scanning
<1>7. hoisted' = hoisted
  BY DEF Call, Malloc, Realloc, Free, Step, GoOn, LockMalloc, MallocFails, MallocFinds,
      WriteGuard, SetCursor, LockExtend, ExtendFails, ExtendInPlace, MoveInstead,
      Restart, MoveFails, MoveFinds, Shrink, FreeChunks
<1>8. Wanted(u)' = Wanted(u)
  BY <1>1 DEF Wanted
<1> QED
  BY <1>1, <1>2, <1>6, <1>7, <1>8

(* A step of the thread itself is an iteration, or begins a search.        *)
LEMMA OwnSteps ==
    ASSUME IInv, NEW t \in Threads, Call(t) \/ Step(t), pc'[t] \in Scanning
    PROVE  \/ GoOn(t)
           \/ scan'[t] = [start |-> cursor, obtained |-> 0,
                          candidate |-> cursor, current |-> cursor]
<1>1. CASE LockMalloc(t) \/ LockExtend(t) \/ Restart(t)
  BY <1>1 DEF IInv, TypeOK, LockMalloc, LockExtend, Restart, BeginScan
<1>2. CASE Call(t)
  BY <1>2 DEF IInv, TypeOK, Call, Malloc, Realloc, Free, Go, Scanning
<1>3. CASE SetCursor(t) \/ MoveInstead(t) \/ MallocFinds(t) \/ ExtendInPlace(t)
             \/ MoveFinds(t) \/ Shrink(t)
  BY <1>3 DEF IInv, TypeOK, SetCursor, MoveInstead, MallocFinds, ExtendInPlace,
              MoveFinds, Shrink, Go, Scanning
<1>4. CASE MallocFails(t) \/ ExtendFails(t) \/ MoveFails(t) \/ WriteGuard(t)
             \/ FreeChunks(t)
  BY <1>4 DEF IInv, TypeOK, MallocFails, ExtendFails, MoveFails, WriteGuard,
              FreeChunks, Return, Go, Scanning
<1> QED
  BY <1>1, <1>2, <1>3, <1>4 DEF Step

(* No search gets past its start unless the cursor is elsewhere.           *)
LEMMA GoOnStaysBefore ==
    ASSUME IInv, NEW t \in Threads, GoOn(t), Swept(t), WentPast(Iteration(t))
    PROVE  ~hoisted /\ cursor # scan[t].start
<1> DEFINE s == scan[t]
           i == Iteration(t)
<1>1. /\ s.start \in Nat /\ s.current \in Nat /\ s.candidate \in Nat
      /\ s.candidate <= s.current /\ N \in Nat
  BY ScanParts, PoolAssumption DEF IInv, ScansAgree, ScanAgrees, GoOn, Chunks
<1>2. /\ i.start = s.start
      /\ \/ i.current = 0
         \/ i.current = s.current + 1 /\ i.candidate \in {s.candidate, i.current}
      /\ i.candidate \in Nat /\ i.current \in Nat
  BY <1>1, Search, IterationParts DEF IInv, GoOn, ScanState, Chunks
<1>3. i.candidate < s.start /\ s.start <= i.current
  BY <1>2 DEF WentPast
<1>4. i.current # IF hoisted THEN s.start ELSE cursor
  BY <1>2 DEF GoOn, ScanFails, AllScanned
<1>5. WentPast(s) => ~hoisted /\ cursor # s.start
  BY DEF Swept, GoOn
<1> SUFFICES ~hoisted /\ cursor # s.start
  OBVIOUS
<1> HIDE DEF s, i
<1>6. CASE i.current = s.start
  BY <1>4, <1>6
<1>7. CASE i.current # s.start
  <2>1. i.current = s.current + 1 /\ i.candidate = s.candidate
    BY <1>1, <1>2, <1>3, <1>7
  <2>2. WentPast(s)
    BY <1>1, <1>3, <1>7, <2>1 DEF WentPast
  <2> QED
    BY <1>5, <2>2
<1> QED
  BY <1>6, <1>7

(* Moving the cursor never makes a search that got past its start stop     *)
(* there: the cursor comes to lie behind a chunk of a block, and what is   *)
(* before that start is free.                                              *)
LEMMA CursorStaysAway ==
    ASSUME IInv, NEW t \in Threads, SetCursor(t), NEW u \in Threads,
           pc[u] \in Scanning, WentPast(scan[u])
    PROVE  cursor' # scan[u].start
<1> DEFINE b == block[t]
           s == scan[u]
<1>1. b \in Chunks /\ owner[b] = t /\ t # None
  BY NoneAssumption DEF IInv, TypeOK, CallsAgree, CallAgrees, OnBlock, SetCursor
<1>2. size[b] >= 2 /\ size[b] \in Nat /\ b \in Nat
  BY <1>1, PoolAssumption DEF IInv, TypeOK, BlocksKept, Layout, Fits, Chunks
<1>3. b \in used
  BY <1>1, <1>2 DEF IInv, BlocksKept, Layout, Registered
<1>4. \A x \in Chunks : s.candidate <= x /\ x < s.current => x \notin used
  BY DEF IInv, ScansAgree, ScanAgrees
<1>5. s.start \in Nat /\ s.current \in Nat /\ s.candidate \in Nat
  BY ScanParts, PoolAssumption DEF IInv, Chunks
<1>6. s.candidate < s.start /\ s.start <= s.current
  BY DEF WentPast
<1>7. cursor' = b + 1
  BY DEF SetCursor
<1> SUFFICES ASSUME b + 1 = s.start PROVE FALSE
  BY <1>7
<1> HIDE DEF b, s
<1>8. s.candidate <= b /\ b < s.current
  BY <1>2, <1>5, <1>6
<1> QED
  BY <1>1, <1>3, <1>4, <1>8

LEMMA SweepsStep == ASSUME IInv, Sweeps, [Next]_vars PROVE Sweeps'
<1> SUFFICES ASSUME NEW u \in Threads, pc'[u] \in Scanning
             PROVE  /\ SweptTo(scan[u], Wanted(u))'
                    /\ WentPast(scan'[u]) => ~hoisted' /\ cursor' # scan'[u].start
  BY DEF Sweeps, Swept
<1>1. CASE UNCHANGED vars
  <2>1. /\ pc[u] \in Scanning /\ scan'[u] = scan[u] /\ Wanted(u)' = Wanted(u)
        /\ used' = used /\ cursor' = cursor /\ hoisted' = hoisted
    BY <1>1 DEF vars, pool, calls, Wanted
  <2> QED
    BY <2>1 DEF Sweeps, Swept, SweptTo, NoRoomIn
<1>2. ASSUME NEW t \in Threads, Call(t) \/ Step(t)
      PROVE  /\ SweptTo(scan[u], Wanted(u))'
             /\ WentPast(scan'[u]) => ~hoisted' /\ cursor' # scan'[u].start
  <2>1. CASE u # t
    <3>1. /\ pc[u] \in Scanning /\ scan'[u] = scan[u] /\ Wanted(u)' = Wanted(u)
          /\ used' = used /\ hoisted' = hoisted
          /\ cursor' = cursor \/ SetCursor(t)
      BY <1>2, <2>1, OthersSteps
    <3>2. SweptTo(scan[u], Wanted(u))
      BY <3>1 DEF Sweeps, Swept
    <3>3. SweptTo(scan[u], Wanted(u))'
      BY <3>1, <3>2 DEF SweptTo, NoRoomIn
    <3>4. WentPast(scan[u]) => ~hoisted /\ cursor # scan[u].start
      BY <3>1 DEF Sweeps, Swept
    <3>5. SetCursor(t) /\ WentPast(scan[u]) => cursor' # scan[u].start
      BY <3>1, CursorStaysAway
    <3> QED
      BY <3>1, <3>3, <3>4, <3>5
  <2>2. CASE u = t /\ GoOn(t)
    <3>1. Swept(t) /\ pc[t] \in Scanning
      BY <2>2 DEF Sweeps, GoOn
    <3>2. /\ scan'[t] = Iteration(t) /\ Wanted(t)' = Wanted(t) /\ used' = used
          /\ cursor' = cursor /\ hoisted' = hoisted
      BY <2>2 DEF IInv, TypeOK, GoOn, Wanted, pool
    <3>3. Iteration(t).obtained < Wanted(t)
      BY <2>2, <3>1, Search DEF GoOn, ScanFinds, ScanState
    <3>4. SweptTo(Iteration(t), Wanted(t))
      BY <3>1, <3>3, IterationSweeps DEF Swept
    <3>5. SweptTo(scan[t], Wanted(t))'
      BY <3>2, <3>4 DEF SweptTo, NoRoomIn
    <3>6. Iteration(t).start = scan[t].start
      BY <3>1, Search, IterationParts DEF IInv
    <3>7. WentPast(Iteration(t)) => ~hoisted /\ cursor # scan[t].start
      BY <2>2, <3>1, GoOnStaysBefore
    <3> QED
      BY <2>2, <3>2, <3>5, <3>6, <3>7
  <2>3. CASE u = t /\ ~GoOn(t)
    <3>1. scan'[u] = [start |-> cursor, obtained |-> 0,
                      candidate |-> cursor, current |-> cursor]
      BY <1>2, <2>3, OwnSteps
    <3>2. IInv' /\ cursor \in Chunks
      BY NextIInv DEF IInv, TypeOK
    <3>3. Wanted(u)' \in Nat \ {0}
      <4>1. requested'[u] \in Nat /\ current'[u] \in Nat
        BY <3>2 DEF IInv, TypeOK
      <4>2. scan'[u].obtained < Wanted(u)'
        BY <3>2 DEF IInv, ScansAgree, ScanAgrees
      <4> QED
        BY <3>1, <4>1, <4>2 DEF Wanted
    <3>4. cursor \in Nat /\ N \in Nat
      BY <3>2, PoolAssumption DEF Chunks
    <3>5. \A c \in Chunks : ~(cursor <= c /\ c + Wanted(u)' <= cursor)
      BY <3>3, <3>4 DEF Chunks
    <3>6. SweptTo(scan[u], Wanted(u))'
      BY <3>1, <3>4, <3>5 DEF SweptTo, NoRoomIn
    <3>7. ~WentPast(scan'[u])
      BY <3>1, <3>4 DEF WentPast
    <3> QED
      BY <3>6, <3>7
  <2> QED
    BY <2>1, <2>2, <2>3
<1> QED
  BY <1>1, <1>2 DEF Next

LEMMA InitSweeps == ASSUME Init PROVE Sweeps
BY DEF Init, Sweeps, Swept, Scanning

LEMMA SweepInvariance == Spec => []Sweeps
<1>1. Init => Sweeps
  BY InitSweeps
<1>2. IInv /\ Sweeps /\ [Next]_vars => Sweeps'
  BY SweepsStep
<1>3. QED
  BY <1>1, <1>2, Invariance, PTL DEF Spec

-----------------------------------------------------------------------------
(* How far a chunk lies from the place where a search started.             *)
LEMMA Distance ==
    ASSUME NEW c \in Chunks, NEW from \in Chunks
    PROVE  (c - from + N) % N = IF c >= from THEN c - from ELSE c - from + N
<1>1. c \in Nat /\ from \in Nat /\ c < N /\ from < N /\ N \in Nat /\ N > 0
  BY PoolAssumption DEF Chunks
<1>2. CASE c >= from
  <2>1. c - from \in 0 .. N - 1
    BY <1>1, <1>2
  <2> QED
    BY <1>1, <1>2, <2>1
<1>3. CASE c < from
  <2>1. c - from + N \in 0 .. N - 1
    BY <1>1, <1>3
  <2> QED
    BY <1>1, <1>3, <2>1
<1> QED
  BY <1>1, <1>2, <1>3

(* Where a room ends, on the way round.                                    *)
LEMMA RoomEnd ==
    ASSUME NEW e \in Nat, e <= N
    PROVE  e % N = IF e = N THEN 0 ELSE e
BY PoolAssumption

(* Room for n chunks at c, in numbers.                                     *)
LEMMA Room ==
    ASSUME NEW c \in Chunks, NEW n \in Nat \ {0}, NEW from \in Chunks
    PROVE  RoomAt(c, n, from) <=>
              /\ c + n <= N
              /\ \A x \in Chunks : c <= x /\ x < c + n => x \notin used
              /\ (IF c + n = N THEN 0 ELSE c + n) # from
              /\ c >= from \/ c + n <= from
<1>1. c \in Nat /\ from \in Nat /\ N \in Nat /\ N > 0 /\ c < N
  BY PoolAssumption DEF Chunks
<1>2. c .. c + n - 1 \subseteq Chunks \ used <=>
         /\ c + n <= N
         /\ \A x \in Chunks : c <= x /\ x < c + n => x \notin used
  <2>1. ASSUME c .. c + n - 1 \subseteq Chunks \ used
        PROVE  c + n <= N
    <3>1. c + n - 1 \in Chunks
      BY <1>1, <2>1
    <3> QED
      BY <1>1, <3>1 DEF Chunks
  <2>2. ASSUME c .. c + n - 1 \subseteq Chunks \ used, NEW x \in Chunks,
               c <= x, x < c + n
        PROVE  x \notin used
    <3>1. x \in c .. c + n - 1
      BY <1>1, <2>2 DEF Chunks
    <3> QED
      BY <2>2, <3>1
  <2>3. ASSUME c + n <= N, NEW x \in c .. c + n - 1,
               \A y \in Chunks : c <= y /\ y < c + n => y \notin used
        PROVE  x \in Chunks \ used
    <3>1. x \in Chunks /\ c <= x /\ x < c + n
      BY <1>1, <2>3 DEF Chunks
    <3> QED
      BY <2>3, <3>1
  <2> QED
    BY <2>1, <2>2, <2>3
<1>3. c + n <= N => (c + n) % N = IF c + n = N THEN 0 ELSE c + n
  BY <1>1, RoomEnd
<1> QED
  BY <1>2, <1>3 DEF RoomAt

(* What was swept has no room.                                             *)
LEMMA RoomElsewhere ==
    ASSUME NEW c \in Chunks, NEW n \in Nat \ {0}, NEW from \in Chunks,
           used \subseteq Chunks, RoomAt(c, n, from),
           NEW a \in Nat, NEW b \in Nat, NoRoomIn(n, a, b)
    PROVE  ~(a <= c /\ c + n <= b)
BY Room DEF NoRoomIn

(* The chunk that is nearest on the way round from where the search began. *)
LEMMA Nearer ==
    ASSUME NEW c \in Chunks, NEW d \in Chunks, NEW from \in Chunks
    PROVE  /\ ~Before(c, d, from) =>
                 \/ from <= d /\ d < c
                 \/ from <= d /\ c < from
                 \/ d < c /\ c < from
           /\ Before(c, d, from) /\ Before(d, c, from) => c = d
<1>1. /\ c \in Nat /\ d \in Nat /\ from \in Nat /\ N \in Nat
      /\ c < N /\ d < N /\ from < N
  BY PoolAssumption DEF Chunks
<1>2. Before(c, d, from) <=>
         (IF c >= from THEN c - from ELSE c - from + N)
            <= (IF d >= from THEN d - from ELSE d - from + N)
  BY Distance DEF Before
<1>3. Before(d, c, from) <=>
         (IF d >= from THEN d - from ELSE d - from + N)
            <= (IF c >= from THEN c - from ELSE c - from + N)
  BY Distance DEF Before
<1> QED
  BY <1>1, <1>2, <1>3

(* A search that ends where it started, or finds something while its       *)
(* start can still stop it, ends as the first room says.                   *)
LEMMA EndsExactly ==
    ASSUME IInv, Sweeps, NEW t \in Threads, Undisturbed(t)
    PROVE  /\ ScanFinds(t) => FirstRoom(Wanted(t), scan[t].start) = {Found(t)}
           /\ ScanFails(t) => FirstRoom(Wanted(t), scan[t].start) = {}
<1> DEFINE s == scan[t]
           i == Iteration(t)
           w == Wanted(t)
<1>1. /\ s.start \in Chunks /\ s.current \in Chunks
      /\ s.obtained \in Nat /\ s.candidate \in Nat /\ w \in Nat \ {0}
      /\ s.candidate + s.obtained = s.current /\ s.obtained < w
      /\ \A x \in Chunks : s.candidate <= x /\ x < s.current => x \notin used
  BY ScanParts, Search DEF IInv, ScansAgree, ScanAgrees, Undisturbed
<1>2. /\ i.start = s.start
      /\ i.current = IF s.current + 1 >= N THEN 0 ELSE s.current + 1
      /\ s.current \notin used /\ ~(s.current + 1 >= N /\ s.obtained + 1 < w) =>
            i.obtained = s.obtained + 1 /\ i.candidate = s.candidate
      /\ s.current \in used /\ s.current + 1 < N =>
            i.obtained = 0 /\ i.candidate = s.current + 1
      /\ s.current + 1 >= N /\ (s.current \in used \/ s.obtained + 1 < w) =>
            i.obtained = 0 /\ i.candidate = 0
  BY <1>1, IterationParts DEF IInv
<1>3. SweptTo(s, w) /\ ~WentPast(s)
  BY DEF Sweeps, Swept, Undisturbed
<1>4. ScanFails(t) <=> i.current = s.start
  BY <1>2 DEF ScanFails, AllScanned, Undisturbed
<1>5. ScanFinds(t) => i.obtained >= w /\ i.current # s.start
  BY <1>4 DEF ScanFinds
<1>6. Found(t) = i.candidate
  BY DEF Found
<1>7. used \subseteq Chunks
  BY DEF IInv, TypeOK
<1> SUFFICES /\ i.obtained >= w /\ i.current # s.start =>
                   FirstRoom(w, s.start) = {i.candidate}
             /\ i.current = s.start => FirstRoom(w, s.start) = {}
  BY <1>4, <1>5, <1>6
<1> HIDE DEF s, i, w
<1>8. /\ s.start \in Nat /\ s.current \in Nat /\ N \in Nat /\ N > 0
      /\ s.start < N /\ s.current < N /\ 0 \in Nat /\ 0 \in Chunks
  BY <1>1, PoolAssumption DEF Chunks
<1>9. CASE i.obtained >= w /\ i.current # s.start
  <2> DEFINE c == s.candidate
  <2>1. /\ s.current \notin used /\ i.candidate = c /\ w = s.obtained + 1
        /\ c \in Chunks /\ c + w = s.current + 1
    BY <1>1, <1>2, <1>8, <1>9 DEF Chunks
  <2>2. \/ s.start <= c /\ NoRoomIn(w, s.start, s.current)
        \/ NoRoomIn(w, s.start, N) /\ NoRoomIn(w, 0, s.current)
    BY <1>3 DEF SweptTo
  <2>3. c >= s.start \/ c + w <= s.start
    BY <1>1, <1>3, <1>8, <2>1 DEF WentPast
  <2>4. \A x \in Chunks : c <= x /\ x < c + w => x \notin used
    BY <1>1, <1>8, <2>1 DEF Chunks
  <2>5. (IF c + w = N THEN 0 ELSE c + w) # s.start
    BY <1>2, <1>8, <1>9, <2>1
  <2>6. c + w <= N
    BY <1>8, <2>1
  <2>7. RoomAt(c, w, s.start)
    BY <1>1, <2>1, <2>3, <2>4, <2>5, <2>6, Room
  <2>8. ASSUME NEW d \in Chunks, RoomAt(d, w, s.start)
        PROVE  Before(c, d, s.start)
    <3>1. d + w <= N /\ d \in Nat /\ c \in Nat
      BY <1>1, <2>1, <2>8, Room, PoolAssumption DEF Chunks
    <3>2. CASE s.start <= c /\ NoRoomIn(w, s.start, s.current)
      <4>1. ~(s.start <= d /\ d + w <= s.current)
        BY <1>1, <1>7, <1>8, <2>8, <3>2, RoomElsewhere
      <4> QED
        BY <1>1, <1>8, <2>1, <3>1, <3>2, <4>1, Nearer
    <3>3. CASE NoRoomIn(w, s.start, N) /\ NoRoomIn(w, 0, s.current)
      <4>1. ~(s.start <= d /\ d + w <= N) /\ ~(s.start <= c /\ c + w <= N)
        BY <1>1, <1>7, <1>8, <2>1, <2>7, <2>8, <3>3, RoomElsewhere
      <4>2. ~(0 <= d /\ d + w <= s.current)
        BY <1>1, <1>7, <1>8, <2>8, <3>3, RoomElsewhere
      <4> QED
        BY <1>1, <1>8, <2>1, <2>6, <3>1, <4>1, <4>2, Nearer
    <3> QED
      BY <2>2, <3>2, <3>3
  <2>9. c \in FirstRoom(w, s.start)
    BY <2>1, <2>7, <2>8 DEF FirstRoom
  <2>10. ASSUME NEW d \in FirstRoom(w, s.start)
         PROVE  d = c
    <3>1. d \in Chunks /\ RoomAt(d, w, s.start) /\ Before(d, c, s.start)
      BY <2>1, <2>7, <2>10 DEF FirstRoom
    <3> QED
      BY <1>1, <2>1, <2>8, <3>1, Nearer
  <2> QED
    BY <1>9, <2>1, <2>9, <2>10
<1>10. CASE i.current = s.start
  <2> SUFFICES ASSUME NEW d \in Chunks, RoomAt(d, w, s.start)
               PROVE  FALSE
    BY <1>10 DEF FirstRoom
  <2>1. /\ d \in Nat /\ d + w <= N /\ (IF d + w = N THEN 0 ELSE d + w) # s.start
        /\ d >= s.start \/ d + w <= s.start
    BY <1>1, Room, PoolAssumption DEF Chunks
  <2>2. CASE s.start = 0 /\ s.current = N - 1
    <3>1. CASE NoRoomIn(w, s.start, s.current)
      <4>1. ~(s.start <= d /\ d + w <= s.current)
        BY <1>1, <1>7, <1>8, <3>1, RoomElsewhere
      <4> QED
        BY <1>1, <1>8, <2>1, <2>2, <4>1
    <3>2. CASE NoRoomIn(w, s.start, N)
      <4>1. ~(s.start <= d /\ d + w <= N)
        BY <1>1, <1>7, <1>8, <3>2, RoomElsewhere
      <4> QED
        BY <1>1, <1>8, <2>1, <2>2, <4>1
    <3> QED
      BY <1>3, <3>1, <3>2 DEF SweptTo
  <2>3. CASE s.start = s.current + 1
    <3>1. NoRoomIn(w, s.start, N) /\ NoRoomIn(w, 0, s.current)
      BY <1>1, <1>3, <1>8, <2>3 DEF SweptTo
    <3>2. ~(s.start <= d /\ d + w <= N) /\ ~(0 <= d /\ d + w <= s.current)
      BY <1>1, <1>7, <1>8, <3>1, RoomElsewhere
    <3> QED
      BY <1>1, <1>8, <2>1, <2>3, <3>2
  <2> QED
    BY <1>2, <1>8, <1>10, <2>2, <2>3
<1> QED
  BY <1>9, <1>10

(* findFreeChunks, in every pool and for any number of threads: an         *)
(* undisturbed search ends with the first room after the place where it    *)
(* started, or without one because there is none                           *)
(* (shared_memory_pool.c:308-359).                                         *)
THEOREM SearchAlwaysExact == Spec => []SearchExact
<1>1. IInv /\ Sweeps => SearchExact
  <2> SUFFICES ASSUME IInv, Sweeps, NEW t \in Threads, Undisturbed(t)
               PROVE  LET rooms == FirstRoom(Wanted(t), scan[t].start) IN
                      /\ ScanFinds(t) => rooms = {Found(t)}
                      /\ ScanFails(t) => rooms = {}
    BY DEF SearchExact
  <2> QED
    BY EndsExactly
<1>2. QED
  BY <1>1, Invariance, SweepInvariance, PTL
=============================================================================
