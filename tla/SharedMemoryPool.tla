-------------------------- MODULE SharedMemoryPool --------------------------
(***************************************************************************)
(* The memory pool that several processes or threads of the compiler share *)
(* (shared_memory_pool.c of libcompilermemorymanager): a registry with one *)
(* bit for each chunk of memory, a cursor where the next search for free   *)
(* chunks begins, and a mutex.  A block is a guard chunk, with the number  *)
(* of the data chunks written in it, and the data chunks after it.         *)
(*                                                                         *)
(* The mutex does not cover everything: smp_realloc moves the cursor       *)
(* before it locks, while another thread's search, which compares its      *)
(* position with the cursor in every iteration, is under way.  A search is *)
(* therefore a step for each iteration.                                    *)
(*                                                                         *)
(* An operator marked as a variant is no part of the specification: it is  *)
(* the one below it with a mistake, which the properties have to notice.   *)
(***************************************************************************)
EXTENDS Integers, FiniteSets

CONSTANTS
    Threads,
    None,
    N,        \* pool->size / CHUNK_SIZE, the number of chunks
    Byte,     \* the chunks that share a byte of the registry, 8
    Sizes,    \* the sizes that are asked for, in chunks
    MaxBlocks \* bound: the blocks a thread asks for while it has them

ASSUME NoneAssumption == None \notin Threads
ASSUME PoolAssumption ==
    Byte \in Nat \ {0} /\ N \in Nat \ {0} /\ N % Byte = 0
ASSUME SizesAssumption == Sizes \subseteq Nat \ {0} /\ MaxBlocks \in Nat

Chunks == 0 .. N - 1

VARIABLES
    \* the pool
    used,       \* registry: the chunks whose bit is set
    cursor,     \* cursor
    mutex,      \* mutex: who has it, or None
    guard,      \* the number in each chunk; 0 stands for whatever is in one
                \* that is not the guard of a block
    \* what the callers were given: by first chunk, whose block and how long
    owner, size,
    \* the calls
    pc,
    block,      \* the guard chunk of the block the call is about
    requested,  \* chunks_requested, with the guard
    current,    \* chunks_current
    scan,       \* the locals of findFreeChunks
    hoisted     \* the build keeps pool->cursor in a register in that loop

pool  == <<used, cursor, mutex, guard>>
users == <<owner, size>>
calls == <<pc, block, requested, current, scan>>
vars  == <<pool, users, calls, hoisted>>

Scanning  == {"scanMalloc", "scanExtend", "scanMove"}
Locking   == {"lockMalloc", "lockExtend", "lockShrink", "lockFree"}
Places    == Scanning \cup Locking \cup {"idle", "setCursor", "restart",
                                         "writeGuard"}
ScanState == [start : Chunks, obtained : Nat, candidate : Nat, current : Chunks]

TypeOK ==
    /\ used \subseteq Chunks
    /\ cursor \in Chunks
    /\ mutex \in Threads \cup {None}
    /\ guard \in [Chunks -> Nat]
    /\ owner \in [Chunks -> Threads \cup {None}]
    /\ size \in [Chunks -> Nat]
    /\ pc \in [Threads -> Places]
    /\ block \in [Threads -> Chunks]
    /\ requested \in [Threads -> Nat]
    /\ current \in [Threads -> Nat]
    /\ scan \in [Threads -> ScanState]
    /\ hoisted \in BOOLEAN

NoScan == [start |-> 0, obtained |-> 0, candidate |-> 0, current |-> 0]

Init ==
    /\ used = {}
    /\ cursor = 0
    /\ mutex = None
    /\ guard = [c \in Chunks |-> 0]
    /\ owner = [c \in Chunks |-> None]
    /\ size = [c \in Chunks |-> 0]
    /\ pc = [t \in Threads |-> "idle"]
    /\ block = [t \in Threads |-> 0]
    /\ requested = [t \in Threads |-> 0]
    /\ current = [t \in Threads |-> 0]
    /\ scan = [t \in Threads |-> NoScan]
    /\ hoisted \in BOOLEAN

Go(t, place) == pc' = [pc EXCEPT ![t] = place]

(* The call returns, and its locals are gone.                              *)
Return(t) ==
    /\ Go(t, "idle")
    /\ block' = [block EXCEPT ![t] = 0]
    /\ requested' = [requested EXCEPT ![t] = 0]
    /\ current' = [current EXCEPT ![t] = 0]

-----------------------------------------------------------------------------
(* allocChunks: the chunks whose bits it sets or clears, those of the      *)
(* first byte when start is not at its beginning, then whole bytes, then   *)
(* the rest.                                                               *)
Least(a, b) == IF a <= b THEN a ELSE b
InFirstByte(start, n) ==
    IF start % Byte = 0 THEN 0 ELSE Least(Byte - (start % Byte), n)
NextByte(start) ==
    IF start % Byte = 0 THEN start \div Byte ELSE start \div Byte + 1

PreChunks(start, n) == start .. start + InFirstByte(start, n) - 1
ByteChunks(start, n) ==
    NextByte(start) * Byte
        .. (NextByte(start) + (n - InFirstByte(start, n)) \div Byte) * Byte - 1
PostChunks(start, n) ==
    LET rest  == n - InFirstByte(start, n)
        index == (NextByte(start) + rest \div Byte) * Byte
    IN  index .. index + (rest % Byte) - 1

(* Variant: the bits of the first byte are left alone.                     *)
WholeBytesOnly(start, n) == ByteChunks(start, n) \cup PostChunks(start, n)
AllocChunks(start, n) ==
    PreChunks(start, n) \cup ByteChunks(start, n) \cup PostChunks(start, n)

-----------------------------------------------------------------------------
(* findFreeChunks, called by a thread that has the mutex.  Its first two   *)
(* reads of the cursor, one after the other, are one in an optimised build.*)
BeginScan(t, place) ==
    /\ scan' = [scan EXCEPT ![t] = [start |-> cursor, obtained |-> 0,
                                    candidate |-> cursor, current |-> cursor]]
    /\ Go(t, place)

Wanted(t) == IF pc[t] = "scanExtend" THEN requested[t] - current[t]
                                     ELSE requested[t]

(* One iteration up to the comparison with the cursor: at the end of the   *)
(* registry the search goes on with chunk 0, and forgets what it has if    *)
(* that is not enough.  Variant: it keeps it, as if the pool was a ring.   *)
IterationAround(t) ==
    LET s    == scan[t]
        free == s.current \notin used
    IN  [start     |-> s.start,
         obtained  |-> IF free THEN s.obtained + 1 ELSE 0,
         candidate |-> IF free THEN s.candidate ELSE (s.current + 1) % N,
         current   |-> (s.current + 1) % N]
Iteration(t) ==
    LET s        == scan[t]
        free     == s.current \notin used
        obtained == IF free THEN s.obtained + 1 ELSE 0
        atEnd    == s.current + 1 >= N
        short    == obtained < Wanted(t)
    IN  [start     |-> s.start,
         obtained  |-> IF atEnd /\ short THEN 0 ELSE obtained,
         candidate |-> IF atEnd /\ short THEN 0
                       ELSE IF free THEN s.candidate ELSE s.current + 1,
         current   |-> IF atEnd THEN 0 ELSE s.current + 1]

(* Variant: the comparison is made after a free chunk only.                *)
AllScannedFree(s) ==
    s.obtained > 0 /\ s.current = (IF hoisted THEN s.start ELSE cursor)
AllScanned(s) == s.current = (IF hoisted THEN s.start ELSE cursor)

ScanFails(t) == AllScanned(Iteration(t))
ScanFinds(t) == ~ScanFails(t) /\ Iteration(t).obtained >= Wanted(t)
Found(t)     == Iteration(t).candidate

GoOn(t) ==
    /\ pc[t] \in Scanning
    /\ ~ScanFails(t) /\ ~ScanFinds(t)
    /\ scan' = [scan EXCEPT ![t] = Iteration(t)]
    /\ UNCHANGED <<pool, users, pc, block, requested, current, hoisted>>

EndScan(t) == scan' = [scan EXCEPT ![t] = NoScan]

(* A block of n chunks becomes t's, from chunk c on.                       *)
Give(t, c, n) ==
    /\ owner' = [owner EXCEPT ![c] = t]
    /\ size' = [size EXCEPT ![c] = n]

-----------------------------------------------------------------------------
(* smp_malloc, and smp_calloc, for n chunks of data.                       *)
Malloc(t, n) ==
    /\ pc[t] = "idle"
    /\ Cardinality({c \in Chunks : owner[c] = t}) < MaxBlocks
    /\ requested' = [requested EXCEPT ![t] = n + 1]
    /\ Go(t, "lockMalloc")
    /\ UNCHANGED <<pool, users, block, current, scan, hoisted>>

LockMalloc(t) ==
    /\ pc[t] = "lockMalloc"
    /\ mutex = None
    /\ mutex' = t
    /\ BeginScan(t, "scanMalloc")
    /\ UNCHANGED <<used, cursor, guard, users, block, requested, current, hoisted>>

MallocFails(t) ==
    /\ pc[t] = "scanMalloc"
    /\ ScanFails(t)
    /\ mutex' = None
    /\ EndScan(t)
    /\ Return(t)
    /\ UNCHANGED <<used, cursor, guard, users, hoisted>>

(* The chunks are allocated and the mutex released; the guard is written   *)
(* after that.                                                             *)
MallocFinds(t) ==
    /\ pc[t] = "scanMalloc"
    /\ ScanFinds(t)
    /\ cursor' = Iteration(t).current
    /\ used' = used \cup AllocChunks(Found(t), requested[t])
    /\ mutex' = None
    /\ Give(t, Found(t), requested[t])
    /\ block' = [block EXCEPT ![t] = Found(t)]
    /\ EndScan(t)
    /\ Go(t, "writeGuard")
    /\ UNCHANGED <<guard, requested, current, hoisted>>

WriteGuard(t) ==
    /\ pc[t] = "writeGuard"
    /\ guard' = [guard EXCEPT ![block[t]] = requested[t] - 1]
    /\ Return(t)
    /\ UNCHANGED <<used, cursor, mutex, users, scan,
                   hoisted>>

-----------------------------------------------------------------------------
(* smp_realloc of t's block c to n chunks of data.  The guard is read, and *)
(* for a larger block the cursor set to its first chunk of data, before    *)
(* the mutex is locked.  With the same number of chunks it just returns.   *)
Realloc(t, c, n) ==
    /\ pc[t] = "idle"
    /\ owner[c] = t
    /\ block' = [block EXCEPT ![t] = c]
    /\ requested' = [requested EXCEPT ![t] = n + 1]
    /\ current' = [current EXCEPT ![t] = guard[c] + 1]
    /\ \/ n > guard[c] /\ Go(t, "setCursor")
       \/ n < guard[c] /\ Go(t, "lockShrink")
    /\ UNCHANGED <<pool, users, scan, hoisted>>

SetCursor(t) ==
    /\ pc[t] = "setCursor"
    /\ cursor' = block[t] + 1
    /\ Go(t, "lockExtend")
    /\ UNCHANGED <<used, mutex, guard, users, block, requested, current, scan,
                   hoisted>>

LockExtend(t) ==
    /\ pc[t] = "lockExtend"
    /\ mutex = None
    /\ mutex' = t
    /\ BeginScan(t, "scanExtend")
    /\ UNCHANGED <<used, cursor, guard, users, block, requested, current, hoisted>>

ExtendFails(t) ==
    /\ pc[t] = "scanExtend"
    /\ ScanFails(t)
    /\ mutex' = None
    /\ EndScan(t)
    /\ Return(t)
    /\ UNCHANGED <<used, cursor, guard, users, hoisted>>

(* The chunks that were found follow the block.                            *)
FoundAdjacent(t) == Found(t) = block[t] + current[t]

ExtendInPlace(t) ==
    /\ pc[t] = "scanExtend"
    /\ ScanFinds(t)
    /\ FoundAdjacent(t)
    /\ cursor' = Iteration(t).current
    /\ used' = used \cup AllocChunks(Found(t), requested[t] - current[t])
    /\ mutex' = None
    /\ Give(t, block[t], requested[t])
    /\ EndScan(t)
    /\ Go(t, "writeGuard")
    /\ UNCHANGED <<guard, block, requested, current, hoisted>>

(* The block has to move: the search for all of it begins where chunks     *)
(* were found, unless another thread moves the cursor again.               *)
MoveInstead(t) ==
    /\ pc[t] = "scanExtend"
    /\ ScanFinds(t)
    /\ ~FoundAdjacent(t)
    /\ cursor' = Found(t)
    /\ EndScan(t)
    /\ Go(t, "restart")
    /\ UNCHANGED <<used, mutex, guard, users, block, requested, current, hoisted>>

Restart(t) ==
    /\ pc[t] = "restart"
    /\ BeginScan(t, "scanMove")
    /\ UNCHANGED <<pool, users, block, requested, current, hoisted>>

(* There is no room for the larger block: smp_realloc returns NULL with    *)
(* the mutex locked.                                                       *)
MoveFails(t) ==
    /\ pc[t] = "scanMove"
    /\ ScanFails(t)
    /\ EndScan(t)
    /\ Return(t)
    /\ UNCHANGED <<pool, users, hoisted>>

MoveFinds(t) ==
    /\ pc[t] = "scanMove"
    /\ ScanFinds(t)
    /\ cursor' = Iteration(t).current
    /\ used' = (used \cup AllocChunks(Found(t), requested[t]))
                 \ AllocChunks(block[t], current[t])
    /\ mutex' = None
    /\ owner' = [owner EXCEPT ![block[t]] = None, ![Found(t)] = t]
    /\ size' = [size EXCEPT ![block[t]] = 0, ![Found(t)] = requested[t]]
    /\ block' = [block EXCEPT ![t] = Found(t)]
    /\ guard' = [guard EXCEPT ![block[t]] = 0]
    /\ EndScan(t)
    /\ Go(t, "writeGuard")
    /\ UNCHANGED <<requested, current, hoisted>>

(* A smaller block: the chunks at its end are freed.  Variant: their       *)
(* guard keeps the old number.                                             *)
ShrinkSilently(t) ==
    /\ pc[t] = "lockShrink"
    /\ mutex = None
    /\ used' = used \ AllocChunks(block[t] + requested[t], current[t] - requested[t])
    /\ Give(t, block[t], requested[t])
    /\ Return(t)
    /\ UNCHANGED <<cursor, mutex, guard, scan, hoisted>>
Shrink(t) ==
    /\ pc[t] = "lockShrink"
    /\ mutex = None
    /\ used' = used \ AllocChunks(block[t] + requested[t], current[t] - requested[t])
    /\ Give(t, block[t], requested[t])
    /\ Go(t, "writeGuard")
    /\ UNCHANGED <<cursor, mutex, guard, block, requested, current, scan, hoisted>>

(* smp_free of t's block c; the guard is read before the mutex is locked.  *)
Free(t, c) ==
    /\ pc[t] = "idle"
    /\ owner[c] = t
    /\ block' = [block EXCEPT ![t] = c]
    /\ requested' = [requested EXCEPT ![t] = guard[c] + 1]
    /\ Go(t, "lockFree")
    /\ UNCHANGED <<pool, users, current, scan, hoisted>>

FreeChunks(t) ==
    /\ pc[t] = "lockFree"
    /\ mutex = None
    /\ used' = used \ AllocChunks(block[t], requested[t])
    /\ Give(None, block[t], 0)
    /\ guard' = [guard EXCEPT ![block[t]] = 0]
    /\ Return(t)
    /\ UNCHANGED <<cursor, mutex, scan, hoisted>>

-----------------------------------------------------------------------------
Call(t) ==
    \/ \E n \in Sizes : Malloc(t, n)
    \/ \E c \in Chunks, n \in Sizes : Realloc(t, c, n)
    \/ \E c \in Chunks : Free(t, c)

Step(t) ==
    \/ GoOn(t)
    \/ LockMalloc(t) \/ MallocFails(t) \/ MallocFinds(t) \/ WriteGuard(t)
    \/ SetCursor(t) \/ LockExtend(t) \/ ExtendFails(t) \/ ExtendInPlace(t)
    \/ MoveInstead(t) \/ Restart(t) \/ MoveFails(t) \/ MoveFinds(t)
    \/ Shrink(t) \/ FreeChunks(t)

Next == \E t \in Threads : Call(t) \/ Step(t)

(* A thread in the middle of a call goes on when it can.                   *)
Fairness == \A t \in Threads : WF_vars(Step(t))

Spec == Init /\ [][Next]_vars /\ Fairness

-----------------------------------------------------------------------------
Extent(c) == c .. c + size[c] - 1
Blocks    == {c \in Chunks : owner[c] # None}

(* No chunk is given out twice, and the registry has the bits of the       *)
(* chunks that are given out and no others: whatever the search for free   *)
(* chunks does while other threads move the cursor, nothing overlaps and   *)
(* nothing leaks (shared_memory_pool.c:162-168, 218-254).                  *)
NoOverlap ==
    /\ \A c, d \in Blocks : c # d => Extent(c) \cap Extent(d) = {}
    /\ used = UNION {Extent(c) : c \in Blocks}

(* The guard of a block has the number of its data chunks whenever a free  *)
(* or a realloc can read it, after any growth, move or shrinking.          *)
GuardExact ==
    \A t \in Threads : \A c \in Chunks :
        owner[c] = t /\ (pc[t] = "writeGuard" => block[t] # c)
            => guard[c] = size[c] - 1

(* What findFreeChunks finds: the first free chunks at or after the place  *)
(* where it started or, from chunk 0, before it.  Chunks that end exactly  *)
(* there are missed.  This is so whenever the search compares its position *)
(* with that place: always, when the cursor is read only once, and as long *)
(* as the cursor is there, even if others had moved it away meanwhile.     *)
RoomAt(c, n, from) ==
    /\ c .. c + n - 1 \subseteq Chunks \ used
    /\ (c + n) % N # from
    /\ c >= from \/ c + n <= from
Before(c, d, from) == (c - from + N) % N <= (d - from + N) % N
FirstRoom(n, from) ==
    {c \in Chunks : RoomAt(c, n, from)
                       /\ \A d \in Chunks : RoomAt(d, n, from) => Before(c, d, from)}

Undisturbed(t) == pc[t] \in Scanning /\ (hoisted \/ cursor = scan[t].start)
SearchExact ==
    \A t \in Threads : Undisturbed(t) =>
        LET rooms == FirstRoom(Wanted(t), scan[t].start) IN
        /\ ScanFinds(t) => rooms = {Found(t)}
        /\ ScanFails(t) => rooms = {}

(* Every search ends, although the place where it stops is moved by        *)
(* others, and with the last one of a call the mutex is released, unless a *)
(* realloc finds no room for a move and returns (shared_memory_pool.c:243).*)
SearchEnds ==
    \A t \in Threads :
        pc[t] \in Scanning \cup {"restart"} ~> (mutex # t \/ pc[t] = "idle")
=============================================================================
