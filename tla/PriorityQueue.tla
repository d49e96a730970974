---------------------------- MODULE PriorityQueue ----------------------------
(***************************************************************************)
(* PriorityMessageQueue (src/src/communication/message_queue.py): a heap   *)
(* in a list, under the lock of one condition variable.  Consumers wait in *)
(* get() until they are notified or their time is up.  A consumer whose    *)
(* time is up leaves the condition's waiters only when it has the lock     *)
(* back, so a notification may still be spent on it (threading.Condition). *)
(***************************************************************************)
EXTENDS Naturals, SequencesExt

CONSTANTS
    QueueLimit,     \* maxsize; 0 is unbounded
    Consumers,      \* threads in get()
    Priorities,     \* Priority
    MaxPuts         \* bound: calls of put()

VARIABLES
    heap,       \* _heap
    sleepers,   \* consumers among the waiters of _not_empty, in the order they came
    lapsed,     \* consumers whose time is up and that have not got the lock yet
    woken,      \* consumers that were notified and have not got the lock yet
    puts,       \* _counter
    handed,     \* history: the item last returned by get()
    wasted      \* history: notifications spent on lapsed consumers since the heap was last empty

queueVars == <<heap, sleepers, lapsed, woken, puts, handed, wasted>>

ASSUME QueueAssumption == QueueLimit \in Nat /\ Priorities \subseteq Nat /\ MaxPuts \in Nat

Bag == INSTANCE PriorityBag WITH bag <- Range(heap)

QueueTypeOK ==
    /\ Range(heap) \subseteq [prio : Priorities, n : 1 .. MaxPuts]
    /\ IsInjective(heap)
    /\ Len(heap) <= puts /\ (QueueLimit > 0 => Len(heap) <= QueueLimit)
    /\ Range(sleepers) \subseteq Consumers /\ woken \subseteq Consumers /\ lapsed \subseteq Consumers
    /\ IsInjective(sleepers) /\ (Range(sleepers) \cup lapsed) \cap woken = {}
    /\ puts \in 0 .. MaxPuts /\ wasted \in 0 .. puts

QueueInit ==
    /\ heap = <<>> /\ sleepers = <<>> /\ lapsed = {} /\ woken = {} /\ puts = 0
    /\ handed = {} /\ wasted = 0

-----------------------------------------------------------------------------
(* heapq: the list is in an order in which no entry is before its parent.  *)

Ordered(h) == \A i \in 2 .. Len(h) : Bag!Before(h[i \div 2], h[i])

Heaps(entries) ==
    {h \in [1 .. Cardinality(entries) -> entries] : IsInjective(h) /\ Range(h) = entries /\ Ordered(h)}

\* The positions from i up to the root.
Upwards(i) == {i \div 2^k : k \in 0 .. i} \ {0}

\* The positions of h that are reached from the root by the smaller child.
Smaller(h) ==
    LET Sibling(j) == IF j % 2 = 0 THEN j + 1 ELSE j - 1
    IN  {i \in DOMAIN h : \A j \in Upwards(i) \ {1} :
            Sibling(j) \in DOMAIN h => Bag!Before(h[j], h[Sibling(j)])}

\* heappush and heappop move entries on one way between root and leaf only.
Moved(entries, h, way) ==
    {g \in Heaps(entries) : \A i \in DOMAIN g \ way : g[i] = h[i]}

HeapPush(x, h) == heap' \in Moved(Range(h) \cup {x}, h, Upwards(Len(h) + 1))

HeapPop == heap' \in Moved(Range(heap) \ {Head(heap)}, heap, Smaller(Front(heap)) \cup {1})

-----------------------------------------------------------------------------
(* put, get, get_nowait and clear.                                         *)

\* Mutant: only an item that comes to an empty queue is announced.
NotifyWhenEmpty == heap = <<>> /\ sleepers # <<>>

Notifies == sleepers # <<>>

\* Mutant: the queue holds one entry more before it gives one up.
RoomForOneMore == IF QueueLimit > 0 /\ Len(heap) > QueueLimit THEN Front(heap) ELSE heap

\* Mutant: a full queue gives up the first entry of the list.
RoomAtFront == IF QueueLimit > 0 /\ Len(heap) >= QueueLimit THEN Tail(heap) ELSE heap

\* A full queue gives up the last entry of the list.
Room == IF QueueLimit > 0 /\ Len(heap) >= QueueLimit THEN Front(heap) ELSE heap

\* The consumer that was notified, unless its time is up: then it leaves with
\* nothing, and nobody else is told.
Notify ==
    /\ sleepers' = Tail(sleepers)
    /\ IF Head(sleepers) \in lapsed
       THEN wasted' = wasted + 1 /\ UNCHANGED woken
       ELSE woken' = woken \cup {Head(sleepers)} /\ UNCHANGED wasted

Put(p) ==
    /\ puts < MaxPuts
    /\ puts' = puts + 1
    /\ HeapPush([prio |-> p, n |-> puts + 1], Room)
    /\ IF Notifies THEN Notify ELSE UNCHANGED <<sleepers, woken, wasted>>
    /\ UNCHANGED <<lapsed, handed>>

\* drop_oldest = False
PutRefused ==
    /\ QueueLimit > 0 /\ Len(heap) >= QueueLimit
    /\ UNCHANGED queueVars

Hand == /\ heap # <<>>
        /\ HeapPop
        /\ handed' = {Head(heap)}
        /\ wasted' = IF heap' = <<>> THEN 0 ELSE wasted

Sleeping(c) == c \in Range(sleepers) \cup lapsed \cup woken

\* get() with an item in the queue, and get_nowait().
Get(c) == ~Sleeping(c) /\ Hand /\ UNCHANGED <<sleepers, lapsed, woken, puts>>

Sleep(c) ==
    /\ ~Sleeping(c) /\ heap = <<>>
    /\ sleepers' = Append(sleepers, c)
    /\ UNCHANGED <<heap, lapsed, woken, puts, handed, wasted>>

\* get() looks once: None when somebody else took the item, although its time is
\* not up ("None on timeout", message_queue.py:82).
Awake(c) ==
    /\ c \in woken
    /\ woken' = woken \ {c}
    /\ Hand \/ (heap = <<>> /\ UNCHANGED <<heap, handed, wasted>>)
    /\ UNCHANGED <<sleepers, lapsed, puts>>

\* wait() gives up, and goes for the lock.
TimeUp(c) ==
    /\ c \in Range(sleepers) \ lapsed
    /\ lapsed' = lapsed \cup {c}
    /\ UNCHANGED <<heap, sleepers, woken, puts, handed, wasted>>

\* It has the lock: get() returns None without a look at the heap.
GiveUp(c) ==
    /\ c \in lapsed /\ lapsed' = lapsed \ {c}
    /\ \/ \E i \in DOMAIN sleepers : sleepers[i] = c /\ sleepers' = RemoveAt(sleepers, i)
       \/ c \notin Range(sleepers) /\ UNCHANGED sleepers
    /\ UNCHANGED <<heap, woken, puts, handed, wasted>>

ClearQueue ==
    /\ heap # <<>> /\ heap' = <<>> /\ wasted' = 0
    /\ UNCHANGED <<sleepers, lapsed, woken, puts, handed>>

QueueNext == \/ \E p \in Priorities : Put(p)
             \/ PutRefused \/ ClearQueue
             \/ \E c \in Consumers : Get(c) \/ Sleep(c) \/ Awake(c) \/ TimeUp(c) \/ GiveUp(c)

QueueSpec == QueueInit /\ [][QueueNext]_queueVars

-----------------------------------------------------------------------------
\* The list of entries serves as the bag: whatever was put, dropped and taken
\* in between, get() returns the entry that is first in priority and age, and a
\* full queue never drops that one while it holds another.
ServesByPriority == Bag!LooseSpec

\* What the documentation says of a full queue (message_queue.py:64): the item
\* it drops is one of the lowest priority.  The code drops the last of the list.
DropsLowest == Bag!Spec

\* While a consumer waits, every item left over is one a woken consumer is
\* about to take, or one whose notification was spent on a consumer whose time
\* was up.
NoLostWakeUp == sleepers # <<>> => Len(heap) <= Cardinality(woken) + wasted
=============================================================================
