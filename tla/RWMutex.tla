------------------------------ MODULE RWMutex ------------------------------
(***************************************************************************)
(* Go's sync.RWMutex, the lock chat.Broker guards its session map with     *)
(* (external: the Go standard library).  What matters to the broker is     *)
(* its writer preference: as soon as a Lock call is announced, every later *)
(* RLock parks until that writer has unlocked, while the writer itself     *)
(* waits for the readers that were in before it.  Unlock lets all parked   *)
(* readers in before the next writer can announce itself.                  *)
(***************************************************************************)
CONSTANT Threads

VARIABLES
    writer,     \* the announced or holding writer: {} or a singleton
    readers,    \* threads that hold the read lock
    parked      \* threads whose RLock waits for the current writer

lockVars == <<writer, readers, parked>>

LockTypeOK ==
    /\ writer \in SUBSET Threads
    /\ readers \in SUBSET Threads
    /\ parked \in SUBSET Threads

LockInit ==
    /\ writer = {}
    /\ readers = {}
    /\ parked = {}

\* Lock, first half: win the writers' mutex and hold off new readers.
AnnounceLock(t) ==
    /\ writer = {}
    /\ writer' = {t}
    /\ UNCHANGED <<readers, parked>>

\* Lock has returned to t: it is the writer and the last reader has left.
HoldsLock(t) == writer = {t} /\ readers = {}

\* Unlock: the parked readers go in, then another writer may announce itself.
Unlock(t) ==
    /\ writer' = {}
    /\ readers' = readers \cup parked
    /\ parked' = {}

\* RLock: enter at once, or park behind an announced writer.
RLock(t) ==
    /\ t \notin readers \cup parked
    /\ \/ writer = {}  /\ readers' = readers \cup {t} /\ UNCHANGED parked
       \/ writer # {}  /\ parked' = parked \cup {t}   /\ UNCHANGED readers
    /\ UNCHANGED writer

HoldsRLock(t) == t \in readers

RUnlock(t) ==
    /\ readers' = readers \ {t}
    /\ UNCHANGED <<writer, parked>>

=============================================================================
