------------------------------ MODULE Snowflake ------------------------------
(***************************************************************************)
(* SnowflakeGenerator::next_id: threads draw 64-bit ids from one atomic    *)
(* word per machine, which packs the last timestamp used and the sequence  *)
(* number within that millisecond.  The loop reads the wall clock, loads   *)
(* the word, computes its successor and swaps it in; a lost race, a weak   *)
(* compare_exchange that fails for no reason, and an exhausted sequence    *)
(* all start the loop over.                                                *)
(*                                                                         *)
(* Machines share nothing but the layout of the id.  Their wall clocks may *)
(* be stepped back (NTP), and a process may restart, which forgets the     *)
(* word; what that takes of the clock is RestartAfterLastId.               *)
(***************************************************************************)
EXTENDS Naturals, Sequences

CONSTANTS
    Threads,        \* callers of next_id
    Home,           \* Home[t]: the machine_id of the process thread t runs in
    MachineCount,   \* 2^MACHINE_ID_BITS
    SequenceCount,  \* 2^SEQUENCE_BITS
    MaxTime,        \* MaxTime[m]: bound on the clock of m, in milliseconds
    MaxRestarts     \* bound on the restarts, of all machines together

Machines == 0 .. MachineCount - 1      \* new() asserts machine_id <= MAX_MACHINE_ID
MaxSequence == SequenceCount - 1       \* MAX_SEQUENCE

ASSUME SnowflakeAssumption ==
    /\ MachineCount \in Nat \ {0}
    /\ SequenceCount \in Nat \ {0}
    /\ Home \in [Threads -> Machines]
    /\ MaxTime \in [Machines -> Nat]
    /\ MaxRestarts \in Nat

VARIABLES
    pc,        \* pc[t]: "clock" (outside, or at the top of the loop), "load" or "swap"
    now,       \* now[t]: the local `now`
    old,       \* old[t]: the local `old_state`
    state,     \* state[m]: the atomic word of machine m
    clock,     \* clock[m]: its wall clock, milliseconds since LUMIERE_EPOCH
    peak,      \* peak[m]: history: the latest time the clock has shown
    floor,     \* floor[m]: history: the time of the last restart
    issued,    \* issued[m]: history: the ids handed out, in order
    restarts   \* how much of MaxRestarts is used

locals == <<pc, now, old>>
wall == <<clock, peak, floor>>
snowflake_vars == <<locals, state, wall, issued, restarts>>

(* The word (ts << SEQUENCE_BITS) | seq: its two fields tell it apart from *)
(* any other word so long as seq <= MaxSequence.                           *)
Word(ts, seq) == [ts |-> ts, seq |-> seq]
Zero == Word(0, 0)

-----------------------------------------------------------------------------
(* Deviations: what a plausible slip in the code would make of the         *)
(* definition each is named after.  Nothing below uses them; they show     *)
(* which property notices the slip.                                        *)

(* The machine's own clock, where the code keeps the word's timestamp.     *)
Successor_OwnTime(n, w) ==
    IF n > w.ts THEN Word(n, 0) ELSE Word(n, w.seq + 1)

(* `old_seq > MAX_SEQUENCE`, tested before the increment and not after.    *)
IsExhausted_TestedEarly(w) == w.seq > MaxSequence

(* A plain store where the code has compare_exchange.                      *)
Wins_Store(t) == TRUE

(* The machine id shifted past the bits of the sequence and its own.       *)
Id_Misplaced(ts, m, seq) == (ts + m) * MachineCount * SequenceCount + seq

-----------------------------------------------------------------------------
(* The layout of words and ids.                                            *)

(* (ts << TIMESTAMP_SHIFT) | (machine << MACHINE_ID_SHIFT) | seq.  A field *)
(* that outgrows its bits spills into the next one, as the shifts do.      *)
Id(ts, m, seq) == (ts * MachineCount + m) * SequenceCount + seq

(* The accessors timestamp_ms() and machine_id().                          *)
TimestampOf(id) == (id \div SequenceCount) \div MachineCount
MachineOf(id) == (id \div SequenceCount) % MachineCount

SnowflakeInit ==
    /\ pc = [t \in Threads |-> "clock"]
    /\ now = [t \in Threads |-> 0]
    /\ old = [t \in Threads |-> Zero]
    /\ state = [m \in Machines |-> Zero]
    /\ clock = [m \in Machines |-> 0]
    /\ peak = clock
    /\ floor = [m \in Machines |-> 0]
    /\ issued = [m \in Machines |-> <<>>]
    /\ restarts = 0

-----------------------------------------------------------------------------
(* next_id.                                                                *)

IsNewMillisecond(n, w) == n > w.ts

(* The sequence number after old_seq does not fit.                         *)
IsExhausted(w) == w.seq + 1 > MaxSequence

(* A new millisecond starts at sequence 0; the same one, or a clock that   *)
(* went backwards, stays at the old timestamp and takes the next number.   *)
Successor(n, w) ==
    IF IsNewMillisecond(n, w) THEN Word(n, 0) ELSE Word(w.ts, w.seq + 1)

(* compare_exchange_weak finds the word the thread has loaded.             *)
Wins(t) == state[Home[t]] = old[t]

(* Back to the top of the loop, or out of it: the locals are gone.         *)
EndIteration(t) ==
    /\ pc' = [pc EXCEPT ![t] = "clock"]
    /\ now' = [now EXCEPT ![t] = 0]
    /\ old' = [old EXCEPT ![t] = Zero]

ReadClock(t) ==
    /\ pc[t] = "clock"
    /\ now' = [now EXCEPT ![t] = clock[Home[t]]]
    /\ pc' = [pc EXCEPT ![t] = "load"]
    /\ UNCHANGED <<old, state, wall, issued, restarts>>

(* The load, and the computation on locals that follows: an exhausted      *)
(* sequence spins back to the clock.                                       *)
Load(t) ==
    LET word == state[Home[t]]
        spins == ~IsNewMillisecond(now[t], word) /\ IsExhausted(word)
    IN  /\ pc[t] = "load"
        /\ \/ spins /\ EndIteration(t)
           \/ /\ ~spins
              /\ old' = [old EXCEPT ![t] = word]
              /\ pc' = [pc EXCEPT ![t] = "swap"]
              /\ UNCHANGED now
        /\ UNCHANGED <<state, wall, issued, restarts>>

Swap(t) ==
    LET m == Home[t]
        new == Successor(now[t], old[t])
    IN  /\ pc[t] = "swap"
        /\ Wins(t)
        /\ state' = [state EXCEPT ![m] = new]
        /\ issued' = [issued EXCEPT ![m] = Append(@, Id(new.ts, m, new.seq))]
        /\ EndIteration(t)
        /\ UNCHANGED <<wall, restarts>>

(* Another thread won, or the weak exchange failed spuriously.             *)
SwapFails(t) ==
    /\ pc[t] = "swap"
    /\ EndIteration(t)
    /\ UNCHANGED <<state, wall, issued, restarts>>

-----------------------------------------------------------------------------
(* The environment.                                                        *)

Tick(m) ==
    /\ clock[m] < MaxTime[m]
    /\ clock' = [clock EXCEPT ![m] = @ + 1]
    /\ peak' = [peak EXCEPT ![m] = IF clock[m] + 1 > @ THEN clock[m] + 1 ELSE @]
    /\ UNCHANGED <<locals, state, floor, issued, restarts>>

(* The clock is set back, to no earlier than the last restart.             *)
StepBack(m) ==
    /\ \E earlier \in floor[m] .. clock[m] :
          clock' = [clock EXCEPT ![m] = earlier]
    /\ UNCHANGED <<locals, state, peak, floor, issued, restarts>>

(* The code keeps no record of the last timestamp across a restart, so     *)
(* uniqueness rests on the clock: a new process starts in a later          *)
(* millisecond than the last id of the old one (and, StepBack, its clock   *)
(* is not set back to before that moment).                                 *)
RestartAfterLastId(m) == clock[m] > state[m].ts

RestartProcess(m) ==
    /\ restarts < MaxRestarts
    /\ RestartAfterLastId(m)
    /\ restarts' = restarts + 1
    /\ state' = [state EXCEPT ![m] = Zero]
    /\ floor' = [floor EXCEPT ![m] = clock[m]]
    /\ pc' = [t \in Threads |-> IF Home[t] = m THEN "clock" ELSE pc[t]]
    /\ now' = [t \in Threads |-> IF Home[t] = m THEN 0 ELSE now[t]]
    /\ old' = [t \in Threads |-> IF Home[t] = m THEN Zero ELSE old[t]]
    /\ UNCHANGED <<clock, peak, issued>>

SnowflakeNext ==
    \/ \E t \in Threads : ReadClock(t) \/ Load(t) \/ Swap(t) \/ SwapFails(t)
    \/ \E m \in Machines : Tick(m) \/ StepBack(m) \/ RestartProcess(m)

SnowflakeSpec == SnowflakeInit /\ [][SnowflakeNext]_snowflake_vars

-----------------------------------------------------------------------------
(* Properties.                                                             *)

Words == [ts : Nat, seq : 0 .. MaxSequence]

Stamped(t) == pc[t] \in {"load", "swap"}

(* Types; in them, what makes the word lossless: a stored sequence fits    *)
(* its bits, and so does the one a thread is about to store.  A thread in  *)
(* mid-loop has read its clock since the last restart.                     *)
SnowflakeTypeOK ==
    /\ pc \in [Threads -> {"clock", "load", "swap"}]
    /\ now \in [Threads -> Nat]
    /\ old \in [Threads -> Words]
    /\ state \in [Machines -> Words]
    /\ clock \in [Machines -> Nat]
    /\ peak \in [Machines -> Nat]
    /\ floor \in [Machines -> Nat]
    /\ issued \in [Machines -> Seq(Nat)]
    /\ restarts \in Nat
    /\ \A m \in Machines : floor[m] <= clock[m] /\ clock[m] <= peak[m]
    /\ \A t \in Threads :
          /\ Stamped(t) => floor[Home[t]] <= now[t] /\ now[t] <= peak[Home[t]]
          /\ pc[t] = "swap" => Successor(now[t], old[t]) \in Words

(* The three fields of an id can be read back: machine_id() names the      *)
(* machine that issued it, and timestamp_ms(), which decides the bucket a  *)
(* message is stored in and its created_at, is never later than any time   *)
(* that machine's clock has shown, however the calls race and whatever the *)
(* clock does.                                                             *)
FieldsTold ==
    \A m \in Machines : \A i \in DOMAIN issued[m] :
        /\ MachineOf(issued[m][i]) = m
        /\ TimestampOf(issued[m][i]) <= peak[m]

(* Ids are unique over all machines, and each machine hands them out in    *)
(* increasing order, in the order its exchanges succeed: "Uses a single    *)
(* AtomicU64 ... to avoid race conditions" (snowflake.rs).                 *)
Contract == INSTANCE UniqueIds WITH Machines <- Machines, issued <- issued
ImplementsUniqueIds == Contract!Spec
=============================================================================
