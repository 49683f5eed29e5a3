------------------------------ MODULE EfuseBatch ------------------------------
(***************************************************************************)
(* The eFuse manager (components/efuse/src/esp_efuse_api.c and             *)
(* esp_efuse_utility.c, with the burning of esp32s3/esp_efuse_utility.c).  *)
(* Writers hold a recursive lock; what they write waits in write_mass_blocks *)
(* and is burnt at the end of the call, or, in batch mode, by the commit.  *)
(* Readers take no lock: they look whether s_burn_counter moved while they *)
(* read, and read again when it did or when it is odd.                     *)
(*                                                                         *)
(* A bit is a pair of its register and its place there.  Only the parity   *)
(* of s_burn_counter is kept, and per reader whether the counter moved;    *)
(* that its 32 bits come round during one read is left out.  A task calls  *)
(* commit and cancel for batches it began itself.                          *)
(***************************************************************************)
EXTENDS Integers, FiniteSets

CONSTANTS
    Tasks,      \* tasks that write
    Readers,    \* tasks that read
    Width,      \* bits of each register, which are 0 .. LastReg
    LastReg,
    BlockOf,    \* the block of each register
    Counts,     \* arguments of esp_efuse_write_field_cnt
    MaxNest,    \* bound: batches begun inside one another, 1 when none is
    MaxDepth,   \* bound: levels of the recursive lock
    None        \* no task

Regs   == 0 .. LastReg
Bits   == UNION {{<<r, i>> : i \in 0 .. Width[r] - 1} : r \in Regs}
Blocks == {BlockOf[r] : r \in Regs}

In(block)    == {b \in Bits : BlockOf[b[1]] = block}
Lower(b, c)  == b[1] < c[1] \/ (b[1] = c[1] /\ b[2] < c[2])

EfuseAssumption ==
    /\ LastReg \in Nat
    /\ Width \in [Regs -> Nat \ {0}]
    /\ BlockOf \in [Regs -> Nat]
    /\ Counts \subseteq Nat \ {0}
    /\ MaxNest \in Nat \ {0}
    /\ MaxDepth \in Nat \ {0}
    /\ None \notin Tasks

VARIABLES
    efuse,    \* the bits the read registers show
    pending,  \* the bits set in write_mass_blocks
    odd,      \* s_burn_counter & 1
    mode,     \* s_batch_writing_mode
    lock,     \* s_efuse_lock: its owner and how often it took it
    op,       \* the call the owner is in, see Op
    reader    \* what each reader has read, see Reader

vars == <<efuse, pending, odd, mode, lock, op, reader>>

Refusals == {"repeated", "full", "coding"}

Op == [
    pc     : {"none",      \* no call, or only between two writes of a batch
              "reset",     \* esp_efuse_utility_reset, before its second ++
              "prepared",  \* a write, before esp_efuse_utility_burn_efuses
              "burn",      \* esp_efuse_utility_burn_chip, programming blocks
              "reload",    \* its reset, before the second ++
              "burnt",     \* before the last ++ of burn_efuses
              "swept"},    \* a write, before its last reset
    then   : {"none", "prepare", "sweep", "hold", "release"},  \* what follows
    err    : {"ok", "fail"} \cup Refusals,
    left   : SUBSET Blocks,  \* blocks to program
    want   : SUBSET Bits,    \* bits the call asks for
    before : SUBSET Bits]    \* history: efuse when the call began

NoOp == [pc |-> "none", then |-> "none", err |-> "ok", left |-> {},
         want |-> {}, before |-> {}]

Reader == [
    at   : -1 .. LastReg + 1, \* the next register of the field, -1: no call
    got  : SUBSET Bits,       \* what it has read
    same : BOOLEAN]           \* s_burn_counter is still count_before

NoRead == [at |-> -1, got |-> {}, same |-> FALSE]

Init ==
    /\ efuse = {}
    /\ pending = {}
    /\ odd = FALSE
    /\ mode = 0
    /\ lock = [owner |-> None, depth |-> 0]
    /\ op = NoOp
    /\ reader = [r \in Readers |-> NoRead]

-----------------------------------------------------------------------------
\* ++s_burn_counter.
Bump ==
    /\ odd' = ~odd
    /\ reader' = [r \in Readers |-> [reader[r] EXCEPT !.same = FALSE]]

CanLock(t) == op.pc = "none" /\ lock.owner \in {None, t}
Acquired(t) == [owner |-> t, depth |-> lock.depth + 1]
Released ==
    IF lock.depth = 1 THEN [owner |-> None, depth |-> 0]
                      ELSE [lock EXCEPT !.depth = @ - 1]

\* esp_efuse_utility_write_blob over a field, register by register: the first
\* register with a bit that is already burnt ends it.
Conflicts(bits) == {b[1] : b \in bits \cap efuse}
Staged(bits)    == {b \in bits : \A r \in Conflicts(bits) : b[1] < r}
BlobError(bits) == IF Conflicts(bits) = {} THEN "ok" ELSE "repeated"

\* esp_efuse_utility_write_cnt over a field: its first n bits not burnt.
FirstFree(field, n) ==
    LET free == field \ efuse
    IN  {b \in free : Cardinality({c \in free : Lower(c, b)}) < n}
CountError(field, n) ==
    IF Cardinality(field \ efuse) < n THEN "full" ELSE "ok"

\* What one write function adds to write_mass_blocks, and what it returns.
Write(adds, asks, error) ==
    \/ \E bits \in SUBSET Bits \ {{}} :
          adds = Staged(bits) /\ asks = bits /\ error = BlobError(bits)
    \/ \E r \in Regs, n \in Counts :
          LET field == {b \in Bits : b[1] >= r}
          IN  /\ adds = FirstFree(field, n)
              /\ asks = FirstFree(field, n)
              /\ error = CountError(field, n)

\* esp_efuse_utility_apply_new_coding_scheme: a coded block is written once.
SchemeRefuses(bits) ==
    \E block \in Blocks \ {0} :
        bits \cap In(block) # {} /\ efuse \cap In(block) # {}

\* The blocks burn_chip finds something to write in.
Needed(bits) == {block \in Blocks : bits \cap In(block) # {}}

-----------------------------------------------------------------------------
\* esp_efuse_utility_reset, called at the beginning of a call.
StartReset(then) ==
    /\ Bump
    /\ op' = [NoOp EXCEPT !.pc = "reset", !.then = then, !.before = efuse]

\* esp_efuse_write_field_blob, esp_efuse_write_field_cnt, esp_efuse_write_reg
\* and esp_efuse_write_block outside a batch.
WriteStart(t) ==
    /\ CanLock(t)
    /\ mode = 0
    /\ lock' = Acquired(t)
    /\ StartReset("prepare")
    /\ UNCHANGED <<efuse, pending, mode>>

\* The same functions in a batch of the caller.
WriteInBatch(t) ==
    /\ CanLock(t)
    /\ mode > 0
    /\ \E adds, asks \in SUBSET Bits, error \in {"ok"} \cup Refusals :
          /\ Write(adds, asks, error)
          /\ pending' = pending \cup adds
    /\ UNCHANGED <<efuse, odd, mode, lock, op, reader>>

\* esp_efuse_batch_write_begin.
Begin(t) ==
    /\ CanLock(t)
    /\ mode < MaxNest
    /\ lock.depth < MaxDepth
    /\ lock' = Acquired(t)
    /\ mode' = mode + 1
    /\ IF mode = 0 THEN StartReset("hold") ELSE UNCHANGED <<odd, op, reader>>
    /\ UNCHANGED <<efuse, pending>>

\* Mutant: a cancelled batch keeps the lock.
CancelKeepsLock(t) ==
    /\ CanLock(t)
    /\ mode > 0
    /\ mode' = mode - 1
    /\ IF mode = 1 THEN StartReset("hold") ELSE UNCHANGED <<odd, op, reader>>
    /\ UNCHANGED <<efuse, pending, lock>>

\* Mutant: a cancel without a batch is not refused.
CancelUnguarded(t) ==
    /\ CanLock(t)
    /\ mode' = mode - 1
    /\ IF mode = 1 THEN StartReset("release")
                   ELSE UNCHANGED <<odd, op, reader>>
    /\ UNCHANGED <<efuse, pending, lock>>

\* esp_efuse_batch_write_cancel.
Cancel(t) ==
    /\ CanLock(t)
    /\ mode > 0
    /\ mode' = mode - 1
    /\ IF mode = 1 THEN StartReset("release")
                   ELSE UNCHANGED <<odd, op, reader>>
    /\ UNCHANGED <<efuse, pending, lock>>

\* esp_efuse_batch_write_commit; the lock is released when op ends.
Commit(t) ==
    /\ CanLock(t)
    /\ mode > 0
    /\ mode' = mode - 1
    /\ IF mode = 1
       THEN /\ Bump
            /\ op' = [pc |-> IF SchemeRefuses(pending) THEN "reset" ELSE "burn",
                      then |-> "release",
                      err |-> IF SchemeRefuses(pending) THEN "coding" ELSE "ok",
                      left |-> IF SchemeRefuses(pending) THEN {}
                                                         ELSE Needed(pending),
                      want |-> pending, before |-> efuse]
       ELSE UNCHANGED <<odd, op, reader>>
    /\ UNCHANGED <<efuse, pending, lock>>

-----------------------------------------------------------------------------
\* The second half of the reset, and what the call goes on with.
ResetDone ==
    /\ op.pc = "reset"
    /\ Bump
    /\ \/ /\ op.then = "prepare"
          /\ \E adds, asks \in SUBSET Bits, error \in {"ok"} \cup Refusals :
                /\ Write(adds, asks, error)
                /\ pending' = adds
                /\ op' = [op EXCEPT !.pc = "prepared", !.then = "sweep",
                             !.want = asks,
                             !.err = IF error = "ok" /\ SchemeRefuses(adds)
                                     THEN "coding" ELSE error]
          /\ UNCHANGED lock
       \/ /\ op.then \in {"hold", "release"}
          /\ pending' = {}
          /\ op' = NoOp
          /\ lock' = IF op.then = "release" THEN Released ELSE lock
    /\ UNCHANGED <<efuse, mode>>

\* Mutant: what was prepared before the error is burnt all the same.
BurnAnyway ==
    /\ op.pc = "prepared"
    /\ Bump
    /\ op' = [op EXCEPT !.pc = "burn", !.left = Needed(pending)]
    /\ UNCHANGED <<efuse, pending, mode, lock>>

\* The end of a write outside a batch: burn, or after an error reset.
Prepared ==
    /\ op.pc = "prepared"
    /\ Bump
    /\ op' = IF op.err = "ok"
             THEN [op EXCEPT !.pc = "burn", !.left = Needed(pending)]
             ELSE [op EXCEPT !.pc = "reset", !.then = "release"]
    /\ UNCHANGED <<efuse, pending, mode, lock>>

\* Mutant: a block that failed does not keep the others from being burnt.
BurnBlockOn ==
    /\ op.pc = "burn"
    /\ \E block \in op.left :
          /\ \A other \in op.left : other <= block
          /\ \E burnt \in SUBSET (pending \cap In(block)) :
                LET done == burnt = pending \cap In(block)
                IN  /\ efuse' = efuse \cup burnt
                    /\ op' = [op EXCEPT
                                !.left = @ \ {block},
                                !.err = IF done THEN @ ELSE "fail"]
    /\ UNCHANGED <<pending, odd, mode, lock, reader>>

\* burn_chip, a block: programmed, and read until it shows what was written
\* or three attempts are over; after an error the other blocks are skipped.
BurnBlock ==
    /\ op.pc = "burn"
    /\ \E block \in op.left :
          /\ \A other \in op.left : other <= block
          /\ \E burnt \in SUBSET (pending \cap In(block)) :
                LET done == burnt = pending \cap In(block)
                IN  /\ efuse' = efuse \cup burnt
                    /\ op' = [op EXCEPT
                                !.left = IF done THEN @ \ {block} ELSE {},
                                !.err = IF done THEN @ ELSE "fail"]
    /\ UNCHANGED <<pending, odd, mode, lock, reader>>

\* The reset at the end of burn_chip ...
BurnReset ==
    /\ op.pc = "burn"
    /\ op.left = {}
    /\ Bump
    /\ op' = [op EXCEPT !.pc = "reload"]
    /\ UNCHANGED <<efuse, pending, mode, lock>>

\* ... its second half ...
Reloaded ==
    /\ op.pc = "reload"
    /\ Bump
    /\ pending' = {}
    /\ op' = [op EXCEPT !.pc = "burnt"]
    /\ UNCHANGED <<efuse, mode, lock>>

\* ... and the end of burn_efuses, which is the end of a commit.
Burnt ==
    /\ op.pc = "burnt"
    /\ Bump
    /\ IF op.then = "sweep"
       THEN op' = [op EXCEPT !.pc = "swept"] /\ UNCHANGED lock
       ELSE op' = NoOp /\ lock' = Released
    /\ UNCHANGED <<efuse, pending, mode>>

\* The last reset of a write outside a batch that has burnt.
Swept ==
    /\ op.pc = "swept"
    /\ Bump
    /\ op' = [op EXCEPT !.pc = "reset", !.then = "release"]
    /\ UNCHANGED <<efuse, pending, mode, lock>>

-----------------------------------------------------------------------------
\* esp_efuse_read_field_blob and esp_efuse_read_field_cnt: count_before.
ReadStart(r) ==
    /\ reader[r] = NoRead
    /\ reader' = [reader EXCEPT ![r] = [at |-> 0, got |-> {}, same |-> TRUE]]
    /\ UNCHANGED <<efuse, pending, odd, mode, lock, op>>

\* A register of the field.
Read(r) ==
    /\ reader[r].at \in Regs
    /\ reader' = [reader EXCEPT
                    ![r].at = @ + 1,
                    ![r].got = @ \cup {b \in efuse : b[1] = reader[r].at}]
    /\ UNCHANGED <<efuse, pending, odd, mode, lock, op>>

\* Mutant: an odd counter that did not move goes unnoticed.
UnmovedOnly(rd) == rd.same

\* The test at the end of esp_efuse_utility_process; when it fails the read
\* is ESP_ERR_DAMAGED_READING.
Accepts(rd) == rd.same /\ ~odd

\* The call returns what it has read, or reads again.
ReadEnd(r) ==
    /\ reader[r].at = LastReg + 1
    /\ reader' = [reader EXCEPT ![r] =
                    IF Accepts(@) THEN NoRead
                    ELSE [at |-> 0, got |-> {}, same |-> TRUE]]
    /\ UNCHANGED <<efuse, pending, odd, mode, lock, op>>

Next ==
    \/ \E t \in Tasks :
          \/ WriteStart(t) \/ WriteInBatch(t)
          \/ Begin(t) \/ Cancel(t) \/ Commit(t)
    \/ ResetDone \/ Prepared
    \/ BurnBlock \/ BurnReset \/ Reloaded \/ Burnt \/ Swept
    \/ \E r \in Readers : ReadStart(r) \/ Read(r) \/ ReadEnd(r)

Spec == Init /\ [][Next]_vars

-----------------------------------------------------------------------------
\* Types of the state of the eFuse manager.
TypeOK ==
    /\ efuse \subseteq Bits
    /\ pending \subseteq Bits
    /\ odd \in BOOLEAN
    /\ mode \in 0 .. MaxNest
    /\ lock \in [owner : Tasks \cup {None}, depth : Nat]
    /\ op \in Op
    /\ reader \in [Readers -> Reader]

\* A read that esp_efuse_utility_process accepts is a snapshot: all its
\* registers show the eFuses of one moment, the present one, although the
\* reader takes no lock and a burn programs one block after the other.
AtomicReads ==
    \A r \in Readers :
        reader[r].at = LastReg + 1 /\ Accepts(reader[r])
            => reader[r].got = efuse

\* A call that goes well has burnt exactly the bits it was asked for, those
\* of a count and those of a batch included; one that was refused has burnt
\* none, and one whose burn failed none that it was not asked for.
Outcome ==
    op.pc \in {"reset", "reload", "burnt", "swept"} /\ op.then # "prepare" =>
        \/ op.err \in Refusals /\ efuse = op.before
        \/ op.err = "ok" /\ efuse = op.before \cup op.want
        \/ /\ op.err = "fail"
           /\ op.before \subseteq efuse
           /\ efuse \subseteq op.before \cup op.want

\* BLOCK0, whose bits protect the other blocks for good, gets nothing of a
\* call of which some bit in another block could not be burnt.
ProtectionLast ==
    (efuse \ op.before) \cap In(0) # {} => op.want \ In(0) \subseteq efuse

\* When no batch is open and no call in progress, the lock is free and no bit
\* waits to be burnt by a later call: the other tasks can write, and what they
\* burn is their own.
Quiescent ==
    mode = 0 /\ op.pc = "none" => lock.owner = None /\ pending = {}
=============================================================================
