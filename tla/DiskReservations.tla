-------------------------- MODULE DiskReservations --------------------------
(***************************************************************************)
(* The free space of the disk, shared by uploads and imports.  Each writer *)
(* reserves what it may write, asks again before every chunk, and gives    *)
(* back what it wrote once the write has returned: between the two, the    *)
(* chunk is both on the disk and in the reservation.                       *)
(***************************************************************************)
EXTENDS Naturals, FiniteSets, FiniteSetsExt

CONSTANTS Writer,
          Size,      \* the disk
          Minimum,   \* kept free (MIN_FREE_DISK_MB)
          MaxBytes,  \* bound on a reservation
          MaxOthers  \* bound on what other programs write

\* The disk has the minimum free before the first writer.
ASSUME DiskAssumption == /\ {Size, Minimum, MaxBytes, MaxOthers} \subseteq Nat /\ Minimum <= Size
                         /\ IsFiniteSet(Writer)

VARIABLES
  free,     \* the free space of the disk
  lease,    \* lease[w]: reserved and not given back
  phase,    \* phase[w]: idle, open, writing, failed, removed, done
  chunk,    \* chunk[w]: the chunk being written
  landed,   \* landed[w]: the part of it that is on the disk
  file,     \* file[w]: the bytes of the file, landed ones included
  others    \* what other programs have written

diskVars == <<free, lease, phase, chunk, landed, file, others>>

SumOf(f) == FoldSet(LAMBDA w, s : s + f[w], 0, Writer)

DiskInit ==
  /\ free = Size /\ others = 0
  /\ phase = [w \in Writer |-> "idle"]
  /\ lease = [w \in Writer |-> 0] /\ chunk = lease /\ landed = lease /\ file = lease

\* (mutant) what was reserved is not looked at
AvailableUnreserved(extra) == free >= Minimum + extra
Available(extra) == free >= Minimum + SumOf(lease) + extra

Reserve(w, bytes) ==
  /\ phase[w] = "idle" /\ Available(bytes)
  /\ phase' = [phase EXCEPT ![w] = "open"]
  /\ lease' = [lease EXCEPT ![w] = bytes]
  /\ UNCHANGED <<free, chunk, landed, file, others>>

\* Before a chunk.
WithinLease(w, count) == count <= lease[w]

Write(w, count) ==
  /\ phase[w] = "open" /\ WithinLease(w, count) /\ Available(0)
  /\ phase' = [phase EXCEPT ![w] = "writing"]
  /\ chunk' = [chunk EXCEPT ![w] = count]
  /\ UNCHANGED <<free, lease, landed, file, others>>

Refuse(w, count) ==
  /\ phase[w] = "open" /\ ~(WithinLease(w, count) /\ Available(0))
  /\ phase' = [phase EXCEPT ![w] = "failed"]
  /\ UNCHANGED <<free, lease, chunk, landed, file, others>>

\* The system writes a part of the chunk.
Land(w, n) ==
  /\ phase[w] = "writing" /\ landed[w] + n <= chunk[w] /\ n <= free
  /\ free' = free - n
  /\ landed' = [landed EXCEPT ![w] = @ + n]
  /\ file' = [file EXCEPT ![w] = @ + n]
  /\ UNCHANGED <<lease, phase, chunk, others>>

Consume(w) ==
  /\ phase[w] = "writing" /\ landed[w] = chunk[w]
  /\ lease' = [lease EXCEPT ![w] = @ - chunk[w]]
  /\ phase' = [phase EXCEPT ![w] = "open"]
  /\ chunk' = [chunk EXCEPT ![w] = 0] /\ landed' = [landed EXCEPT ![w] = 0]
  /\ UNCHANGED <<free, file, others>>

\* A write fails; the client goes away; the source cannot be read.
Fail(w) ==
  /\ phase[w] \in {"open", "writing"}
  /\ phase' = [phase EXCEPT ![w] = "failed"]
  /\ UNCHANGED <<free, lease, chunk, landed, file, others>>

\* The file is closed, then removed, then its reservation released.
RemoveFile(w) ==
  /\ phase[w] = "failed"
  /\ free' = free + file[w]
  /\ file' = [file EXCEPT ![w] = 0]
  /\ phase' = [phase EXCEPT ![w] = "removed"]
  /\ UNCHANGED <<lease, chunk, landed, others>>

Emptied(w) == /\ lease' = [lease EXCEPT ![w] = 0]
              /\ chunk' = [chunk EXCEPT ![w] = 0] /\ landed' = [landed EXCEPT ![w] = 0]

Release(w) ==
  /\ phase[w] \in {"removed", "open"}
  /\ Emptied(w)
  /\ phase' = [phase EXCEPT ![w] = IF @ = "open" THEN "done" ELSE "idle"]
  /\ UNCHANGED <<free, file, others>>

\* The finished file is used up: an upload that was imported, a job deleted.
Delete(w) ==
  /\ phase[w] = "done"
  /\ free' = free + file[w] /\ file' = [file EXCEPT ![w] = 0]
  /\ phase' = [phase EXCEPT ![w] = "idle"]
  /\ UNCHANGED <<lease, chunk, landed, others>>

\* The process ends: the reservations are gone and the files are not.
Crash ==
  /\ \E w \in Writer : lease[w] > 0
  /\ lease' = [w \in Writer |-> 0] /\ chunk' = lease' /\ landed' = lease'
  /\ phase' = [w \in Writer |-> IF file[w] > 0 THEN "done" ELSE "idle"]
  /\ UNCHANGED <<free, file, others>>

OthersWrite(n) ==
  /\ n <= free /\ others + n <= MaxOthers
  /\ free' = free - n /\ others' = others + n
  /\ UNCHANGED <<lease, phase, chunk, landed, file>>

DiskNext ==
  \/ Crash
  \/ \E n \in 1 .. MaxBytes :
       \/ OthersWrite(n)
       \/ \E w \in Writer : Reserve(w, n) \/ Write(w, n) \/ Refuse(w, n) \/ Land(w, n)
  \/ \E w \in Writer : Consume(w) \/ Fail(w) \/ RemoveFile(w) \/ Release(w) \/ Delete(w)

DiskSpec == DiskInit /\ [][DiskNext]_diskVars

----------------------------------------------------------------------------

DiskTypeOK ==
  /\ free \in 0 .. Size /\ others \in 0 .. MaxOthers
  /\ \A w \in Writer : /\ lease[w] \in 0 .. MaxBytes /\ file[w] \in 0 .. MaxBytes
                       /\ landed[w] \in 0 .. chunk[w] /\ chunk[w] \in 0 .. lease[w]

\* Whatever the writers do together, the space they may still fill leaves the
\* minimum free, up to what other programs took.
MinimumIsKept ==
  /\ DiskTypeOK
  /\ free + others + SumOf(landed) >= Minimum + SumOf(lease)

\* A writer is not refused what it reserved as long as no other program writes
\* to the disk.
GrantedIsHonoured ==
  \A w \in Writer : (others = 0 /\ phase[w] = "open" /\ lease[w] > 0) => Available(0)
=============================================================================
