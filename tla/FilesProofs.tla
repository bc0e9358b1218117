---------------------------- MODULE FilesProofs ----------------------------
(***************************************************************************)
(* Proofs about the files.  What the reservations of disk space promise    *)
(* for any writers, any size of disk and any minimum: the files never take *)
(* the free space below the minimum (DiskReservations).  What is made of a *)
(* workbook is what its preview announced (SheetImport).  What a workbook  *)
(* is given is what the screen shows, and its columns have places of their *)
(* own (Workbook).                                                         *)
(***************************************************************************)
EXTENDS DiskReservations, SheetImport, Workbook, FiniteSetTheorems, WellFoundedInduction,
        NaturalsInduction, TLAPS

----------------------------------------------------------------------------
(* Sums over the writers.  An induction over data is an argument on the      *)
(* smallest element of a set of counterexamples.                             *)

\* A set of numbers with 0 and each successor of its elements has them all.
LEMMA AllNumbers ==
  ASSUME NEW T \in SUBSET Nat, 0 \in T, \A n \in T : n + 1 \in T
  PROVE  T = Nat
<1> SUFFICES ASSUME Nat \ T # {} PROVE FALSE
  OBVIOUS
<1>1. PICK x \in Nat \ T : \A y \in Nat \ T : ~(<<y, x>> \in OpToRel(<, Nat))
  BY WFMin, NatLessThanWellFounded, Zenon
<1>2. x \in Nat /\ x \notin T /\ \A y \in Nat \ T : ~(y < x)
  BY <1>1 DEF OpToRel
<1>3. x # 0 /\ x - 1 \in Nat
  BY <1>2
<1>4. x - 1 \in T
  BY <1>2, <1>3
<1>5. (x - 1) + 1 \in T
  BY <1>4
<1> QED BY <1>2, <1>5

\* A set of numbers that is not empty has a least.
LEMMA LeastOf ==
  ASSUME NEW T \in SUBSET Nat, T # {}
  PROVE  \E m \in T : \A k \in T : m <= k
<1>1. PICK m \in T : \A y \in T : ~(<<y, m>> \in OpToRel(<, Nat))
  BY WFMin, NatLessThanWellFounded, Zenon
<1>2. \A y \in T : ~(y < m)
  BY <1>1 DEF OpToRel
<1> QED BY <1>2

\* The writer that the fold takes next.
NextOf(s) == CHOOSE x \in s : TRUE

LEMMA NextOfIs == ASSUME NEW s, s # {} PROVE NextOf(s) \in s
BY DEF NextOf

LEMMA Smaller ==
  ASSUME NEW s \in SUBSET Writer, s # {}
  PROVE  /\ s \ {NextOf(s)} \in SUBSET Writer /\ NextOf(s) \in Writer
         /\ Cardinality(s) \in Nat /\ Cardinality(s \ {NextOf(s)}) = Cardinality(s) - 1
<1>1. IsFiniteSet(s) /\ NextOf(s) \in s
  BY DiskAssumption, FS_Subset, NextOfIs
<1> QED BY <1>1, FS_RemoveElement, FS_CardinalityType

\* A set of sets of writers with {} and each set whose rest it has has them all.
LEMMA AllSubsets ==
  ASSUME NEW T \in SUBSET (SUBSET Writer), {} \in T,
         \A s \in SUBSET Writer : (s # {} /\ s \ {NextOf(s)} \in T) => s \in T
  PROVE  T = SUBSET Writer
<1> DEFINE Proved == {n \in Nat : \A s \in SUBSET Writer : Cardinality(s) = n => s \in T}
<1>1. \A s \in SUBSET Writer : IsFiniteSet(s) /\ Cardinality(s) \in Nat
  BY DiskAssumption, FS_Subset, FS_CardinalityType
<1>2. 0 \in Proved
  BY <1>1, FS_EmptySet
<1>3. ASSUME NEW n \in Proved PROVE n + 1 \in Proved
  <2> SUFFICES ASSUME NEW s \in SUBSET Writer, Cardinality(s) = n + 1 PROVE s \in T
    OBVIOUS
  <2>1. s # {}
    BY FS_EmptySet
  <2>2. s \ {NextOf(s)} \in SUBSET Writer /\ Cardinality(s \ {NextOf(s)}) = n
    BY <2>1, Smaller
  <2>3. s \ {NextOf(s)} \in T
    BY <1>3, <2>2
  <2> QED BY <2>1, <2>3
<1> HIDE DEF Proved
<1>4. Proved = Nat
  <2>1. Proved \in SUBSET Nat
    BY DEF Proved
  <2> QED BY <1>2, <1>3, <2>1, AllNumbers
<1> QED BY <1>1, <1>4 DEF Proved

\* The sums that the fold goes through.
Sums(f) == CHOOSE g : g = [s \in SUBSET Writer |-> IF s = {} THEN 0 ELSE g[s \ {NextOf(s)}] + f[NextOf(s)]]

LEMMA SumIsTheLast == ASSUME NEW f PROVE SumOf(f) = Sums(f)[Writer]
BY DEF SumOf, FoldSet, MapThenFoldSet, Sums, NextOf

Summed(g, f, s) == g[s] = IF s = {} THEN 0 ELSE g[s \ {NextOf(s)}] + f[NextOf(s)]

LEMMA SumsExist ==
  ASSUME NEW f \in [Writer -> Nat]
  PROVE  \E g \in [SUBSET Writer -> Nat] : \A s \in SUBSET Writer : Summed(g, f, s)
<1> DEFINE Upto(n, g) == \A s \in SUBSET Writer : Cardinality(s) <= n => Summed(g, f, s)
           Proved == {n \in Nat : \E g \in [SUBSET Writer -> Nat] : Upto(n, g)}
<1>1. \A s \in SUBSET Writer : /\ IsFiniteSet(s) /\ Cardinality(s) \in Nat
                               /\ Cardinality(s) = 0 <=> s = {}
  BY DiskAssumption, FS_Subset, FS_CardinalityType, FS_EmptySet
<1>2. 0 \in Proved
  <2> DEFINE g == [s \in SUBSET Writer |-> 0]
  <2>1. g \in [SUBSET Writer -> Nat] /\ Upto(0, g)
    BY <1>1 DEF Summed
  <2> QED BY <2>1
<1>3. ASSUME NEW n \in Proved PROVE n + 1 \in Proved
  <2>1. PICK g \in [SUBSET Writer -> Nat] : Upto(n, g)
    BY <1>3
  <2> DEFINE h == [s \in SUBSET Writer |-> IF Cardinality(s) <= n THEN g[s]
                     ELSE IF s = {} THEN 0 ELSE g[s \ {NextOf(s)}] + f[NextOf(s)]]
  <2>2. h \in [SUBSET Writer -> Nat]
    <3> SUFFICES ASSUME NEW s \in SUBSET Writer, s # {} PROVE g[s \ {NextOf(s)}] + f[NextOf(s)] \in Nat
      OBVIOUS
    <3> QED BY Smaller
  <2>3. ASSUME NEW s \in SUBSET Writer, Cardinality(s) <= n + 1 PROVE Summed(h, f, s)
    <3>1. CASE s = {}
      BY <1>1, <2>1, <3>1 DEF Summed
    <3>2. CASE s # {}
      <4>1. /\ s \ {NextOf(s)} \in SUBSET Writer
            /\ Cardinality(s) \in Nat /\ Cardinality(s \ {NextOf(s)}) <= n
        BY <2>3, <3>2, Smaller
      <4>2. h[s \ {NextOf(s)}] = g[s \ {NextOf(s)}]
        BY <4>1
      <4>3. h[s] = g[s \ {NextOf(s)}] + f[NextOf(s)]
        BY <2>1, <3>2, <4>1 DEF Summed
      <4> QED BY <3>2, <4>2, <4>3 DEF Summed
    <3> QED BY <3>1, <3>2
  <2> HIDE DEF h
  <2>4. Upto(n + 1, h)
    BY <2>3
  <2> QED BY <2>2, <2>4
<1> HIDE DEF Proved
<1>4. Proved = Nat
  <2>1. Proved \in SUBSET Nat
    BY DEF Proved
  <2> QED BY <1>2, <1>3, <2>1, AllNumbers
<1>5. PICK g \in [SUBSET Writer -> Nat] : Upto(Cardinality(Writer), g)
  BY <1>1, <1>4 DEF Proved
<1>6. \A s \in SUBSET Writer : Cardinality(s) <= Cardinality(Writer)
  BY DiskAssumption, FS_Subset
<1> QED BY <1>5, <1>6

LEMMA SumsAre ==
  ASSUME NEW f \in [Writer -> Nat]
  PROVE  \A s \in SUBSET Writer : Summed(Sums(f), f, s)
<1> DEFINE Unfolded(g) == [s \in SUBSET Writer |-> IF s = {} THEN 0 ELSE g[s \ {NextOf(s)}] + f[NextOf(s)]]
<1>1. PICK g \in [SUBSET Writer -> Nat] : \A s \in SUBSET Writer : Summed(g, f, s)
  BY SumsExist
<1>2. g = Unfolded(g)
  BY <1>1 DEF Summed
<1>3. Sums(f) = Unfolded(Sums(f))
  BY <1>2 DEF Sums
<1> QED BY <1>3 DEF Summed

LEMMA SumsAreNumbers ==
  ASSUME NEW f \in [Writer -> Nat]
  PROVE  \A s \in SUBSET Writer : Sums(f)[s] \in Nat
<1> DEFINE T == {s \in SUBSET Writer : Sums(f)[s] \in Nat}
<1>1. {} \in T
  <2>1. Summed(Sums(f), f, {})
    BY SumsAre
  <2> QED BY <2>1 DEF Summed
<1>2. ASSUME NEW s \in SUBSET Writer, s # {}, s \ {NextOf(s)} \in T PROVE s \in T
  <2>1. Summed(Sums(f), f, s)
    BY SumsAre
  <2>2. f[NextOf(s)] \in Nat
    BY <1>2, Smaller
  <2> QED BY <1>2, <2>1, <2>2 DEF Summed
<1> HIDE DEF T
<1>3. T = SUBSET Writer
  <2>1. T \in SUBSET (SUBSET Writer)
    BY DEF T
  <2> QED BY <1>1, <1>2, <2>1, AllSubsets
<1> QED BY <1>3 DEF T

\* A sum is a number, and the sum of nothings is nothing.
LEMMA SumType == ASSUME NEW f \in [Writer -> Nat] PROVE SumOf(f) \in Nat
BY SumIsTheLast, SumsAreNumbers

LEMMA SumOfNothing == SumOf([w \in Writer |-> 0]) = 0
<1> DEFINE f == [w \in Writer |-> 0]
           T == {s \in SUBSET Writer : Sums(f)[s] = 0}
<1>1. f \in [Writer -> Nat]
  OBVIOUS
<1>2. {} \in T
  BY <1>1, SumsAre DEF Summed
<1>3. ASSUME NEW s \in SUBSET Writer, s # {}, s \ {NextOf(s)} \in T PROVE s \in T
  <2>1. f[NextOf(s)] = 0
    BY <1>3, Smaller
  <2>2. Summed(Sums(f), f, s)
    BY <1>1, SumsAre
  <2> HIDE DEF f
  <2> QED BY <1>3, <2>1, <2>2 DEF Summed
<1> HIDE DEF T
<1>4. T = SUBSET Writer
  <2>1. T \in SUBSET (SUBSET Writer)
    BY DEF T
  <2> QED BY <1>2, <1>3, <2>1, AllSubsets
<1> QED BY <1>4, SumIsTheLast DEF T

\* What changes at one writer changes in the sum.
LEMMA SumChanges ==
  ASSUME NEW f \in [Writer -> Nat], NEW g \in [Writer -> Nat], NEW w \in Writer,
         \A v \in Writer \ {w} : g[v] = f[v]
  PROVE  SumOf(g) + f[w] = SumOf(f) + g[w]
<1> DEFINE T == {s \in SUBSET Writer : Sums(g)[s] + (IF w \in s THEN f[w] ELSE 0)
                                         = Sums(f)[s] + (IF w \in s THEN g[w] ELSE 0)}
<1>1. {} \in T
  BY SumsAre DEF Summed
<1>2. ASSUME NEW s \in SUBSET Writer, s # {}, s \ {NextOf(s)} \in T PROVE s \in T
  <2>1. NextOf(s) \in s /\ NextOf(s) \in Writer /\ s \ {NextOf(s)} \in SUBSET Writer
    BY <1>2, NextOfIs, Smaller
  <2>2. /\ Sums(f)[s] = Sums(f)[s \ {NextOf(s)}] + f[NextOf(s)]
        /\ Sums(g)[s] = Sums(g)[s \ {NextOf(s)}] + g[NextOf(s)]
    BY <1>2, SumsAre DEF Summed
  <2>3. {Sums(f)[s \ {NextOf(s)}], Sums(g)[s \ {NextOf(s)}]} \subseteq Nat
    BY <2>1, SumsAreNumbers
  <2>4. {f[w], g[w], f[NextOf(s)], g[NextOf(s)]} \subseteq Nat
    BY <2>1
  <2>5. CASE NextOf(s) = w
    BY <1>2, <2>1, <2>2, <2>3, <2>4, <2>5
  <2>6. CASE NextOf(s) # w
    <3>1. g[NextOf(s)] = f[NextOf(s)] /\ (w \in s <=> w \in s \ {NextOf(s)})
      BY <2>1, <2>6
    <3> QED BY <1>2, <2>1, <2>2, <2>3, <2>4, <3>1
  <2> QED BY <2>5, <2>6
<1> HIDE DEF T
<1>3. T = SUBSET Writer
  <2>1. T \in SUBSET (SUBSET Writer)
    BY DEF T
  <2> QED BY <1>1, <1>2, <2>1, AllSubsets
<1> QED BY <1>3, SumIsTheLast DEF T

\* What is less everywhere is less in sum.
LEMMA SumGrows ==
  ASSUME NEW f \in [Writer -> Nat], NEW g \in [Writer -> Nat], \A w \in Writer : f[w] <= g[w]
  PROVE  SumOf(f) <= SumOf(g)
<1> DEFINE T == {s \in SUBSET Writer : Sums(f)[s] <= Sums(g)[s]}
<1>1. {} \in T
  <2>1. Summed(Sums(f), f, {}) /\ Summed(Sums(g), g, {})
    BY SumsAre
  <2> QED BY <2>1 DEF Summed
<1>2. ASSUME NEW s \in SUBSET Writer, s # {}, s \ {NextOf(s)} \in T PROVE s \in T
  <2>1. NextOf(s) \in Writer /\ s \ {NextOf(s)} \in SUBSET Writer
    BY <1>2, Smaller
  <2>2. /\ Sums(f)[s] = Sums(f)[s \ {NextOf(s)}] + f[NextOf(s)]
        /\ Sums(g)[s] = Sums(g)[s \ {NextOf(s)}] + g[NextOf(s)]
    BY <1>2, SumsAre DEF Summed
  <2>3. {Sums(f)[s \ {NextOf(s)}], Sums(g)[s \ {NextOf(s)}]} \subseteq Nat
    BY <2>1, SumsAreNumbers
  <2>4. f[NextOf(s)] \in Nat /\ g[NextOf(s)] \in Nat /\ f[NextOf(s)] <= g[NextOf(s)]
    BY <2>1
  <2> QED BY <1>2, <2>2, <2>3, <2>4
<1> HIDE DEF T
<1>3. T = SUBSET Writer
  <2>1. T \in SUBSET (SUBSET Writer)
    BY DEF T
  <2> QED BY <1>1, <1>2, <2>1, AllSubsets
<1> QED BY <1>3, SumIsTheLast DEF T
----------------------------------------------------------------------------
(* The free space of the disk (DiskReservations). *)

\* What a writer holds, by what it is doing; what it has written and may still
\* write is what it reserved at first.
WriterHolds(w) ==
  /\ file[w] + lease[w] <= MaxBytes + landed[w]
  /\ phase[w] = "idle" => file[w] = 0
  /\ phase[w] \in {"idle", "done"} => lease[w] = 0
  /\ phase[w] \in {"idle", "open", "done"} => chunk[w] = 0
  /\ phase[w] = "removed" => file[w] = 0

DiskTyped == /\ {lease, landed, chunk, file} \subseteq [Writer -> Nat]
             /\ phase \in [Writer -> {"idle", "open", "writing", "failed", "removed", "done"}]

\* What is not free was written by somebody.
DiskInv == /\ MinimumIsKept /\ DiskTyped
           /\ free + others + SumOf(file) = Size
           /\ \A w \in Writer : WriterHolds(w)

LEMMA DiskInitially == DiskInit => DiskInv
<1> SUFFICES ASSUME DiskInit PROVE DiskInv
  OBVIOUS
<1>1. /\ free = Size /\ others = 0 /\ phase = [w \in Writer |-> "idle"]
      /\ lease = [w \in Writer |-> 0] /\ chunk = lease /\ landed = lease /\ file = lease
  BY DEF DiskInit
<1>2. SumOf(lease) = 0 /\ SumOf(landed) = 0 /\ SumOf(file) = 0
  BY <1>1, SumOfNothing
<1>3. DiskTyped /\ \A w \in Writer : WriterHolds(w)
  BY <1>1, DiskAssumption DEF DiskTyped, WriterHolds
<1>4. DiskTypeOK
  BY <1>1, DiskAssumption DEF DiskTypeOK
<1>5. free + others + SumOf(landed) >= Minimum + SumOf(lease)
  BY <1>1, <1>2, DiskAssumption
<1> QED BY <1>1, <1>2, <1>3, <1>4, <1>5, DiskAssumption DEF DiskInv, MinimumIsKept

\* What the invariant says in numbers.
LEMMA InNumbers ==
  ASSUME DiskInv
  PROVE  /\ {Size, Minimum, MaxBytes, MaxOthers, free, others} \subseteq Nat
         /\ free <= Size /\ others <= MaxOthers
         /\ \A w \in Writer : /\ {lease[w], landed[w], chunk[w], file[w]} \subseteq Nat
                              /\ landed[w] <= chunk[w] /\ chunk[w] <= lease[w]
                              /\ lease[w] <= MaxBytes /\ file[w] <= MaxBytes
         /\ {SumOf(lease), SumOf(landed), SumOf(file)} \subseteq Nat
         /\ SumOf(landed) <= SumOf(lease)
         /\ free + others + SumOf(landed) >= Minimum + SumOf(lease)
         /\ free + others + SumOf(file) = Size
<1>1. /\ lease \in [Writer -> Nat] /\ landed \in [Writer -> Nat]
      /\ chunk \in [Writer -> Nat] /\ file \in [Writer -> Nat]
  BY DEF DiskInv, DiskTyped
<1>2. DiskTypeOK
  BY DEF DiskInv, MinimumIsKept
<1>3. /\ {Size, Minimum, MaxBytes, MaxOthers, free, others} \subseteq Nat
      /\ free <= Size /\ others <= MaxOthers
  BY <1>2, DiskAssumption DEF DiskTypeOK
<1>4. ASSUME NEW w \in Writer
      PROVE  /\ {lease[w], landed[w], chunk[w], file[w]} \subseteq Nat
             /\ landed[w] <= chunk[w] /\ chunk[w] <= lease[w]
             /\ lease[w] <= MaxBytes /\ file[w] <= MaxBytes
  <2>1. {lease[w], landed[w], chunk[w], file[w]} \subseteq Nat
    BY <1>1
  <2> QED BY <1>2, <1>3, <2>1 DEF DiskTypeOK
<1>5. {SumOf(lease), SumOf(landed), SumOf(file)} \subseteq Nat
  BY <1>1, SumType
<1>6. SumOf(landed) <= SumOf(lease)
  <2>1. \A w \in Writer : landed[w] <= lease[w]
    BY <1>4
  <2> QED BY <1>1, <2>1, SumGrows
<1> QED BY <1>3, <1>4, <1>5, <1>6 DEF DiskInv, MinimumIsKept

\* One writer's step: what it is given, and that it may be given that.
Gets(w, l, b, c, f, p) ==
  /\ lease' = [lease EXCEPT ![w] = l] /\ landed' = [landed EXCEPT ![w] = b]
  /\ chunk' = [chunk EXCEPT ![w] = c] /\ file' = [file EXCEPT ![w] = f]
  /\ phase' = [phase EXCEPT ![w] = p] /\ others' = others
MayGet(w, l, b, c, f, p) ==
  /\ {l, b, c, f, free'} \subseteq Nat
  /\ p \in {"idle", "open", "writing", "failed", "removed", "done"}
  /\ b <= c /\ c <= l /\ l <= MaxBytes /\ f <= MaxBytes /\ f + l <= MaxBytes + b
  /\ p \in {"idle", "removed"} => f = 0
  /\ p \in {"idle", "done"} => l = 0
  /\ p \in {"idle", "open", "done"} => c = 0
  /\ free' + f = free + file[w]
  /\ free' + others + SumOf(landed) + b + lease[w] >= Minimum + SumOf(lease) + l + landed[w]

LEMMA WriterStep ==
  ASSUME DiskInv, NEW w \in Writer, NEW l, NEW b, NEW c, NEW f, NEW p,
         Gets(w, l, b, c, f, p), MayGet(w, l, b, c, f, p)
  PROVE  DiskInv'
<1>0. /\ lease' = [lease EXCEPT ![w] = l] /\ landed' = [landed EXCEPT ![w] = b]
      /\ chunk' = [chunk EXCEPT ![w] = c] /\ file' = [file EXCEPT ![w] = f]
      /\ phase' = [phase EXCEPT ![w] = p] /\ others' = others
      /\ l \in Nat /\ b \in Nat /\ c \in Nat /\ f \in Nat /\ free' \in Nat
      /\ p \in {"idle", "open", "writing", "failed", "removed", "done"}
      /\ b <= c /\ c <= l /\ l <= MaxBytes /\ f <= MaxBytes /\ f + l <= MaxBytes + b
      /\ p \in {"idle", "removed"} => f = 0
      /\ p \in {"idle", "done"} => l = 0
      /\ p \in {"idle", "open", "done"} => c = 0
      /\ free' + f = free + file[w]
      /\ free' + others + SumOf(landed) + b + lease[w] >= Minimum + SumOf(lease) + l + landed[w]
  BY DEF Gets, MayGet
<1> USE InNumbers
<1>1. /\ lease \in [Writer -> Nat] /\ landed \in [Writer -> Nat]
      /\ chunk \in [Writer -> Nat] /\ file \in [Writer -> Nat]
      /\ phase \in [Writer -> {"idle", "open", "writing", "failed", "removed", "done"}]
  BY DEF DiskInv, DiskTyped
<1>2. /\ lease' \in [Writer -> Nat] /\ landed' \in [Writer -> Nat]
      /\ chunk' \in [Writer -> Nat] /\ file' \in [Writer -> Nat]
      /\ phase' \in [Writer -> {"idle", "open", "writing", "failed", "removed", "done"}]
  BY <1>0, <1>1
<1>3. /\ lease'[w] = l /\ landed'[w] = b /\ chunk'[w] = c /\ file'[w] = f /\ phase'[w] = p
      /\ \A v \in Writer \ {w} : /\ lease'[v] = lease[v] /\ landed'[v] = landed[v]
                                 /\ chunk'[v] = chunk[v] /\ file'[v] = file[v] /\ phase'[v] = phase[v]
  BY <1>0, <1>1
<1>4. SumOf(lease') + lease[w] = SumOf(lease) + l
  BY <1>1, <1>2, <1>3, SumChanges
<1>5. SumOf(landed') + landed[w] = SumOf(landed) + b
  BY <1>1, <1>2, <1>3, SumChanges
<1>6. SumOf(file') + file[w] = SumOf(file) + f
  BY <1>1, <1>2, <1>3, SumChanges
<1>7. {SumOf(lease'), SumOf(landed'), SumOf(file')} \subseteq Nat
  BY <1>2, SumType
<1>8. free' + others' + SumOf(file') = Size
  BY <1>0, <1>6, <1>7
<1>9. free' + others' + SumOf(landed') >= Minimum + SumOf(lease')
  BY <1>0, <1>4, <1>5, <1>7
<1>10. free' <= Size
  BY <1>0, <1>7, <1>8
<1>11. ASSUME NEW v \in Writer
       PROVE  /\ lease'[v] \in 0 .. MaxBytes /\ file'[v] \in 0 .. MaxBytes
              /\ landed'[v] \in 0 .. chunk'[v] /\ chunk'[v] \in 0 .. lease'[v]
  BY <1>0, <1>3
<1>12. DiskTypeOK'
  BY <1>0, <1>10, <1>11 DEF DiskTypeOK
<1>13. \A v \in Writer : WriterHolds(v)'
  <2> SUFFICES ASSUME NEW v \in Writer PROVE WriterHolds(v)'
    OBVIOUS
  <2>1. CASE v = w
    BY <1>0, <1>3, <2>1 DEF WriterHolds
  <2>2. CASE v # w
    <3>1. WriterHolds(v)
      BY DEF DiskInv
    <3> QED BY <1>3, <2>2, <3>1 DEF WriterHolds
  <2> QED BY <2>1, <2>2
<1> QED BY <1>2, <1>8, <1>9, <1>12, <1>13 DEF DiskInv, MinimumIsKept, DiskTyped

LEMMA DiskStep == DiskInv /\ [DiskNext]_diskVars => DiskInv'
<1> SUFFICES ASSUME DiskInv, [DiskNext]_diskVars PROVE DiskInv'
  OBVIOUS
<1> USE InNumbers
<1>1. /\ lease \in [Writer -> Nat] /\ landed \in [Writer -> Nat]
      /\ chunk \in [Writer -> Nat] /\ file \in [Writer -> Nat]
      /\ phase \in [Writer -> {"idle", "open", "writing", "failed", "removed", "done"}]
  BY DEF DiskInv, DiskTyped
<1>2. \A v \in Writer : WriterHolds(v)
  BY DEF DiskInv
<1>3. \A v \in Writer : /\ lease = [lease EXCEPT ![v] = lease[v]] /\ landed = [landed EXCEPT ![v] = landed[v]]
                        /\ chunk = [chunk EXCEPT ![v] = chunk[v]] /\ file = [file EXCEPT ![v] = file[v]]
  BY <1>1
<1>4. ASSUME NEW w \in Writer, NEW n \in 1 .. MaxBytes, Reserve(w, n) PROVE DiskInv'
  <2>1. /\ lease[w] = 0 /\ landed[w] = 0 /\ chunk[w] = 0 /\ file[w] = 0
        /\ free >= Minimum + SumOf(lease) + n
    BY <1>2, <1>4 DEF Reserve, WriterHolds, Available
  <2>2. /\ lease' = [lease EXCEPT ![w] = n] /\ landed' = [landed EXCEPT ![w] = 0]
        /\ chunk' = [chunk EXCEPT ![w] = 0] /\ file' = [file EXCEPT ![w] = 0]
        /\ phase' = [phase EXCEPT ![w] = "open"] /\ UNCHANGED <<free, others>>
    BY <1>3, <1>4, <2>1 DEF Reserve
  <2>5. Gets(w, n, 0, 0, 0, "open")
    BY <2>1, <2>2 DEF Gets
  <2>6. MayGet(w, n, 0, 0, 0, "open")
    BY <2>1, <2>2 DEF MayGet
  <2> QED BY <2>5, <2>6, WriterStep
<1>5. ASSUME NEW w \in Writer, NEW n \in 1 .. MaxBytes, Write(w, n) PROVE DiskInv'
  <2>1. chunk[w] = 0 /\ landed[w] = 0 /\ n <= lease[w]
    BY <1>2, <1>5 DEF Write, WithinLease, WriterHolds
  <2>2. /\ lease' = [lease EXCEPT ![w] = lease[w]] /\ landed' = [landed EXCEPT ![w] = 0]
        /\ chunk' = [chunk EXCEPT ![w] = n] /\ file' = [file EXCEPT ![w] = file[w]]
        /\ phase' = [phase EXCEPT ![w] = "writing"] /\ UNCHANGED <<free, others>>
    BY <1>3, <1>5, <2>1 DEF Write
  <2>3. file[w] + lease[w] <= MaxBytes + landed[w]
    BY <1>2 DEF WriterHolds
  <2>5. Gets(w, lease[w], 0, n, file[w], "writing")
    BY <2>1, <2>2, <2>3 DEF Gets
  <2>6. MayGet(w, lease[w], 0, n, file[w], "writing")
    BY <2>1, <2>2, <2>3 DEF MayGet
  <2> QED BY <2>5, <2>6, WriterStep
<1>6. ASSUME NEW w \in Writer, \/ \E n \in 1 .. MaxBytes : Refuse(w, n)
                               \/ Fail(w)
      PROVE  DiskInv'
  <2>1. /\ lease' = [lease EXCEPT ![w] = lease[w]] /\ landed' = [landed EXCEPT ![w] = landed[w]]
        /\ chunk' = [chunk EXCEPT ![w] = chunk[w]] /\ file' = [file EXCEPT ![w] = file[w]]
        /\ phase' = [phase EXCEPT ![w] = "failed"] /\ UNCHANGED <<free, others>>
    BY <1>3, <1>6 DEF Refuse, Fail
  <2>2. file[w] + lease[w] <= MaxBytes + landed[w]
    BY <1>2 DEF WriterHolds
  <2>5. Gets(w, lease[w], landed[w], chunk[w], file[w], "failed")
    BY <2>1, <2>2 DEF Gets
  <2>6. MayGet(w, lease[w], landed[w], chunk[w], file[w], "failed")
    BY <2>1, <2>2 DEF MayGet
  <2> QED BY <2>5, <2>6, WriterStep
<1>7. ASSUME NEW w \in Writer, NEW n \in 1 .. MaxBytes, Land(w, n) PROVE DiskInv'
  <2>1. /\ landed[w] + n <= chunk[w] /\ n <= free /\ free' = free - n
        /\ lease' = [lease EXCEPT ![w] = lease[w]] /\ landed' = [landed EXCEPT ![w] = landed[w] + n]
        /\ chunk' = [chunk EXCEPT ![w] = chunk[w]] /\ file' = [file EXCEPT ![w] = file[w] + n]
        /\ phase' = [phase EXCEPT ![w] = "writing"] /\ UNCHANGED others
    BY <1>1, <1>3, <1>7 DEF Land
  <2>2. file[w] + lease[w] <= MaxBytes + landed[w]
    BY <1>2 DEF WriterHolds
  <2>3. /\ landed[w] + n \in Nat /\ file[w] + n \in Nat /\ free' \in Nat
        /\ file[w] + n <= MaxBytes
    BY <2>1, <2>2
  <2>5. Gets(w, lease[w], landed[w] + n, chunk[w], file[w] + n, "writing")
    BY <2>1, <2>2, <2>3 DEF Gets
  <2>6. MayGet(w, lease[w], landed[w] + n, chunk[w], file[w] + n, "writing")
    BY <2>1, <2>2, <2>3 DEF MayGet
  <2> QED BY <2>5, <2>6, WriterStep
<1>8. ASSUME NEW w \in Writer, Consume(w) PROVE DiskInv'
  <2>1. /\ landed[w] = chunk[w]
        /\ lease' = [lease EXCEPT ![w] = lease[w] - chunk[w]] /\ landed' = [landed EXCEPT ![w] = 0]
        /\ chunk' = [chunk EXCEPT ![w] = 0] /\ file' = [file EXCEPT ![w] = file[w]]
        /\ phase' = [phase EXCEPT ![w] = "open"] /\ UNCHANGED <<free, others>>
    BY <1>1, <1>3, <1>8 DEF Consume
  <2>2. file[w] + lease[w] <= MaxBytes + landed[w]
    BY <1>2 DEF WriterHolds
  <2>3. lease[w] - chunk[w] \in Nat
    OBVIOUS
  <2>5. Gets(w, lease[w] - chunk[w], 0, 0, file[w], "open")
    BY <2>1, <2>2, <2>3 DEF Gets
  <2>6. MayGet(w, lease[w] - chunk[w], 0, 0, file[w], "open")
    BY <2>1, <2>2, <2>3 DEF MayGet
  <2> QED BY <2>5, <2>6, WriterStep
<1>9. ASSUME NEW w \in Writer, RemoveFile(w) PROVE DiskInv'
  <2>1. /\ free' = free + file[w]
        /\ lease' = [lease EXCEPT ![w] = lease[w]] /\ landed' = [landed EXCEPT ![w] = landed[w]]
        /\ chunk' = [chunk EXCEPT ![w] = chunk[w]] /\ file' = [file EXCEPT ![w] = 0]
        /\ phase' = [phase EXCEPT ![w] = "removed"] /\ UNCHANGED others
    BY <1>3, <1>9 DEF RemoveFile
  <2>5. Gets(w, lease[w], landed[w], chunk[w], 0, "removed")
    BY <2>1 DEF Gets
  <2>6. MayGet(w, lease[w], landed[w], chunk[w], 0, "removed")
    BY <2>1 DEF MayGet
  <2> QED BY <2>5, <2>6, WriterStep
<1>10. ASSUME NEW w \in Writer, Release(w) PROVE DiskInv'
  <2>1. PICK p \in {"idle", "done"} :
          /\ lease' = [lease EXCEPT ![w] = 0] /\ landed' = [landed EXCEPT ![w] = 0]
          /\ chunk' = [chunk EXCEPT ![w] = 0] /\ file' = [file EXCEPT ![w] = file[w]]
          /\ phase' = [phase EXCEPT ![w] = p] /\ UNCHANGED <<free, others>>
          /\ p = "idle" => file[w] = 0
    BY <1>1, <1>2, <1>3, <1>10 DEF Release, Emptied, WriterHolds
  <2>5. Gets(w, 0, 0, 0, file[w], p)
    BY <2>1 DEF Gets
  <2>6. MayGet(w, 0, 0, 0, file[w], p)
    BY <2>1 DEF MayGet
  <2> QED BY <2>5, <2>6, WriterStep
<1>11. ASSUME NEW w \in Writer, Delete(w) PROVE DiskInv'
  <2>1. /\ free' = free + file[w] /\ lease[w] = 0 /\ chunk[w] = 0 /\ landed[w] = 0
        /\ lease' = [lease EXCEPT ![w] = 0] /\ landed' = [landed EXCEPT ![w] = 0]
        /\ chunk' = [chunk EXCEPT ![w] = 0] /\ file' = [file EXCEPT ![w] = 0]
        /\ phase' = [phase EXCEPT ![w] = "idle"] /\ UNCHANGED others
    BY <1>2, <1>3, <1>11 DEF Delete, WriterHolds
  <2>5. Gets(w, 0, 0, 0, 0, "idle")
    BY <2>1 DEF Gets
  <2>6. MayGet(w, 0, 0, 0, 0, "idle")
    BY <2>1 DEF MayGet
  <2> QED BY <2>5, <2>6, WriterStep
<1>12. ASSUME Crash PROVE DiskInv'
  <2>1. /\ lease' = [w \in Writer |-> 0] /\ chunk' = lease' /\ landed' = lease'
        /\ phase' = [w \in Writer |-> IF file[w] > 0 THEN "done" ELSE "idle"]
        /\ UNCHANGED <<free, file, others>>
    BY <1>12 DEF Crash
  <2>2. SumOf(lease') = 0 /\ SumOf(landed') = 0
    BY <2>1, SumOfNothing
  <2>3. DiskTyped' /\ \A w \in Writer : WriterHolds(w)'
    BY <1>1, <2>1 DEF DiskTyped, WriterHolds
  <2>4. DiskTypeOK'
    BY <2>1 DEF DiskTypeOK
  <2>5. free' + others' + SumOf(landed') >= Minimum + SumOf(lease')
    BY <2>1, <2>2
  <2> QED BY <2>1, <2>3, <2>4, <2>5 DEF DiskInv, MinimumIsKept
<1>13. ASSUME NEW n \in 1 .. MaxBytes, OthersWrite(n) PROVE DiskInv'
  <2>1. /\ n <= free /\ others + n <= MaxOthers /\ free' = free - n /\ others' = others + n
        /\ UNCHANGED <<lease, phase, chunk, landed, file>>
    BY <1>13 DEF OthersWrite
  <2>2. DiskTypeOK'
    BY <2>1 DEF DiskTypeOK
  <2>3. DiskTyped' /\ \A w \in Writer : WriterHolds(w)'
    BY <1>1, <1>2, <2>1 DEF DiskTyped, WriterHolds
  <2>4. /\ free' + others' + SumOf(landed') >= Minimum + SumOf(lease')
        /\ free' + others' + SumOf(file') = Size
    BY <2>1
  <2> QED BY <2>2, <2>3, <2>4 DEF DiskInv, MinimumIsKept
<1>14. CASE UNCHANGED diskVars
  BY <1>14 DEF diskVars, DiskInv, MinimumIsKept, DiskTypeOK, DiskTyped, WriterHolds
<1> QED BY <1>4, <1>5, <1>6, <1>7, <1>8, <1>9, <1>10, <1>11, <1>12, <1>13, <1>14 DEF DiskNext

\* However uploads and imports share the disk, fail and are cut off: what they
\* may still write leaves the minimum free, up to what other programs took
\* (createDiskReservation).
THEOREM MinimumKept == DiskSpec => []MinimumIsKept
<1>1. DiskSpec => []DiskInv
  BY DiskInitially, DiskStep, PTL DEF DiskSpec
<1>2. DiskInv => MinimumIsKept
  BY DEF DiskInv
<1> QED BY <1>1, <1>2, PTL

----------------------------------------------------------------------------
(* The workbook that is imported. *)

\* What is promised is what the preview says of the workbook under some name of
\* the platform, and what is made follows from what was taken in.
SheetInv ==
  /\ dialog # "none" => chosen \in Offered
  /\ dialog = "preview" => \E n \in PlatformName : promise = PreviewOf(chosen, n)
  /\ named \in PlatformName
  /\ taken # NoFile => /\ dialog = "none" /\ taken.file \in Offered
                       /\ \E n \in PlatformName : promise = PreviewOf(taken.file, n)
                       /\ MayConfirm(promise)
  /\ made # NoFile => taken # NoFile /\ made = Make(taken.file, taken.name)

LEMMA SheetStep == SheetInv /\ [SheetNext]_sheetVars => SheetInv'
<1> SUFFICES ASSUME SheetInv, [SheetNext]_sheetVars PROVE SheetInv'
  OBVIOUS
<1>1. CASE ImportFile
  BY <1>1 DEF ImportFile, SheetInv
<1>2. CASE PreviewImport
  BY <1>2 DEF PreviewImport, SheetInv
<1>3. CASE PreviewShown
  BY <1>3 DEF PreviewShown, SheetInv
<1>4. CASE PreviewLost
  BY <1>4 DEF PreviewLost, SheetInv
<1>5. CASE CancelPreview
  BY <1>5 DEF CancelPreview, SheetInv
<1>6. CASE DropFile
  BY <1>6 DEF DropFile, SheetInv
<1>7. CASE CommitImport
  BY <1>7 DEF CommitImport, SheetInv
<1>8. CASE RenamePlatform
  BY <1>8 DEF RenamePlatform, SheetInv
<1>9. CASE RunImport
  BY <1>9 DEF RunImport, SheetInv
<1>10. CASE UNCHANGED sheetVars
  BY <1>10 DEF sheetVars, SheetInv
<1> QED BY <1>1, <1>2, <1>3, <1>4, <1>5, <1>6, <1>7, <1>8, <1>9, <1>10 DEF SheetNext

LEMMA SheetInvariant == SheetSpec => []SheetInv
<1>1. SheetInit => SheetInv
  BY DEF SheetInit, SheetInv
<1> QED BY <1>1, SheetStep, PTL DEF SheetSpec

\* The pictures of a sheet, and those that count.
LEMMA SheetOf ==
  ASSUME NEW f \in Offered, NEW i \in DOMAIN f.sheets
  PROVE  /\ f.sheets[i] \in Range(f.sheets) /\ IsSheet(f.sheets[i])
         /\ IsFiniteSet(DOMAIN f.sheets) /\ f.quality \in BOOLEAN /\ f.style \in {"keyed", "plain"}
<1>1. f.sheets[i] \in Range(f.sheets)
  BY DEF Range
<1>2. DOMAIN f.sheets = 1 .. Len(f.sheets) /\ Len(f.sheets) \in Nat
  BY SheetAssumption
<1>3. IsFiniteSet(DOMAIN f.sheets)
  BY <1>2, FS_Interval
<1> QED BY <1>1, <1>3, SheetAssumption

LEMMA AnchorsCount ==
  ASSUME NEW f, NEW sheet, IsSheet(sheet), f.quality \in BOOLEAN
  PROVE  /\ Anchors(f, sheet) \subseteq DOMAIN sheet.pics /\ IsFiniteSet(Anchors(f, sheet))
         /\ DOMAIN sheet.pics \subseteq Nat \ {0}
         /\ \A k \in DOMAIN sheet.pics : sheet.pics[k] \in Picture
         /\ f.quality => \A j, k \in Anchors(f, sheet) :
                           sheet.pics[j].row = sheet.pics[k].row => j = k
<1>1. DOMAIN sheet.pics = 1 .. Len(sheet.pics) /\ Len(sheet.pics) \in Nat
  BY DEF IsSheet
<1>2. \A T : /\ FirstOfRows(sheet.pics, T) \subseteq T
             /\ T \subseteq Nat => \A j, k \in FirstOfRows(sheet.pics, T) :
                                     sheet.pics[j].row = sheet.pics[k].row => j = k
  BY DEF FirstOfRows
<1>3. Anchors(f, sheet) \subseteq DOMAIN sheet.pics
  BY <1>2 DEF Anchors
<1>4. IsFiniteSet(Anchors(f, sheet))
  <2>1. PICK n \in Nat : DOMAIN sheet.pics = 1 .. n
    BY <1>1
  <2>2. IsFiniteSet(1 .. n)
    BY FS_Interval
  <2> QED BY <2>1, <2>2, <1>3, FS_Subset
<1>5. ASSUME f.quality
      PROVE  \A j, k \in Anchors(f, sheet) : sheet.pics[j].row = sheet.pics[k].row => j = k
  <2>1. PICK W : W = FirstOfRows(sheet.pics, {k \in DOMAIN sheet.pics : sheet.pics[k].inside})
    OBVIOUS
  <2>2. PICK V : V = FirstOfRows(sheet.pics, {k \in DOMAIN sheet.pics : sheet.pics[k].row > 1})
    OBVIOUS
  <2>3. \A j, k \in W : sheet.pics[j].row = sheet.pics[k].row => j = k
    BY <2>1, <1>1, <1>2
  <2>4. \A j, k \in V : sheet.pics[j].row = sheet.pics[k].row => j = k
    BY <2>2, <1>1, <1>2
  <2>5. Anchors(f, sheet) \in {{}, W, V}
    BY <2>1, <2>2, <1>5 DEF Anchors
  <2> QED BY <2>3, <2>4, <2>5
<1> QED BY <1>1, <1>3, <1>4, <1>5 DEF IsSheet

LEMMA HavingIs ==
  ASSUME NEW f, NEW status
  PROVE  \A i, k : <<i, k>> \in Having(f, status) <=>
           /\ i \in DOMAIN f.sheets /\ k \in Anchors(f, f.sheets[i])
           /\ ~f.quality \/ Inspect(f, f.sheets[i], f.sheets[i].pics[k].row) = status
BY DEF Having

LEMMA PairsHave ==
  ASSUME NEW f, NEW status, NEW p \in Having(f, status)
  PROVE  p = <<p[1], p[2]>>
BY DEF Having
LEMMA HavingIsFinite ==
  ASSUME NEW f \in Offered, NEW status
  PROVE  IsFiniteSet(Having(f, status))
<1> USE DEF IsSheet
<1>1. PICK T : T = [i \in DOMAIN f.sheets |->
                     {i} \X {k \in Anchors(f, f.sheets[i]) :
                               LET sheet == f.sheets[i]
                               IN ~f.quality \/ Inspect(f, sheet, sheet.pics[k].row) = status}]
  OBVIOUS
<1>2. PICK S : S = {T[i] : i \in DOMAIN f.sheets}
  OBVIOUS
<1>3. Having(f, status) = UNION S
  BY <1>1, <1>2 DEF Having
<1>4. f.quality \in BOOLEAN
  BY SheetAssumption
<1>5. IsFiniteSet(DOMAIN f.sheets)
  <2>1. PICK n \in Nat : DOMAIN f.sheets = 1 .. n
    BY SheetAssumption
  <2> QED BY <2>1, FS_Interval
<1>6. IsFiniteSet(S)
  <2>1. T \in Surjection(DOMAIN f.sheets, S)
    BY <1>1, <1>2 DEF Surjection
  <2> QED BY <2>1, <1>5, FS_Surjection
<1>7. ASSUME NEW i \in DOMAIN f.sheets
      PROVE  IsFiniteSet(T[i])
  <2>1. PICK A : A = {k \in Anchors(f, f.sheets[i]) :
                        LET sheet == f.sheets[i]
                        IN ~f.quality \/ Inspect(f, sheet, sheet.pics[k].row) = status}
    OBVIOUS
  <2>2. IsFiniteSet(Anchors(f, f.sheets[i]))
    BY <1>4, SheetOf, AnchorsCount
  <2>3. A \subseteq Anchors(f, f.sheets[i])
    BY <2>1
  <2>4. IsFiniteSet(A)
    BY <2>2, <2>3, FS_Subset
  <2>5. IsFiniteSet({i} \X A)
    BY <2>4, FS_Singleton, FS_Product
  <2> QED BY <2>1, <2>5, <1>1
<1>8. \A W \in S : IsFiniteSet(W)
  BY <1>2, <1>7
<1> QED BY <1>3, <1>6, <1>8, FS_UNION

\* What is known when something was made.
LEMMA WhatIsMade ==
  ASSUME SheetInv, made # NoFile
  PROVE  /\ taken.file \in Offered /\ made = Make(taken.file, taken.name) /\ MayConfirm(promise)
         /\ \E n \in PlatformName : promise = PreviewOf(taken.file, n)
         /\ made.task \in BOOLEAN
         /\ made.task => made = [task |-> TRUE, records |-> RecordsOf(taken.file)]
         /\ ~made.task => made = Refused
<1>1. /\ taken.file \in Offered /\ made = Make(taken.file, taken.name) /\ MayConfirm(promise)
      /\ \E n \in PlatformName : promise = PreviewOf(taken.file, n)
  BY DEF SheetInv
<1>2. made \in {Refused, [task |-> TRUE, records |-> RecordsOf(taken.file)]}
  BY <1>1 DEF Make
<1>3. CASE made = Refused
  <2>1. made.task = FALSE
    BY <1>3 DEF Refused
  <2> QED BY <2>1, <1>1, <1>3
<1>4. CASE made = [task |-> TRUE, records |-> RecordsOf(taken.file)]
  <2>1. made.task = TRUE
    BY <1>4
  <2> QED BY <2>1, <1>1, <1>4
<1> QED BY <1>2, <1>3, <1>4

LEMMA PromiseKept == ASSUME SheetInv, made # NoFile PROVE PromiseIsKept
<1>1. PICK f \in Offered : f = taken.file
  BY WhatIsMade
<1>2. PICK n \in PlatformName : promise = PreviewOf(f, n)
  BY <1>1, WhatIsMade
<1>3. f.quality \in BOOLEAN
  BY SheetAssumption
<1>4. /\ ~LacksImages(f)
      /\ ~f.quality => ~LacksColumns(f)
      /\ f.quality => Cardinality(Having(f, "conflict")) = 0
  BY <1>2, <1>3, WhatIsMade DEF MayConfirm, PreviewOf
<1>5. f.quality => Having(f, "conflict") = {}
  BY <1>4, HavingIsFinite, FS_EmptySet
<1>6. promise.pending = Cardinality(Having(f, "empty"))
  BY <1>2 DEF PreviewOf
<1>7. CASE made.task
  <2>1. DOMAIN made.records = Having(f, "empty")
    BY <1>7, <1>1, WhatIsMade DEF RecordsOf
  <2> QED BY <2>1, <1>6, <1>7 DEF PromiseIsKept
<1>8. CASE ~made.task
  <2>1. made.records = <<>>
    BY <1>8, WhatIsMade DEF Refused
  <2>2. \/ Foreign(f, taken.name)
        \/ \E p \in Having(f, "empty") : ~PictureAt(f, p).whole
    <3>1. made = Make(f, taken.name)
      BY <1>1, WhatIsMade
    <3> SUFFICES ASSUME ~Foreign(f, taken.name), \A p \in Having(f, "empty") : PictureAt(f, p).whole
                 PROVE  FALSE
      OBVIOUS
    <3>2. ~(\E p \in Having(f, "empty") : ~PictureAt(f, p).whole)
      OBVIOUS
    <3>3. ~(~f.quality /\ LacksColumns(f)) /\ ~(f.quality /\ Having(f, "conflict") # {})
      BY <1>4, <1>5
    <3>4. made = [task |-> TRUE, records |-> RecordsOf(f)]
      BY <3>1, <3>2, <3>3, <1>4, Zenon DEF Make
    <3> QED BY <3>4, <1>8
  <2>3. ASSUME NEW p \in Having(f, "empty"), ~PictureAt(f, p).whole
        PROVE  \E s \in SheetsOf(f) : \E k \in DOMAIN s.pics : ~s.pics[k].whole
    <3>1. p = <<p[1], p[2]>>
      BY PairsHave
    <3>2. p[1] \in DOMAIN f.sheets /\ p[2] \in Anchors(f, f.sheets[p[1]])
      BY <3>1, HavingIs
    <3>3. f.sheets[p[1]] \in Range(f.sheets) /\ p[2] \in DOMAIN f.sheets[p[1]].pics
      BY <3>2, <1>3, SheetOf, AnchorsCount
    <3> QED BY <3>3, <2>3 DEF PictureAt, SheetsOf
  <2> QED BY <2>1, <2>2, <2>3, <1>1, <1>8 DEF PromiseIsKept
<1> QED BY <1>7, <1>8, WhatIsMade

LEMMA ResultsKept == ASSUME SheetInv, made # NoFile PROVE ResultsAreKept
<1> SUFFICES ASSUME made.task, taken.file.quality, NEW i \in DOMAIN made.records, NEW j \in DOMAIN made.records
             PROVE  LET a == made.records[i]
                        b == made.records[j]
                        sheet == taken.file.sheets[a.sheet]
                        filled == FilledIn(sheet, a.row)
                    IN /\ (a.sheet = b.sheet /\ a.row = b.row) => i = j
                       /\ filled # {} => /\ \A h \in filled : h.style = "plain"
                                         /\ Keyed(sheet) # {} \/ taken.file.style = "keyed"
                       /\ a.sources = filled
  BY DEF ResultsAreKept
<1>1. PICK f \in Offered : f = taken.file
  BY WhatIsMade
<1>2. f.quality /\ f.quality \in BOOLEAN
  BY <1>1, SheetAssumption
<1>3. made.records = RecordsOf(f) /\ DOMAIN made.records = Having(f, "empty")
  BY <1>1, WhatIsMade DEF RecordsOf
<1>4. i = <<i[1], i[2]>> /\ j = <<j[1], j[2]>>
  BY <1>3, PairsHave
<1>5. \A p \in Having(f, "empty") :
        made.records[p] = [sheet |-> p[1], row |-> PictureAt(f, p).row,
                           sources |-> Carried(f, f.sheets[p[1]], PictureAt(f, p).row)]
  BY <1>3 DEF RecordsOf
<1>6. PICK s : s = f.sheets[i[1]]
  OBVIOUS
<1>7. /\ i[1] \in DOMAIN f.sheets /\ i[2] \in Anchors(f, s)
      /\ Inspect(f, s, s.pics[i[2]].row) = "empty"
  BY <1>2, <1>3, <1>4, <1>6, HavingIs
<1>8. j[1] \in DOMAIN f.sheets /\ j[2] \in Anchors(f, f.sheets[j[1]])
  BY <1>3, <1>4, HavingIs
<1>9. IsSheet(s) /\ f.style \in {"keyed", "plain"}
  BY <1>6, <1>7, SheetOf
<1>10. PICK r : r = s.pics[i[2]].row
  OBVIOUS
<1>11. /\ made.records[i] = [sheet |-> i[1], row |-> r, sources |-> Carried(f, s, r)]
       /\ made.records[j].sheet = j[1] /\ made.records[j].row = f.sheets[j[1]].pics[j[2]].row
  BY <1>3, <1>5, <1>6, <1>10 DEF PictureAt
<1>12. i[1] = j[1] /\ r = f.sheets[j[1]].pics[j[2]].row => i = j
  <2> SUFFICES ASSUME i[1] = j[1], r = f.sheets[j[1]].pics[j[2]].row PROVE i = j
    OBVIOUS
  <2>1. i[2] \in Anchors(f, s) /\ j[2] \in Anchors(f, s) /\ s.pics[i[2]].row = s.pics[j[2]].row
    BY <1>6, <1>7, <1>8, <1>10
  <2>2. i[2] = j[2]
    BY <2>1, <1>2, <1>9, AnchorsCount
  <2> QED BY <2>2, <1>4
<1>13. FilledIn(s, r) \cap ResultColumns(f, s) = {}
  BY <1>7, <1>10 DEF Inspect
<1>14. FilledIn(s, r) \subseteq s.heads /\ s.heads \subseteq Header
  <2>1. i[2] \in DOMAIN s.pics
    <3>1. Anchors(f, s) \subseteq DOMAIN s.pics
      BY <1>2, <1>9, AnchorsCount
    <3> QED BY <3>1, <1>7
  <2> QED BY <2>1, <1>9, <1>10 DEF FilledIn, IsSheet
<1>15. Carried(f, s, r) = FilledIn(s, r)
  BY <1>2, <1>13 DEF Carried
<1>16. ASSUME NEW h \in FilledIn(s, r)
       PROVE  h.style = "plain" /\ (Keyed(s) # {} \/ f.style = "keyed")
  <2>1. h \in s.heads /\ h \in Header /\ h.key \in ResultKey /\ h.style \in {"keyed", "plain"}
    BY <1>14 DEF Header
  <2>2. h \notin ResultColumns(f, s)
    BY <1>13
  <2>3. CASE Keyed(s) # {}
    BY <2>1, <2>2, <2>3 DEF ResultColumns, Keyed
  <2>4. CASE Keyed(s) = {}
    <3>1. h.style = "plain"
      BY <2>1, <2>4 DEF Keyed
    <3>2. h \notin [key : ResultKey, style : {f.style}]
      BY <2>2, <2>4 DEF ResultColumns, Columns
    <3>3. h = [key |-> h.key, style |-> h.style]
      BY <2>1 DEF Header
    <3> QED BY <3>1, <3>2, <3>3, <2>1, <1>9
  <2> QED BY <2>3, <2>4
<1> QED BY <1>1, <1>6, <1>11, <1>12, <1>15, <1>16

LEMMA NoneForgotten == ASSUME SheetInv, made # NoFile PROVE NoPictureIsForgotten
<1> SUFFICES ASSUME made.task, taken.file.quality, NEW i \in DOMAIN taken.file.sheets,
                    NEW k \in DOMAIN taken.file.sheets[i].pics,
                    taken.file.sheets[i].image # "none", taken.file.sheets[i].pics[k].inside
             PROVE  LET sheet == taken.file.sheets[i]
                    IN \/ \E j \in DOMAIN made.records :
                            made.records[j].sheet = i /\ made.records[j].row = sheet.pics[k].row
                       \/ FilledIn(sheet, sheet.pics[k].row) # {}
  BY DEF NoPictureIsForgotten
<1>1. PICK f \in Offered : f = taken.file
  BY WhatIsMade
<1>2. PICK s : s = f.sheets[i]
  OBVIOUS
<1>3. f.quality /\ f.quality \in BOOLEAN /\ IsSheet(s)
  BY <1>1, <1>2, SheetAssumption, SheetOf
<1>4. DOMAIN s.pics \subseteq Nat
  BY <1>3, AnchorsCount
<1>5. PICK W : W = {j \in DOMAIN s.pics : s.pics[j].inside}
  OBVIOUS
<1>6. PICK m : /\ m \in W /\ s.pics[m].row = s.pics[k].row
               /\ \A j \in W : s.pics[j].row = s.pics[k].row => m <= j
  <2>1. PICK T : T = {j \in W : s.pics[j].row = s.pics[k].row}
    OBVIOUS
  <2>2. k \in T /\ T \subseteq Nat
    BY <2>1, <1>1, <1>2, <1>4, <1>5
  <2>3. PICK m \in T : \A j \in T : m <= j
    BY <2>2, LeastOf
  <2> QED BY <2>1, <2>3
<1>7. m \in FirstOfRows(s.pics, W)
  BY <1>6 DEF FirstOfRows
<1>8. m \in Anchors(f, s)
  BY <1>1, <1>2, <1>3, <1>5, <1>7 DEF Anchors
<1>9. CASE Inspect(f, s, s.pics[m].row) = "empty"
  <2>1. <<i, m>> \in Having(f, "empty")
    BY <1>1, <1>2, <1>8, <1>9, HavingIs
  <2>2. <<i, m>> \in DOMAIN made.records
    BY <2>1, <1>1, WhatIsMade DEF RecordsOf
  <2>3. made.records[<<i, m>>].sheet = i /\ made.records[<<i, m>>].row = s.pics[m].row
    BY <2>1, <1>1, <1>2, WhatIsMade DEF RecordsOf, PictureAt
  <2> QED BY <2>2, <2>3, <1>1, <1>2, <1>6
<1>10. CASE Inspect(f, s, s.pics[m].row) # "empty"
  <2>1. FilledIn(s, s.pics[m].row) # {}
    BY <1>10 DEF Inspect
  <2> QED BY <2>1, <1>1, <1>2, <1>6
<1> QED BY <1>9, <1>10

LEMMA SheetsStand == SheetInv => SheetsHold
<1>1. CASE made = NoFile
  BY <1>1 DEF SheetsHold, PromiseIsKept, ResultsAreKept, NoPictureIsForgotten
<1>2. CASE made # NoFile
  BY <1>2, PromiseKept, ResultsKept, NoneForgotten DEF SheetsHold
<1> QED BY <1>1, <1>2

----------------------------------------------------------------------------
(* The values of a record. *)

\* Whatever was saved for the section, or is on a screen to be saved, says
\* something wherever the record's own review does: the screen starts from it.
CarriedOn(own, x) ==
  /\ x \in SavedReview \cup {Blank}
  /\ x # Blank => \A f \in OutField : Says(x, f) \/ own = Blank \/ own[f] = Blank

Pane == [latest : Said, saved : SavedReview \cup {Blank}]

BookInv ==
  /\ found \in Said /\ (~ran => \A f \in OutField : found[f] = Blank)
  /\ old \in Said \cup {Blank} /\ early \in Said \cup {Blank}
  /\ CarriedOn(early, review)
  /\ pane \in [Tab -> {Blank} \cup Pane]
  /\ \A t \in Tab : pane[t] # Blank => pane[t] \in Pane /\ CarriedOn(early, pane[t].saved)

LEMMA LatestSaid == ASSUME BookInv PROVE Latest \in Said
<1>1. ASSUME NEW f \in OutField
      PROVE  found[f] \in Outcome \cup {Blank} /\ OldFound(f) \in Outcome \cup {Blank}
  BY <1>1 DEF BookInv, OldFound, Said
<1> QED BY <1>1 DEF Latest, Said

\* What a screen shows says something wherever the record's own review does.
LEMMA ShownIsSaid ==
  ASSUME BookInv, NEW latest \in Said, NEW x, CarriedOn(early, x), NEW f \in OutField
  PROVE  /\ Shows(latest, x, f) \in Outcome \cup {Blank}
         /\ Shows(latest, x, f) # Blank \/ early = Blank \/ early[f] = Blank
<1>1. CASE Says(x, f)
  <2>1. x \in SavedReview /\ x.human \in Said
    BY <1>1 DEF CarriedOn, SavedReview, Says
  <2> QED BY <1>1, <2>1 DEF Shows, Says, Said
<1>2. CASE ~Says(x, f) /\ x = Blank /\ early # Blank /\ early[f] # Blank
  <2>1. early \in Said
    BY <1>2 DEF BookInv
  <2> QED BY <1>2, <2>1 DEF Shows, Said
<1>3. CASE ~Says(x, f) /\ ~(x = Blank /\ early # Blank /\ early[f] # Blank)
  <2>1. Shows(latest, x, f) = latest[f]
    BY <1>3 DEF Shows
  <2>2. early = Blank \/ early[f] = Blank
    BY <1>3 DEF CarriedOn
  <2> QED BY <2>1, <2>2 DEF Said
<1> QED BY <1>1, <1>2, <1>3

\* What a person says is carried on when it says something wherever the record's
\* own review does.
LEMMA Carries ==
  ASSUME NEW own, NEW h \in Said, \A f \in OutField : h[f] # Blank \/ own = Blank \/ own[f] = Blank
  PROVE  CarriedOn(own, [human |-> h])
<1>1. [human |-> h] \in SavedReview /\ [human |-> h] # Blank /\ h # Blank
  BY BookAssumption DEF SavedReview
<1> QED BY <1>1 DEF CarriedOn, Says

\* A screen on which a person changed something, or wrote a note.
LEMMA PaneSaid ==
  ASSUME BookInv, NEW t \in Tab, pane[t] # Blank, NEW h \in Said,
         \A g \in OutField : h[g] # Blank \/ h[g] = Shows(pane[t].latest, pane[t].saved, g)
  PROVE  CarriedOn(early, [human |-> h])
<1>1. pane[t].latest \in Said /\ CarriedOn(early, pane[t].saved)
  BY DEF BookInv, Pane
<1>2. \A g \in OutField : h[g] # Blank \/ early = Blank \/ early[g] = Blank
  BY <1>1, ShownIsSaid
<1> QED BY <1>2, Carries

\* A screen is replaced.
LEMMA PaneStep ==
  ASSUME BookInv, NEW t \in Tab, NEW p \in Pane, CarriedOn(early, p.saved),
         pane' = [pane EXCEPT ![t] = p], UNCHANGED <<found, ran, old, early>>, CarriedOn(early, review')
  PROVE  BookInv'
<1>1. pane' \in [Tab -> {Blank} \cup Pane]
  BY DEF BookInv
<1>2. ASSUME NEW u \in Tab, pane'[u] # Blank
      PROVE  pane'[u] \in Pane /\ CarriedOn(early', pane'[u].saved)
  <2>1. CASE u = t
    BY <2>1 DEF BookInv
  <2>2. CASE u # t
    BY <1>2, <2>2 DEF BookInv
  <2> QED BY <2>1, <2>2
<1> QED BY <1>1, <1>2 DEF BookInv

\* What is changed on a screen is saved under the name of all its values.
LEMMA SavedOnPane ==
  ASSUME BookInv, NEW t \in Tab, pane[t] # Blank, NEW x \in SavedReview
  PROVE  /\ [pane EXCEPT ![t].saved = x] = [pane EXCEPT ![t] = [latest |-> pane[t].latest, saved |-> x]]
         /\ [latest |-> pane[t].latest, saved |-> x] \in Pane
<1>1. pane[t] \in Pane /\ pane \in [Tab -> {Blank} \cup Pane]
  BY DEF BookInv
<1>2. [pane[t] EXCEPT !.saved = x] = [latest |-> pane[t].latest, saved |-> x]
  BY <1>1 DEF Pane
<1> QED BY <1>1, <1>2 DEF Pane

LEMMA BookStep == BookInv /\ [BookNext]_bookVars => BookInv'
<1> SUFFICES ASSUME BookInv, [BookNext]_bookVars PROVE BookInv'
  OBVIOUS
<1>1. CASE Analyse
  BY <1>1 DEF Analyse, BookInv
<1>2. CASE AnalysisDone
  BY <1>2 DEF AnalysisDone, BookInv
<1>3. CASE OtherFieldDone
  BY <1>3 DEF OtherFieldDone, BookInv
<1>4. ASSUME NEW f \in OutField, FieldDone(f) PROVE BookInv'
  <2>1. PICK v \in Result \cup {Blank} : found' = [found EXCEPT ![f] = v]
    BY <1>4 DEF FieldDone
  <2>2. found' \in Said
    BY <2>1 DEF BookInv, Said, Outcome
  <2> QED BY <2>2, <1>4 DEF FieldDone, BookInv
<1>5. ASSUME NEW t \in Tab, Open(t) PROVE BookInv'
  <2>1. [latest |-> Latest, saved |-> review] \in Pane /\ CarriedOn(early, review)
    BY LatestSaid DEF Pane, BookInv, CarriedOn
  <2> QED BY <1>5, <2>1, PaneStep DEF Open
<1>6. ASSUME NEW t \in Tab, NEW f \in OutField, Change(t, f) PROVE BookInv'
  <2>1. PICK v \in Typed :
          pane' = [pane EXCEPT ![t].saved = [human |-> [g \in OutField |->
                     IF g = f THEN v ELSE Shows(pane[t].latest, pane[t].saved, g)]]]
    BY <1>6 DEF Change
  <2>2. PICK h : h = [g \in OutField |-> IF g = f THEN v ELSE Shows(pane[t].latest, pane[t].saved, g)]
    OBVIOUS
  <2>20. v \in Outcome
    BY DEF Outcome
  <2>3. pane[t] # Blank /\ pane[t].latest \in Said /\ CarriedOn(early, pane[t].saved)
    BY <1>6 DEF Change, BookInv, Pane
  <2>4. \A g \in OutField : Shows(pane[t].latest, pane[t].saved, g) \in Outcome \cup {Blank}
    BY <2>3, ShownIsSaid
  <2>5. h \in Said /\ [human |-> h] \in SavedReview
    BY <2>2, <2>20, <2>4 DEF Said, SavedReview
  <2>6. \A g \in OutField : h[g] # Blank \/ h[g] = Shows(pane[t].latest, pane[t].saved, g)
    BY <2>2, <2>20, BookAssumption
  <2>7. CarriedOn(early, [human |-> h])
    BY <2>3, <2>5, <2>6, PaneSaid
  <2>8. PICK p \in Pane : p = [latest |-> pane[t].latest, saved |-> [human |-> h]]
    BY <2>3, <2>5, SavedOnPane
  <2>9. pane' = [pane EXCEPT ![t] = p]
    BY <2>1, <2>2, <2>3, <2>5, <2>8, SavedOnPane
  <2> QED BY <1>6, <2>7, <2>8, <2>9, PaneStep DEF Change, BookInv
<1>7. ASSUME NEW t \in Tab, Note(t) PROVE BookInv'
  <2>1. pane[t] # Blank /\ pane[t] \in Pane /\ CarriedOn(early, pane[t].saved)
    BY <1>7 DEF Note, BookInv
  <2>2. PICK h : h = [g \in OutField |-> Shows(pane[t].latest, pane[t].saved, g)]
    OBVIOUS
  <2>3. PICK x : x = IF pane[t].saved # Blank /\ pane[t].saved.human # Blank THEN pane[t].saved
                     ELSE [human |-> h]
    OBVIOUS
  <2>4. pane' = [pane EXCEPT ![t].saved = x]
    BY <1>7, <2>2, <2>3 DEF Note
  <2>5. x \in SavedReview /\ CarriedOn(early, x)
    <3>1. CASE pane[t].saved # Blank /\ pane[t].saved.human # Blank
      BY <2>1, <2>3, <3>1 DEF Pane
    <3>2. CASE ~(pane[t].saved # Blank /\ pane[t].saved.human # Blank)
      <4>1. \A g \in OutField : Shows(pane[t].latest, pane[t].saved, g) \in Outcome \cup {Blank}
        BY <2>1, ShownIsSaid DEF Pane
      <4>2. h \in Said /\ [human |-> h] \in SavedReview
        BY <2>2, <4>1 DEF Said, SavedReview
      <4>3. CarriedOn(early, [human |-> h])
        BY <2>1, <2>2, <4>2, PaneSaid
      <4> QED BY <2>3, <3>2, <4>2, <4>3
    <3> QED BY <3>1, <3>2
  <2>6. PICK p \in Pane : p = [latest |-> pane[t].latest, saved |-> x]
    BY <2>1, <2>5, SavedOnPane
  <2>7. pane' = [pane EXCEPT ![t] = p]
    BY <2>1, <2>4, <2>5, <2>6, SavedOnPane
  <2> QED BY <1>7, <2>5, <2>6, <2>7, PaneStep DEF Note, BookInv
<1>8. ASSUME NEW t \in Tab, SaveReview(t) PROVE BookInv'
  <2>1. pane[t] # Blank /\ pane[t] \in Pane /\ CarriedOn(early, pane[t].saved)
    BY <1>8 DEF SaveReview, BookInv
  <2>2. review' = [human |-> SavedBy(t)]
    BY <1>8 DEF SaveReview
  <2>3. review' \in SavedReview /\ CarriedOn(early, review')
    <3>1. CASE pane[t].saved # Blank /\ pane[t].saved.human # Blank
      <4>1. pane[t].saved \in SavedReview
        BY <2>1, <3>1 DEF Pane
      <4>2. review' = pane[t].saved
        BY <2>2, <3>1, <4>1 DEF SavedBy, SavedReview
      <4> QED BY <2>1, <4>1, <4>2
    <3>2. CASE ~(pane[t].saved # Blank /\ pane[t].saved.human # Blank)
      <4>1. review' = [human |-> early] /\ early \in Said \cup {Blank}
        BY <2>2, <3>2 DEF SavedBy, BookInv
      <4>2. CASE early = Blank
        BY <4>1, <4>2 DEF SavedReview, CarriedOn
      <4>3. CASE early # Blank
        BY <4>1, <4>3, Carries DEF SavedReview
      <4> QED BY <4>2, <4>3
    <3> QED BY <3>1, <3>2
  <2>4. [latest |-> Latest, saved |-> review'] \in Pane
    BY <2>3, LatestSaid DEF Pane
  <2> QED BY <1>8, <2>3, <2>4, PaneStep DEF SaveReview
<1>9. CASE UNCHANGED bookVars
  BY <1>9 DEF bookVars, BookInv
<1> QED BY <1>1, <1>2, <1>3, <1>4, <1>5, <1>6, <1>7, <1>8, <1>9 DEF BookNext

LEMMA BookInvariant == BookSpec => []BookInv
<1>1. BookInit => BookInv
  BY BookAssumption DEF BookInit, BookInv, CarriedOn, Says, Said
<1> QED BY <1>1, BookStep, PTL DEF BookSpec

LEMMA ShownStands == BookInv => ShownIsExported
<1> SUFFICES ASSUME BookInv, NEW f \in OutField
             PROVE  Shows(Latest, review, f) = IF OnlyOld(f) THEN Blank ELSE Cell(f)
  BY DEF ShownIsExported
<1> DEFINE Own == early # Blank /\ early[f] # Blank
<1>1. CASE Says(review, f)
  <2>1. Shows(Latest, review, f) = review.human[f]
    BY <1>1 DEF Shows, Says
  <2>2. Cell(f) = review.human[f] /\ ~OnlyOld(f)
    BY <1>1 DEF Cell, OnlyOld
  <2> QED BY <2>1, <2>2
<1>2. CASE ~Says(review, f) /\ Own
  <2>1. review = Blank
    BY <1>2 DEF BookInv, CarriedOn
  <2>2. Shows(Latest, review, f) = early[f] /\ Cell(f) = early[f] /\ ~OnlyOld(f)
    BY <1>2, <2>1 DEF Shows, Cell, OnlyOld
  <2> QED BY <2>2
<1>3. CASE ~Says(review, f) /\ ~Own
  <2>1. Shows(Latest, review, f) = Latest[f] /\ Cell(f) = Aggregated(f)
    BY <1>3 DEF Shows, Cell
  <2>2. OnlyOld(f) <=> ran /\ found[f] = Blank /\ OldFound(f) # Blank
    BY <1>3 DEF OnlyOld
  <2>3. Latest[f] = IF ran THEN found[f] ELSE OldFound(f)
    BY DEF Latest
  <2>4. ~ran => found[f] = Blank
    BY DEF BookInv
  <2> QED BY <2>1, <2>2, <2>3, <2>4 DEF Aggregated
<1> QED BY <1>1, <1>2, <1>3

----------------------------------------------------------------------------
(* The columns of a workbook. *)

Begin(heads) == [at |-> <<>>, next |-> Len(heads) + 1, used |-> Range(heads), stuck |-> FALSE]

Planning(heads, cols) == CHOOSE f : f = [n \in 0 .. Len(cols) |->
                                           IF n = 0 THEN Begin(heads) ELSE Place(heads, f[n - 1], cols[n])]

IsPlanning(heads, cols, f) == f = [n \in 0 .. Len(cols) |->
                                     IF n = 0 THEN Begin(heads) ELSE Place(heads, f[n - 1], cols[n])]

LEMMA PlanningExists ==
  ASSUME NEW heads, NEW cols, Len(cols) \in Nat
  PROVE  \E f : IsPlanning(heads, cols, f)
<1> DEFINE s == Begin(heads)
           Upto(k) == \E f : f = [n \in 0 .. k |-> IF n = 0 THEN s ELSE Place(heads, f[n - 1], cols[n])]
           T == {k \in Nat : Upto(k)}
<1> HIDE DEF s
<1>1. 0 \in T
  <2> DEFINE f == [n \in 0 .. 0 |-> s]
  <2>1. f = [n \in 0 .. 0 |-> IF n = 0 THEN s ELSE Place(heads, f[n - 1], cols[n])]
    OBVIOUS
  <2> HIDE DEF f
  <2> QED BY <2>1
<1>2. ASSUME NEW k \in T PROVE k + 1 \in T
  <2>1. PICK f : f = [n \in 0 .. k |-> IF n = 0 THEN s ELSE Place(heads, f[n - 1], cols[n])]
    OBVIOUS
  <2> DEFINE g == [n \in 0 .. k + 1 |-> IF n = 0 THEN s ELSE Place(heads, f[n - 1], cols[n])]
  <2>2. \A n \in 0 .. k : g[n] = f[n]
    BY <2>1
  <2>3. \A n \in 0 .. k + 1 : n # 0 => n - 1 \in 0 .. k
    OBVIOUS
  <2>4. \A n \in 0 .. k + 1 : n # 0 => g[n - 1] = f[n - 1]
    BY <2>2, <2>3
  <2>5. \A n \in 0 .. k + 1 : g[n] = IF n = 0 THEN s ELSE Place(heads, g[n - 1], cols[n])
    BY <2>4
  <2>6. g = [n \in 0 .. k + 1 |-> IF n = 0 THEN s ELSE Place(heads, g[n - 1], cols[n])]
    BY <2>5
  <2>7. Upto(k + 1)
    <3> HIDE DEF g
    <3> QED BY <2>6
  <2> HIDE DEF Upto
  <2> QED BY <2>7
<1> HIDE DEF Upto
<1>3. T \in SUBSET Nat
  OBVIOUS
<1> HIDE DEF T
<1>4. T = Nat
  BY <1>1, <1>2, <1>3, AllNumbers
<1>5. Upto(Len(cols))
  BY <1>4 DEF T
<1> QED BY <1>5 DEF Upto, s, IsPlanning

\* The plan after each column, and the plan when all are placed.
Places(heads, cols, f) ==
  /\ f[0] = Begin(heads) /\ OutputPlan(heads, cols) = f[Len(cols)]
  /\ \A n \in 1 .. Len(cols) : f[n] = Place(heads, f[n - 1], cols[n])

LEMMA PlanGoes ==
  ASSUME NEW heads, NEW cols, Len(cols) \in Nat
  PROVE  \E f : Places(heads, cols, f)
<1> DEFINE f == Planning(heads, cols)
<1>1. OutputPlan(heads, cols) = f[Len(cols)]
  BY DEF OutputPlan, Planning, Begin
<1>2. IsPlanning(heads, cols, f)
  <2>1. f = CHOOSE g : IsPlanning(heads, cols, g)
    BY DEF Planning, IsPlanning
  <2> HIDE DEF f
  <2> QED BY <2>1, PlanningExists
<1> HIDE DEF f
<1>3. f[0] = Begin(heads) /\ \A n \in 1 .. Len(cols) : f[n] = Place(heads, f[n - 1], cols[n])
  BY <1>2 DEF IsPlanning
<1> QED BY <1>1, <1>3 DEF Places

\* What holds of the plan when n columns are placed.
PlacedSoFar(heads, cols, n, p) ==
  /\ p = [at |-> p.at, next |-> p.next, used |-> p.used, stuck |-> p.stuck]
  /\ p.stuck \in BOOLEAN
  /\ p.stuck => \E i, j \in DOMAIN cols : i # j /\ cols[i].head = cols[j].head
  /\ ~p.stuck =>
       /\ p.at \in Seq(Nat) /\ Len(p.at) = n
       /\ p.next \in Nat /\ p.next > Len(heads)
       /\ \A i \in 1 .. n : p.at[i] < p.next /\ WellPlaced(heads, cols[i], p.at[i])
       /\ \A i, j \in 1 .. n : (i # j /\ p.at[i] = p.at[j]) => p.at[i] \in DOMAIN heads
       /\ \A h \in p.used : h \in Range(heads) \/ \E i \in 1 .. n : cols[i].head = h

LEMMA PlaceStep ==
  ASSUME NEW heads, heads \in Seq(Range(heads)), NEW cols, cols \in Seq(Range(cols)),
         NEW n \in Nat, n + 1 <= Len(cols), NEW p, PlacedSoFar(heads, cols, n, p)
  PROVE  PlacedSoFar(heads, cols, n + 1, Place(heads, p, cols[n + 1]))
<1>1. PICK c : c = cols[n + 1]
  OBVIOUS
<1>2. PICK q : q = Place(heads, p, c)
  OBVIOUS
<1>3. PICK matching : matching = {i \in DOMAIN heads : HeaderMatches(heads[i], c.head, c.key)}
  OBVIOUS
<1>4. /\ Len(heads) \in Nat /\ DOMAIN heads = 1 .. Len(heads)
      /\ Len(cols) \in Nat /\ DOMAIN cols = 1 .. Len(cols) /\ n + 1 \in DOMAIN cols
  OBVIOUS
<1>5. CASE p.stuck
  BY <1>1, <1>5 DEF Place, PlacedSoFar
<1>6. CASE ~p.stuck /\ matching # {}
  <2>1. PICK m : m = CHOOSE i \in matching : \A j \in matching : i <= j
    OBVIOUS
  <2>2. m \in matching
    BY <1>3, <1>4, <1>6, <2>1, LeastOf
  <2>3. m \in 1 .. Len(heads) /\ m \in Nat /\ HeaderMatches(heads[m], c.head, c.key)
    BY <1>3, <1>4, <2>2
  <2>4. q = [p EXCEPT !.at = Append(@, m)]
    BY <1>2, <1>3, <1>6, <2>1 DEF Place
  <2>5. /\ q = [at |-> Append(p.at, m), next |-> p.next, used |-> p.used, stuck |-> FALSE]
        /\ p.at \in Seq(Nat) /\ Len(p.at) = n /\ p.next \in Nat /\ p.next > Len(heads)
    BY <1>6, <2>4 DEF PlacedSoFar
  <2>6. /\ q.at \in Seq(Nat) /\ Len(q.at) = n + 1 /\ q.at[n + 1] = m
        /\ \A i \in 1 .. n : q.at[i] = p.at[i] /\ p.at[i] \in Nat
    BY <2>3, <2>5
  <2>7. \A i \in 1 .. n + 1 : q.at[i] < q.next /\ WellPlaced(heads, cols[i], q.at[i])
    <3>1. ASSUME NEW i \in 1 .. n PROVE p.at[i] < p.next /\ WellPlaced(heads, cols[i], p.at[i])
      BY <1>6 DEF PlacedSoFar
    <3>2. \A i \in 1 .. n + 1 : i \in 1 .. n \/ i = n + 1
      OBVIOUS
    <3>3. q.next = p.next /\ m < p.next
      BY <1>4, <2>3, <2>5
    <3>4. WellPlaced(heads, c, m)
      BY <1>4, <2>3 DEF WellPlaced, StandsFor
    <3> QED BY <1>1, <2>6, <3>1, <3>2, <3>3, <3>4
  <2>8. \A i, j \in 1 .. n + 1 : (i # j /\ q.at[i] = q.at[j]) => q.at[i] \in DOMAIN heads
    <3>1. \A i, j \in 1 .. n : (i # j /\ p.at[i] = p.at[j]) => p.at[i] \in DOMAIN heads
      BY <1>6 DEF PlacedSoFar
    <3>2. \A i \in 1 .. n + 1 : i \in 1 .. n \/ i = n + 1
      OBVIOUS
    <3> SUFFICES ASSUME NEW i \in 1 .. n + 1, NEW j \in 1 .. n + 1, i # j, q.at[i] = q.at[j]
                 PROVE  q.at[i] \in DOMAIN heads
      OBVIOUS
    <3>3. CASE i = n + 1 \/ j = n + 1
      <4>1. q.at[i] = m
        BY <2>6, <3>3
      <4> QED BY <4>1, <1>4, <2>3
    <3>4. CASE i \in 1 .. n /\ j \in 1 .. n
      <4>1. q.at[i] = p.at[i] /\ q.at[j] = p.at[j]
        BY <2>6, <3>4
      <4> QED BY <3>1, <3>4, <4>1
    <3> QED BY <3>2, <3>3, <3>4
  <2>9. \A h \in q.used : h \in Range(heads) \/ \E i \in 1 .. n + 1 : cols[i].head = h
    <3>1. \A h \in p.used : h \in Range(heads) \/ \E i \in 1 .. n : cols[i].head = h
      BY <1>6 DEF PlacedSoFar
    <3>2. q.used = p.used
      BY <2>5
    <3>3. \A i \in 1 .. n : i \in 1 .. n + 1
      OBVIOUS
    <3> QED BY <3>1, <3>2, <3>3
  <2>10. q.stuck = FALSE /\ q.next = p.next
    BY <2>5
  <2> QED BY <1>1, <1>2, <2>5, <2>6, <2>7, <2>8, <2>9, <2>10 DEF PlacedSoFar
<1>7. CASE ~p.stuck /\ matching = {} /\ c.head \in p.used
  <2>1. q = [p EXCEPT !.stuck = TRUE]
    BY <1>2, <1>3, <1>7 DEF Place
  <2>2. q = [at |-> p.at, next |-> p.next, used |-> p.used, stuck |-> TRUE]
    BY <2>1 DEF PlacedSoFar
  <2>3. c.head \notin Range(heads)
    <3> SUFFICES ASSUME c.head \in Range(heads) PROVE FALSE
      OBVIOUS
    <3>1. PICK i \in DOMAIN heads : heads[i] = c.head
      BY DEF Range
    <3>2. HeaderMatches(heads[i], c.head, c.key)
      BY <3>1 DEF HeaderMatches
    <3> QED BY <3>2, <1>3, <1>7
  <2>4. PICK i \in 1 .. n : cols[i].head = c.head
    BY <1>7, <2>3 DEF PlacedSoFar
  <2>5. i \in DOMAIN cols /\ i # n + 1
    BY <1>4, <2>4
  <2> QED BY <1>1, <1>2, <1>4, <2>2, <2>4, <2>5 DEF PlacedSoFar
<1>8. CASE ~p.stuck /\ matching = {} /\ c.head \notin p.used
  <2>1. q = [p EXCEPT !.at = Append(@, p.next), !.next = @ + 1, !.used = @ \cup {c.head}]
    BY <1>2, <1>3, <1>8 DEF Place
  <2>2. /\ q = [at |-> Append(p.at, p.next), next |-> p.next + 1, used |-> p.used \cup {c.head}, stuck |-> FALSE]
        /\ p.at \in Seq(Nat) /\ Len(p.at) = n /\ p.next \in Nat /\ p.next > Len(heads)
    BY <1>8, <2>1 DEF PlacedSoFar
  <2>3. /\ q.at \in Seq(Nat) /\ Len(q.at) = n + 1 /\ q.at[n + 1] = p.next
        /\ \A i \in 1 .. n : q.at[i] = p.at[i] /\ p.at[i] \in Nat
    BY <2>2
  <2>4. /\ q.next = p.next + 1 /\ q.used = p.used \cup {c.head} /\ q.stuck = FALSE
    BY <2>2
  <2>5. ASSUME NEW i \in 1 .. n PROVE p.at[i] < p.next /\ WellPlaced(heads, cols[i], p.at[i])
    BY <1>8 DEF PlacedSoFar
  <2>6. \A i \in 1 .. n + 1 : i \in 1 .. n \/ i = n + 1
    OBVIOUS
  <2>7. \A i \in 1 .. n + 1 : q.at[i] < q.next /\ WellPlaced(heads, cols[i], q.at[i])
    <3>1. ASSUME NEW i \in 1 .. n PROVE q.at[i] < q.next /\ WellPlaced(heads, cols[i], q.at[i])
      <4>1. q.at[i] = p.at[i] /\ p.at[i] \in Nat
        BY <2>3
      <4>2. p.at[i] < q.next
        BY <2>2, <2>4, <2>5, <4>1
      <4> QED BY <2>5, <4>1, <4>2
    <3>2. q.at[n + 1] = p.next /\ q.at[n + 1] < q.next
      BY <2>2, <2>3, <2>4
    <3>3. p.next > Len(heads) /\ p.next \notin DOMAIN heads
      BY <1>4, <2>2
    <3>4. \A k \in DOMAIN heads : ~StandsFor(heads[k], c)
      BY <1>3, <1>8 DEF StandsFor
    <3>5. WellPlaced(heads, c, p.next)
      BY <3>3, <3>4 DEF WellPlaced
    <3> QED BY <1>1, <2>6, <3>1, <3>2, <3>5
  <2>8. \A i, j \in 1 .. n + 1 : (i # j /\ q.at[i] = q.at[j]) => q.at[i] \in DOMAIN heads
    <3>1. \A i, j \in 1 .. n : (i # j /\ p.at[i] = p.at[j]) => p.at[i] \in DOMAIN heads
      BY <1>8 DEF PlacedSoFar
    <3>2. ASSUME NEW i \in 1 .. n PROVE q.at[i] = p.at[i] /\ q.at[i] # q.at[n + 1]
      <4>1. q.at[i] = p.at[i] /\ p.at[i] \in Nat /\ q.at[n + 1] = p.next
        BY <2>3
      <4>2. p.at[i] < p.next
        BY <2>5
      <4> QED BY <4>1, <4>2, <2>2
    <3> QED BY <2>6, <3>1, <3>2
  <2>9. \A h \in q.used : h \in Range(heads) \/ \E i \in 1 .. n + 1 : cols[i].head = h
    <3>1. \A h \in p.used : h \in Range(heads) \/ \E i \in 1 .. n : cols[i].head = h
      BY <1>8 DEF PlacedSoFar
    <3>2. n + 1 \in 1 .. n + 1 /\ cols[n + 1].head = c.head
      BY <1>1
    <3> QED BY <2>4, <3>1, <3>2
  <2>10. q.next \in Nat /\ q.next > Len(heads)
    BY <1>4, <2>2, <2>4
  <2>11. q = [at |-> q.at, next |-> q.next, used |-> q.used, stuck |-> q.stuck]
    BY <2>2
  <2> QED BY <1>1, <1>2, <2>3, <2>4, <2>7, <2>8, <2>9, <2>10, <2>11 DEF PlacedSoFar
<1>9. p.stuck \in BOOLEAN
  BY DEF PlacedSoFar
<1> QED BY <1>5, <1>6, <1>7, <1>8, <1>9

LEMMA PlanStands ==
  ASSUME NEW heads, heads \in Seq(Range(heads)), NEW cols, cols \in Seq(Range(cols))
  PROVE  PlacedSoFar(heads, cols, Len(cols), OutputPlan(heads, cols))
<1>1. Len(cols) \in Nat /\ Len(heads) \in Nat
  OBVIOUS
<1>2. PICK f : Places(heads, cols, f)
  BY <1>1, PlanGoes
<1> DEFINE T == {n \in Nat : n <= Len(cols) => PlacedSoFar(heads, cols, n, f[n])}
<1>3. 0 \in T
  <2>1. /\ f[0].at = <<>> /\ f[0].next = Len(heads) + 1 /\ f[0].used = Range(heads) /\ f[0].stuck = FALSE
        /\ f[0] = [at |-> f[0].at, next |-> f[0].next, used |-> f[0].used, stuck |-> f[0].stuck]
    BY <1>2 DEF Places, Begin
  <2>2. f[0].at \in Seq(Nat) /\ Len(f[0].at) = 0
    BY <2>1
  <2>3. f[0].next \in Nat /\ f[0].next > Len(heads)
    BY <1>1, <2>1
  <2>4. 1 .. 0 = {}
    OBVIOUS
  <2>5. PlacedSoFar(heads, cols, 0, f[0])
    BY <2>1, <2>2, <2>3, <2>4 DEF PlacedSoFar
  <2> QED BY <2>5
<1>4. ASSUME NEW n \in T PROVE n + 1 \in T
  <2> SUFFICES ASSUME n + 1 <= Len(cols) PROVE PlacedSoFar(heads, cols, n + 1, f[n + 1])
    OBVIOUS
  <2>1. PlacedSoFar(heads, cols, n, f[n])
    BY <1>1
  <2>2. f[n + 1] = Place(heads, f[n], cols[n + 1])
    <3>1. n + 1 \in 1 .. Len(cols) /\ (n + 1) - 1 = n
      BY <1>1
    <3> QED BY <3>1, <1>2 DEF Places
  <2> QED BY <2>1, <2>2, PlaceStep
<1>5. T \in SUBSET Nat
  OBVIOUS
<1> HIDE DEF T
<1>6. T = Nat
  BY <1>3, <1>4, <1>5, AllNumbers
<1> QED BY <1>1, <1>2, <1>6 DEF T, Places

\* A column of a workbook is a shared one that the version does not configure,
\* or one the version does.
LEMMA ColumnsAre ==
  ASSUME NEW conf, conf \in Seq(Range(conf))
  PROVE  LET cols == ColumnsOf(conf) IN
         /\ cols \in Seq(Range(cols))
         /\ \E off \in Nat : \A i \in DOMAIN cols :
              \/ cols[i] \in Range(Shared) \ Range(conf)
              \/ i - off \in DOMAIN conf /\ cols[i] = conf[i - off]
<1>1. PICK Lack : Lack = [k \in {1, 2} |-> IF \A i \in DOMAIN conf : conf[i].key # Shared[k].key
                                          THEN <<Shared[k]>> ELSE <<>>]
  OBVIOUS
<1>2. ColumnsOf(conf) = Lack[1] \o Lack[2] \o conf
  BY <1>1 DEF ColumnsOf
<1>3. Range(Shared) = {Shared[1], Shared[2]}
  <2>1. Len(Shared) = 2 /\ DOMAIN Shared = {1, 2}
    BY DEF Shared
  <2> QED BY <2>1 DEF Range
<1>4. PICK S : S = Range(Shared) \cup Range(conf)
  OBVIOUS
<1>5. ASSUME NEW k \in {1, 2}
      PROVE  /\ Lack[k] \in Seq(S) /\ Len(Lack[k]) \in {0, 1}
             /\ \A i \in DOMAIN Lack[k] : Lack[k][i] \in Range(Shared) \ Range(conf)
  <2>1. CASE \A i \in DOMAIN conf : conf[i].key # Shared[k].key
    <3>1. Lack[k] = <<Shared[k]>> /\ Shared[k] \in Range(Shared) /\ Shared[k] \in S
      BY <1>1, <1>3, <1>4, <2>1
    <3>2. Shared[k] \notin Range(conf)
      BY <2>1 DEF Range
    <3> QED BY <3>1, <3>2
  <2>2. CASE ~\A i \in DOMAIN conf : conf[i].key # Shared[k].key
    <3>1. Lack[k] = <<>>
      BY <1>1, <2>2
    <3> QED BY <3>1
  <2> QED BY <2>1, <2>2
<1>6. PICK a \in Seq(S), b \in Seq(S) : a = Lack[1] /\ b = Lack[2]
  BY <1>5
<1>7. conf \in Seq(S)
  BY <1>4 DEF Range
<1>8. PICK cols \in Seq(S) : cols = a \o b \o conf
  <2>1. a \o b \in Seq(S)
    OBVIOUS
  <2>2. (a \o b) \o conf \in Seq(S)
    BY <2>1, <1>7
  <2> QED BY <2>2
<1>9. cols = ColumnsOf(conf)
  BY <1>2, <1>6, <1>8
<1>10. /\ Len(a) \in Nat /\ Len(b) \in Nat /\ Len(conf) \in Nat
       /\ Len(a \o b) = Len(a) + Len(b) /\ Len(cols) = Len(a) + Len(b) + Len(conf)
  BY <1>7, <1>8
<1>11. ASSUME NEW i \in DOMAIN cols
       PROVE  \/ cols[i] \in Range(Shared) \ Range(conf)
              \/ i - (Len(a) + Len(b)) \in DOMAIN conf /\ cols[i] = conf[i - (Len(a) + Len(b))]
  <2>0. i \in Nat /\ i >= 1 /\ i <= Len(a) + Len(b) + Len(conf)
    BY <1>10
  <2>1. CASE i <= Len(a)
    <3>1. i \in DOMAIN a /\ cols[i] = a[i]
      BY <1>7, <1>8, <1>10, <2>0, <2>1
    <3> QED BY <3>1, <1>5, <1>6
  <2>2. CASE i > Len(a) /\ i <= Len(a) + Len(b)
    <3>1. i - Len(a) \in DOMAIN b /\ cols[i] = b[i - Len(a)]
      BY <1>7, <1>8, <1>10, <2>0, <2>2
    <3> QED BY <3>1, <1>5, <1>6
  <2>3. CASE i > Len(a) + Len(b)
    <3>1. i - (Len(a) + Len(b)) \in DOMAIN conf /\ cols[i] = conf[i - (Len(a) + Len(b))]
      BY <1>7, <1>8, <1>10, <2>0, <2>3
    <3> QED BY <3>1
  <2> QED BY <1>10, <2>0, <2>1, <2>2, <2>3
<1>12. cols \in Seq(Range(cols))
  BY DEF Range
<1> QED BY <1>9, <1>10, <1>11, <1>12

\* The plan is that of a sheet and of the columns of a version.
PlanInv ==
  plan # Blank => \E heads \in Sheet, conf \in Setting :
                    ValidColumns(conf) /\ plan = [heads |-> heads, configured |-> conf,
                                                  placed |-> OutputPlan(heads, ColumnsOf(conf))]

LEMMA PlanInvariant == PlanSpec => []PlanInv
<1>1. PlanInit => PlanInv
  BY DEF PlanInit, PlanInv
<1>2. PlanInv /\ [ExportBook]_planVars => PlanInv'
  BY DEF ExportBook, planVars, PlanInv
<1> QED BY <1>1, <1>2, PTL DEF PlanSpec

\* What is promised of a plan.
PlannedWell(heads, conf, cols, p) ==
  /\ OwnHeaders(conf, cols) => ~p.stuck
  /\ ~p.stuck =>
       /\ Len(p.at) = Len(cols)
       /\ \A i \in DOMAIN cols : WellPlaced(heads, cols[i], p.at[i])
       /\ OwnPlaces(heads, cols) => \A i, j \in DOMAIN cols : p.at[i] = p.at[j] => i = j

LEMMA PlansAreGood ==
  ASSUME NEW heads \in Sheet, NEW conf \in Setting, ValidColumns(conf)
  PROVE  PlannedWell(heads, conf, ColumnsOf(conf), OutputPlan(heads, ColumnsOf(conf)))
<1>2. heads \in Seq(Range(heads)) /\ conf \in Seq(Range(conf))
  BY BookAssumption
<1>3. PICK cols : cols = ColumnsOf(conf)
  OBVIOUS
<1>4. PICK p : p = OutputPlan(heads, cols)
  OBVIOUS
<1>5. cols \in Seq(Range(cols))
  BY <1>2, <1>3, ColumnsAre
<1>6. PICK off \in Nat : \A i \in DOMAIN cols :
              \/ cols[i] \in Range(Shared) \ Range(conf)
              \/ i - off \in DOMAIN conf /\ cols[i] = conf[i - off]
  BY <1>2, <1>3, ColumnsAre
<1>7. PlacedSoFar(heads, cols, Len(cols), p)
  BY <1>2, <1>4, <1>5, PlanStands
<1>8. DOMAIN cols = 1 .. Len(cols) /\ Len(cols) \in Nat
  BY <1>5
<1>9. ASSUME p.stuck, OwnHeaders(conf, cols) PROVE FALSE
  <2>1. PICK i, j \in DOMAIN cols : i # j /\ cols[i].head = cols[j].head
    BY <1>7, <1>9 DEF PlacedSoFar
  <2>2. cols[i] \notin Range(Shared) \ Range(conf) /\ cols[j] \notin Range(Shared) \ Range(conf)
    BY <1>9, <2>1 DEF OwnHeaders
  <2>3. /\ i - off \in DOMAIN conf /\ cols[i] = conf[i - off]
        /\ j - off \in DOMAIN conf /\ cols[j] = conf[j - off]
    BY <1>6, <2>2
  <2>4. i - off # j - off
    BY <1>8, <2>1
  <2> QED BY <2>1, <2>3, <2>4 DEF ValidColumns
<1>10. ASSUME ~p.stuck
       PROVE  /\ Len(p.at) = Len(cols)
              /\ \A i \in DOMAIN cols : WellPlaced(heads, cols[i], p.at[i])
              /\ \A i, j \in DOMAIN cols : (i # j /\ p.at[i] = p.at[j]) => p.at[i] \in DOMAIN heads
  BY <1>7, <1>8, <1>10 DEF PlacedSoFar
<1>11. ASSUME ~p.stuck, OwnPlaces(heads, cols), NEW i \in DOMAIN cols, NEW j \in DOMAIN cols,
              p.at[i] = p.at[j], i # j
       PROVE  FALSE
  <2>1. p.at[i] \in DOMAIN heads
    BY <1>10, <1>11
  <2>2. StandsFor(heads[p.at[i]], cols[i]) /\ StandsFor(heads[p.at[i]], cols[j])
    BY <1>10, <1>11, <2>1 DEF WellPlaced
  <2> QED BY <1>11, <2>1, <2>2 DEF OwnPlaces
<1>12. p.stuck \in BOOLEAN
  BY <1>7 DEF PlacedSoFar
<1> QED BY <1>3, <1>4, <1>9, <1>10, <1>11, <1>12 DEF PlannedWell

LEMMA ColumnsStand == PlanInv => ColumnsArePlaced
<1> SUFFICES ASSUME PlanInv, plan # Blank
             PROVE  PlannedWell(plan.heads, plan.configured, ColumnsOf(plan.configured), plan.placed)
  BY DEF ColumnsArePlaced, PlannedWell
<1>1. PICK heads \in Sheet, conf \in Setting :
        ValidColumns(conf) /\ plan = [heads |-> heads, configured |-> conf,
                                      placed |-> OutputPlan(heads, ColumnsOf(conf))]
  BY DEF PlanInv
<1>2. PlannedWell(heads, conf, ColumnsOf(conf), OutputPlan(heads, ColumnsOf(conf)))
  BY <1>1, PlansAreGood
<1> QED BY <1>1, <1>2

LEMMA BookHolds == BookInv /\ PlanInv => BookStands
BY ShownStands, ColumnsStand DEF BookStands
=============================================================================
