-------------------------- MODULE FileSystemLemmas --------------------------
(***************************************************************************)
(* The data structures of the file system (module FileSystem): the sectors *)
(* BitMap::Find returns, the entries Directory finds, adds and removes, a  *)
(* directory of which one of two sectors is written, and what it means     *)
(* that bitmap, directory and headers agree.  On these rest the inductive  *)
(* invariant, the steps of an operation that only read, and the store of   *)
(* named files that the disk stands for.                                   *)
(***************************************************************************)
EXTENDS FileSystem, FiniteSetTheorems, WellFoundedInduction, TLAPS

\* A nonempty set of naturals has a least element.
LEMMA LeastElement ==
  ASSUME NEW T, T \subseteq Nat, T # {}
  PROVE  \E x \in T : \A y \in T : x <= y
<1>1. \E x \in T : \A y \in T : ~(<<y, x>> \in OpToRel(<, Nat))
  BY WFMin, NatLessThanWellFounded, Zenon
<1>2. PICK x \in T : \A y \in T : ~(<<y, x>> \in OpToRel(<, Nat))
  BY <1>1, Zenon
<1>3. \A y \in T : ~(y < x)
  BY <1>2, Zenon DEF OpToRel
<1>4. \A y \in T : y \in Nat
  OBVIOUS
<1>5. \A y \in T : x <= y
  BY <1>3, <1>4
<1> QED BY <1>5

-----------------------------------------------------------------------------
(* BitMap::Find (bitmap.cc:88-97).                                         *)

\* Sets of sectors are finite.
LEMMA FiniteSectors ==
  ASSUME NEW N \in Nat, NEW S \in SUBSET (0 .. N - 1)
  PROVE  IsFiniteSet(S) /\ Cardinality(S) \in Nat
<1>1. IsFiniteSet(0 .. N - 1)
  <2>1. 0 \in Int /\ N - 1 \in Int
    OBVIOUS
  <2> QED BY <2>1, FS_Interval
<1>2. IsFiniteSet(S)
  BY <1>1, FS_Subset, Zenon
<1> QED BY <1>2, FS_CardinalityType

Below(S, x) == {r \in S : r < x}

\* The number of clear bits below x grows by one at a clear bit and only there.
LEMMA BelowGrows ==
  ASSUME NEW S \in SUBSET Nat, IsFiniteSet(S), NEW x \in Nat
  PROVE  /\ Cardinality(Below(S, x)) \in Nat
         /\ x \in S => Cardinality(Below(S, x + 1)) = Cardinality(Below(S, x)) + 1
         /\ x \notin S => Cardinality(Below(S, x + 1)) = Cardinality(Below(S, x))
<1>0. \A r \in S : r \in Nat /\ (r < x + 1 <=> r < x \/ r = x)
  OBVIOUS
<1>1. IsFiniteSet(Below(S, x))
  BY FS_Subset DEF Below
<1>2. x \notin Below(S, x)
  BY DEF Below
<1>3. Cardinality(Below(S, x)) \in Nat
  BY <1>1, FS_CardinalityType
<1>4. ASSUME x \in S PROVE Cardinality(Below(S, x + 1)) = Cardinality(Below(S, x)) + 1
  <2>1. Below(S, x + 1) = Below(S, x) \cup {x}
    BY <1>0, <1>4, Zenon DEF Below
  <2> QED BY <1>1, <1>2, <2>1, FS_AddElement
<1>5. ASSUME x \notin S PROVE Below(S, x + 1) = Below(S, x)
  BY <1>0, <1>5, Zenon DEF Below
<1> QED BY <1>3, <1>4, <1>5

\* Of c clear bits there is one with k - 1 clear bits below it, for k in 1 .. c.
LEMMA KthExists ==
  ASSUME NEW N \in Nat, NEW S \in SUBSET (0 .. N - 1), NEW k \in 1 .. Cardinality(S)
  PROVE  \E s \in S : Cardinality({r \in S : r < s}) = k - 1
<1>0. IsFiniteSet(S) /\ S \subseteq Nat /\ Cardinality(S) \in Nat
  <2>1. \A r \in S : r \in Nat
    OBVIOUS
  <2> QED BY <2>1, FiniteSectors, Zenon
<1>00. \A r \in S : ~(r < 0) /\ r < N
  OBVIOUS
<1> DEFINE f(x) == Cardinality(Below(S, x))
           T == {x \in Nat : f(x) >= k}
<1>1. f(0) = 0
  <2>1. Below(S, 0) = {}
    BY <1>00, Zenon DEF Below
  <2> QED BY <2>1, FS_EmptySet
<1>2. N \in T
  <2>1. Below(S, N) = S
    BY <1>00, Zenon DEF Below
  <2> QED BY <2>1, <1>0
<1>3. PICK x \in T : \A y \in T : x <= y
  BY <1>2, LeastElement, Zenon
<1>4. x # 0
  BY <1>1, <1>3
<1>5. PICK y \in Nat : x = y + 1
  BY <1>3, <1>4
<1>6. y \notin T
  BY <1>3, <1>5
<1>7. f(y) \in Nat /\ f(y) < k /\ f(y + 1) >= k
  <2>1. f(y) \in Nat /\ f(y + 1) >= k
    BY <1>0, <1>3, <1>5, BelowGrows
  <2>2. ~(f(y) >= k)
    BY <1>6
  <2> HIDE DEF f
  <2> QED BY <2>1, <2>2, <1>0
<1>8. y \in S /\ f(y) = k - 1
  <2>1. /\ y \in S => f(y + 1) = f(y) + 1
        /\ y \notin S => f(y + 1) = f(y)
    BY <1>0, BelowGrows
  <2> HIDE DEF f
  <2> QED BY <2>1, <1>7
<1> QED BY <1>8, Zenon DEF Below

\* Find, called n times, returns n different clear bits when there are n.
LEMMA FindFresh ==
  ASSUME NEW map \in SUBSET Sectors, NEW n \in Nat, n <= NumClear(map)
  PROVE  /\ Find(map, n) \in Seq(Sectors \ map) /\ Len(Find(map, n)) = n
         /\ \A i, j \in 1 .. n : Find(map, n)[i] = Find(map, n)[j] => i = j
<1> DEFINE S == Sectors \ map
           at(k) == CHOOSE s \in S : Cardinality({r \in S : r < s}) = k - 1
<1>0. NumSectors \in Nat
  BY FileSystemAssumption
<1>1. ASSUME NEW k \in 1 .. n PROVE at(k) \in S /\ Cardinality({r \in S : r < at(k)}) = k - 1
  <2>1. S \subseteq 0 .. NumSectors - 1
    BY DEF Sectors
  <2>2. Cardinality(S) \in Nat
    BY <1>0, <2>1, FiniteSectors, Zenon
  <2>3. k \in 1 .. Cardinality(S)
    BY <2>2 DEF NumClear
  <2>4. \E s \in S : Cardinality({r \in S : r < s}) = k - 1
    BY <1>0, <2>1, <2>3, KthExists, Zenon
  <2> QED BY <2>4, Zenon
<1>2. Find(map, n) = [k \in 1 .. n |-> at(k)]
  BY DEF Find
<1> HIDE DEF at, S
<1>3. Find(map, n) \in [1 .. n -> S]
  BY <1>1, <1>2, Zenon
<1>4. Find(map, n) \in Seq(S) /\ Len(Find(map, n)) = n
  BY <1>3
<1>5. ASSUME NEW i \in 1 .. n, NEW j \in 1 .. n, at(i) = at(j) PROVE i = j
  <2>1. i - 1 = j - 1
    BY <1>1, <1>5, Zenon
  <2> QED BY <2>1
<1> QED BY <1>2, <1>4, <1>5 DEF S

\* Allocate in Create (filesys.cc:192-201): a sector for the header and as many
\* for the data as were asked for, all clear and all different.
LEMMA AllocateFresh ==
  ASSUME NEW map \in SUBSET Sectors, NEW size \in Nat, NumClear(map) > 0, NumClear(map) - 1 >= size
  PROVE  LET got == Allocate(map, size)
         IN  /\ got.sector \in Sectors \ map
             /\ got.blocks \in Seq(Sectors \ map) /\ Len(got.blocks) = size
             /\ \A i \in 1 .. Len(got.blocks) : got.blocks[i] # got.sector
<1> DEFINE f == Find(map, size + 1)
<1>0. NumClear(map) \in Nat
  <2>1. NumSectors \in Nat /\ Sectors \ map \in SUBSET (0 .. NumSectors - 1)
    BY FileSystemAssumption DEF Sectors
  <2> QED BY <2>1, FiniteSectors DEF NumClear
<1>1. /\ f \in Seq(Sectors \ map) /\ Len(f) = size + 1
      /\ \A i, j \in 1 .. size + 1 : f[i] = f[j] => i = j
  <2>1. size + 1 \in Nat /\ size + 1 <= NumClear(map)
    BY <1>0
  <2> QED BY <2>1, FindFresh, Zenon
<1>2. Allocate(map, size) = [sector |-> f[1], blocks |-> Tail(f)]
  BY DEF Allocate
<1> HIDE DEF f
<1>3. f[1] \in Sectors \ map
  BY <1>1
<1>4. /\ Tail(f) \in Seq(Sectors \ map) /\ Len(Tail(f)) = size
      /\ \A i \in 1 .. size : Tail(f)[i] = f[i + 1]
  BY <1>1
<1>5. \A i \in 1 .. size : Tail(f)[i] # f[1]
  BY <1>1, <1>4
<1> QED BY <1>2, <1>3, <1>4, <1>5

-----------------------------------------------------------------------------
(* The directory (directory.cc).                                           *)

NameOrNone == Names \cup {None}
Entry == [inUse : BOOLEAN, sector : Sectors, name : NameOrNone]
Dir == [Slots -> Entry]
HeaderSet == [blocks : Seq(Sectors \ Reserved), data : NameOrNone]
Disk == [Sectors -> HeaderSet]

Used(dir) == {i \in Slots : dir[i].inUse}

\* Find returns the first entry in use with the name, whatever other entries
\* a torn directory may have (directory.cc:88-96).
LEMMA FindIndexFirst ==
  ASSUME NEW dir \in Dir, NEW n, NEW i \in Used(dir), dir[i].name = n,
         \A j \in Used(dir) : dir[j].name = n => i <= j
  PROVE  FindIndex(dir, n) = i /\ Sector(dir, n) = dir[i].sector /\ Sector(dir, n) # -1
<1> DEFINE hits == {j \in Slots : dir[j].inUse /\ dir[j].name = n}
<1>1. i \in hits /\ \A j \in hits : i <= j
  BY DEF Used
<1>2. i \in Nat \ {0} /\ \A j \in hits : j \in Nat
  BY FileSystemAssumption DEF Used, Slots
<1>3. FindIndex(dir, n) = CHOOSE j \in hits : \A k \in hits : j <= k
  BY <1>1 DEF FindIndex
<1> HIDE DEF hits
<1>4. FindIndex(dir, n) = i
  <2>1. \E j \in hits : \A k \in hits : j <= k
    BY <1>1
  <2>2. FindIndex(dir, n) \in hits /\ \A k \in hits : FindIndex(dir, n) <= k
    BY <1>3, <2>1
  <2>3. FindIndex(dir, n) \in Nat /\ FindIndex(dir, n) <= i /\ i <= FindIndex(dir, n)
    BY <1>1, <1>2, <2>2, Zenon
  <2> QED BY <1>2, <2>3
<1>5. dir[i].sector \in Nat
  BY FileSystemAssumption DEF Dir, Entry, Used, Sectors
<1> QED BY <1>2, <1>4, <1>5 DEF Sector

\* Find answers -1 for a name that no used entry has.
LEMMA FindIndexNone ==
  ASSUME NEW dir, NEW n, \A j \in Used(dir) : dir[j].name # n
  PROVE  Sector(dir, n) = -1
  BY DEF Used, FindIndex, Sector

\* A name that Find knows is that of a used entry, and its sector is the answer.
LEMMA FindIndexSome ==
  ASSUME NEW dir \in Dir, NEW n, Sector(dir, n) # -1
  PROVE  \E i \in Used(dir) : dir[i].name = n /\ FindIndex(dir, n) = i
                              /\ Sector(dir, n) = dir[i].sector
<1> DEFINE hits == {j \in Slots : dir[j].inUse /\ dir[j].name = n}
<1>1. FindIndex(dir, n) # 0
  BY DEF Sector
<1>2. hits # {} /\ FindIndex(dir, n) = CHOOSE j \in hits : \A k \in hits : j <= k
  BY <1>1 DEF FindIndex
<1>3. hits \subseteq Nat
  BY FileSystemAssumption DEF Slots
<1>4. \E j \in hits : \A k \in hits : j <= k
  BY <1>2, <1>3, LeastElement, Zenon
<1>5. FindIndex(dir, n) \in hits
  BY <1>2, <1>4
<1> QED BY <1>1, <1>5 DEF Used, Sector

\* Add takes the first entry that is not in use (directory.cc:136-141).
LEMMA FreeSlotLeast ==
  ASSUME NEW dir, FreeSlot(dir) # 0
  PROVE  /\ FreeSlot(dir) \in Slots \ Used(dir)
         /\ \A j \in Slots \ Used(dir) : FreeSlot(dir) <= j
<1> DEFINE free == {i \in Slots : ~dir[i].inUse}
<1>1. free # {} /\ FreeSlot(dir) = CHOOSE i \in free : \A j \in free : i <= j
  BY DEF FreeSlot
<1>2. free \subseteq Nat
  BY FileSystemAssumption DEF Slots
<1>3. \E i \in free : \A j \in free : i <= j
  BY <1>1, <1>2, LeastElement
<1>4. FreeSlot(dir) \in free /\ \A j \in free : FreeSlot(dir) <= j
  BY <1>1, <1>3
<1> QED BY <1>4 DEF Used

\* The directory file is complete again after its second sector is written, and
\* a directory read in two halves is the one on the disk (openfile.cc).
LEMMA TornTwice ==
  ASSUME NEW a \in Dir, NEW b \in Dir
  PROVE  Torn(a, b) \in Dir /\ Torn(Torn(a, b), a) = a
<1>0. \A i \in Slots : i \in Nat
  BY FileSystemAssumption DEF Slots
<1>00. Straddle \in Nat
  BY FileSystemAssumption
<1>1. \A i \in Slots : a[i] \in Entry /\ b[i] \in Entry
  BY DEF Dir
<1>2. \A i \in Slots : [a[i] EXCEPT !.name = b[i].name] \in Entry
  BY <1>1 DEF Entry
<1>3. \A i \in Slots : Torn(a, b)[i] = IF i < Straddle THEN a[i] ELSE IF i > Straddle THEN b[i]
                                       ELSE [a[i] EXCEPT !.name = b[i].name]
  BY DEF Torn
<1>4. Torn(a, b) \in Dir
  BY <1>1, <1>2 DEF Torn, Dir
<1>5. \A i \in Slots : [[a[i] EXCEPT !.name = b[i].name] EXCEPT !.name = a[i].name] = a[i]
  BY <1>1, Zenon DEF Entry
<1>6. \A i \in Slots : Torn(Torn(a, b), a)[i] = a[i]
  BY <1>0, <1>00, <1>3, <1>5, Zenon DEF Torn
<1>7. Torn(Torn(a, b), a) = a
  BY <1>6, Zenon DEF Torn, Dir
<1> QED BY <1>4, <1>7

\* Where two directories agree, so does the one made of a half of each.
LEMMA TornSame ==
  ASSUME NEW a \in Dir, NEW b \in Dir, NEW i \in Slots
  PROVE  /\ a[i] = b[i] => Torn(a, b)[i] = a[i]
         /\ a[i] # b[i] => Torn(a, b)[i].name \in {a[i].name, b[i].name}
         /\ a[i].name = b[i].name => Torn(a, b)[i].name = a[i].name
<1>1. a[i] \in Entry /\ b[i] \in Entry
  BY DEF Dir
<1>2. a[i] = [a[i] EXCEPT !.name = a[i].name]
  BY <1>1 DEF Entry
<1>3. [a[i] EXCEPT !.name = b[i].name].name = b[i].name
  BY <1>1 DEF Entry
<1> QED BY <1>1, <1>2, <1>3 DEF Torn

-----------------------------------------------------------------------------
(* Bitmap, directory and headers agree.                                    *)

Taken(dir, dsk, i) == {dir[i].sector} \cup Blocks(dsk[dir[i].sector])

\* An entry that is not in use keeps its name.  If a file has that name, its
\* entry comes before: Add takes the first free entry.  Therefore Find does not
\* meet the old name in an entry of which only the first half is written.
StaleIsLater(dir) ==
    \A i \in Slots \ Used(dir), j \in Used(dir) : dir[i].name = dir[j].name => j < i

Agree(map, dir, dsk) ==
    /\ \A i \in Used(dir) :
          /\ dir[i].name \in Names
          /\ dir[i].sector \notin Blocks(dsk[dir[i].sector])
          /\ Taken(dir, dsk, i) \cap Reserved = {}
    /\ \A i, j \in Used(dir) :
          i # j => dir[i].name # dir[j].name /\ Taken(dir, dsk, i) \cap Taken(dir, dsk, j) = {}
    /\ map = Reserved \cup UNION {Taken(dir, dsk, i) : i \in Used(dir)}
    /\ StaleIsLater(dir)

FileAt(dir, dsk, i) == [name |-> dir[i].name, sector |-> dir[i].sector, hdr |-> dsk[dir[i].sector]]

FilesOn(dir, dsk) == {FileAt(dir, dsk, i) : i \in Used(dir)}

\* The files Open finds are the entries in use.
LEMMA FilesAreEntries ==
  ASSUME NEW dir \in Dir, NEW dsk, \A i \in Used(dir) : dir[i].name \in Names,
         \A i, j \in Used(dir) : i # j => dir[i].name # dir[j].name
  PROVE  {[name |-> n, sector |-> Sector(dir, n), hdr |-> dsk[Sector(dir, n)]] : n \in Listed(dir)}
            = FilesOn(dir, dsk)
<1>1. ASSUME NEW i \in Used(dir)
      PROVE  dir[i].name \in Listed(dir) /\ Sector(dir, dir[i].name) = dir[i].sector
  <2>1. \A j \in Used(dir) : dir[j].name = dir[i].name => i <= j
    <3>1. i \in Nat
      BY FileSystemAssumption DEF Used, Slots
    <3> QED BY <3>1
  <2> QED BY <2>1, FindIndexFirst DEF Listed
<1>2. ASSUME NEW n \in Listed(dir) PROVE \E i \in Used(dir) : dir[i].name = n
  BY FindIndexSome DEF Listed
<1> QED BY <1>1, <1>2 DEF FilesOn, FileAt

\* Data written to a sector that is no header changes no file and keeps the
\* agreement (openfile.cc, WriteAt).
LEMMA AgreeKept ==
  ASSUME NEW map, NEW dir, NEW dsk, NEW dsk2, Agree(map, dir, dsk),
         \A i \in Used(dir) : dsk2[dir[i].sector] = dsk[dir[i].sector]
  PROVE  Agree(map, dir, dsk2) /\ FilesOn(dir, dsk2) = FilesOn(dir, dsk)
<1>1. \A i \in Used(dir) : Taken(dir, dsk2, i) = Taken(dir, dsk, i)
  BY DEF Taken
<1>2. {Taken(dir, dsk2, i) : i \in Used(dir)} = {Taken(dir, dsk, i) : i \in Used(dir)}
  BY <1>1
<1>3. FilesOn(dir, dsk2) = FilesOn(dir, dsk)
  BY DEF FilesOn, FileAt
<1> QED BY <1>1, <1>2, <1>3 DEF Agree

\* What Create makes of the directory and the bitmap with the header in s, and
\* Remove with the file of entry k.
CreateResult(map, dir, dsk, n, s) ==
    LET new == Add(dir, n, s)
    IN  /\ new \in Dir
        /\ Agree(map \cup {s} \cup Blocks(dsk[s]), new, dsk)
        /\ FilesOn(new, dsk) = FilesOn(dir, dsk) \cup {[name |-> n, sector |-> s, hdr |-> dsk[s]]}

RemoveResult(map, dir, dsk, k) ==
    LET new == RemoveEntry(dir, dir[k].name)
        hdr == dsk[dir[k].sector]
    IN  /\ new \in Dir
        /\ new[k].name = dir[k].name
        /\ \A i \in Slots : i # k => new[i] = dir[i]
        /\ Blocks(hdr) \subseteq map
        /\ Agree(Deallocated(map, hdr, dir[k].sector), new, dsk)
        /\ FilesOn(new, dsk) = FilesOn(dir, dsk) \ {FileAt(dir, dsk, k)}
        /\ \A i \in Used(dir) : i # k =>
              Taken(dir, dsk, i) \subseteq Deallocated(map, hdr, dir[k].sector)

\* Create's copies agree when the header is on the disk (filesys.cc:191-208).
LEMMA AgreeCreate ==
  ASSUME NEW map \in SUBSET Sectors, NEW dir \in Dir, NEW dsk, Agree(map, dir, dsk),
         NEW n \in Names, \A i \in Used(dir) : dir[i].name # n, FreeSlot(dir) # 0,
         NEW s \in Sectors \ map, Blocks(dsk[s]) \subseteq Sectors \ map,
         s \notin Blocks(dsk[s])
  PROVE  CreateResult(map, dir, dsk, n, s)
<1> DEFINE k == FreeSlot(dir)
           new == Add(dir, n, s)
           e == [inUse |-> TRUE, sector |-> s, name |-> n]
<1>1. k \in Slots \ Used(dir) /\ \A j \in Slots \ Used(dir) : k <= j
  BY FreeSlotLeast
<1>2. new = [dir EXCEPT ![k] = e]
  BY DEF Add
<1>3. e \in Entry
  BY DEF Entry, NameOrNone
<1>4. new \in Dir /\ new[k] = e /\ \A i \in Slots : i # k => new[i] = dir[i]
  BY <1>1, <1>2, <1>3 DEF Dir
<1> HIDE DEF k, new
<1>5. Used(new) = Used(dir) \cup {k}
  BY <1>1, <1>4 DEF Used
<1>6. \A i \in Used(dir) : i # k /\ i \in Slots /\ new[i] = dir[i]
  BY <1>1, <1>4 DEF Used
<1>7. \A i \in Used(dir) : Taken(new, dsk, i) = Taken(dir, dsk, i)
  BY <1>6 DEF Taken
<1>8. Taken(new, dsk, k) = {s} \cup Blocks(dsk[s])
  BY <1>4 DEF Taken
<1>9. \A i \in Used(dir) : Taken(dir, dsk, i) \subseteq map
  BY DEF Agree
<1>10. Taken(new, dsk, k) \cap map = {} /\ Reserved \subseteq map
  BY <1>8 DEF Agree
<1>11. Agree(map \cup {s} \cup Blocks(dsk[s]), new, dsk)
  <2>1. \A i \in Used(new) :
          /\ new[i].name \in Names
          /\ new[i].sector \notin Blocks(dsk[new[i].sector])
          /\ Taken(new, dsk, i) \cap Reserved = {}
    BY <1>4, <1>5, <1>6, <1>7, <1>10 DEF Agree
  <2>2. \A i, j \in Used(new) :
          i # j => new[i].name # new[j].name /\ Taken(new, dsk, i) \cap Taken(new, dsk, j) = {}
    <3>1. \A i, j \in Used(dir) :
            i # j => new[i].name # new[j].name /\ Taken(new, dsk, i) \cap Taken(new, dsk, j) = {}
      BY <1>6, <1>7 DEF Agree
    <3>2. \A i \in Used(dir) :
            new[i].name # new[k].name /\ Taken(new, dsk, i) \cap Taken(new, dsk, k) = {}
      BY <1>4, <1>6, <1>7, <1>9, <1>10
    <3> QED BY <1>5, <3>1, <3>2
  <2>3. map \cup {s} \cup Blocks(dsk[s])
          = Reserved \cup UNION {Taken(new, dsk, i) : i \in Used(new)}
    <3>1. map = Reserved \cup UNION {Taken(new, dsk, i) : i \in Used(dir)}
      <4>1. {Taken(new, dsk, i) : i \in Used(dir)} = {Taken(dir, dsk, i) : i \in Used(dir)}
        BY <1>7
      <4> QED BY <4>1 DEF Agree
    <3>2. UNION {Taken(new, dsk, i) : i \in Used(new)}
            = Taken(new, dsk, k) \cup UNION {Taken(new, dsk, i) : i \in Used(dir)}
      BY <1>5
    <3> QED BY <1>8, <3>1, <3>2
  <2>4. StaleIsLater(new)
    <3> SUFFICES ASSUME NEW i \in Slots \ Used(new), NEW j \in Used(new), new[i].name = new[j].name
                 PROVE  j < i
      BY DEF StaleIsLater
    <3>1. i \in Slots \ Used(dir) /\ i # k /\ new[i] = dir[i]
      BY <1>4, <1>5
    <3>2. CASE j = k
      <4>1. i \in Nat /\ k \in Nat
        BY <1>1, FileSystemAssumption DEF Slots
      <4> QED BY <1>1, <3>1, <3>2, <4>1
    <3>3. CASE j \in Used(dir)
      BY <1>6, <3>1, <3>3 DEF Agree, StaleIsLater
    <3> QED BY <1>5, <3>2, <3>3
  <2> QED BY <2>1, <2>2, <2>3, <2>4 DEF Agree
<1>12. FilesOn(new, dsk) = FilesOn(dir, dsk) \cup {[name |-> n, sector |-> s, hdr |-> dsk[s]]}
  <2>1. \A i \in Used(dir) : FileAt(new, dsk, i) = FileAt(dir, dsk, i)
    BY <1>6 DEF FileAt
  <2>2. FileAt(new, dsk, k) = [name |-> n, sector |-> s, hdr |-> dsk[s]]
    BY <1>4 DEF FileAt
  <2> QED BY <1>5, <2>1, <2>2 DEF FilesOn
<1> QED BY <1>4, <1>11, <1>12 DEF new, CreateResult

\* Remove's copies agree as soon as they are made (filesys.cc:272-281), and the
\* blocks it frees are marked.
LEMMA AgreeRemove ==
  ASSUME NEW map, NEW dir \in Dir, NEW dsk, Agree(map, dir, dsk), NEW k \in Used(dir)
  PROVE  RemoveResult(map, dir, dsk, k)
<1> DEFINE n == dir[k].name
           new == RemoveEntry(dir, n)
           map2 == Deallocated(map, dsk[dir[k].sector], dir[k].sector)
<1>1. k \in Slots /\ k \in Nat /\ dir[k] \in Entry
  BY FileSystemAssumption DEF Used, Slots, Dir
<1>2. FindIndex(dir, n) = k
  <2>1. \A j \in Used(dir) : dir[j].name = n => k <= j
    BY <1>1 DEF Agree
  <2> QED BY <2>1, FindIndexFirst
<1>3. new = [dir EXCEPT ![k].inUse = FALSE]
  BY <1>2 DEF RemoveEntry
<1>4. /\ new \in Dir /\ new[k] = [dir[k] EXCEPT !.inUse = FALSE]
      /\ \A i \in Slots : i # k => new[i] = dir[i]
  <2>1. [dir[k] EXCEPT !.inUse = FALSE] \in Entry
    BY <1>1, Zenon DEF Entry
  <2> QED BY <1>1, <1>3, <2>1 DEF Dir
<1>5. new[k].inUse = FALSE /\ new[k].name = n
  BY <1>1, <1>4 DEF Entry
<1> HIDE DEF new
<1>6. Used(new) = Used(dir) \ {k}
  BY <1>4, <1>5, Zenon DEF Used
<1>7. \A i \in Used(new) : i \in Used(dir) /\ i # k /\ new[i] = dir[i]
  BY <1>4, <1>6 DEF Used
<1>8. \A i \in Used(new) : Taken(new, dsk, i) = Taken(dir, dsk, i)
  BY <1>7 DEF Taken
<1>9. map2 = map \ Taken(dir, dsk, k)
  BY DEF Deallocated, Taken
<1> HIDE DEF map2
<1>10. \A i \in Used(dir) : Taken(dir, dsk, i) \subseteq map
  BY DEF Agree
<1>11. \A i \in Used(dir) : i # k => Taken(dir, dsk, i) \subseteq map2
  BY <1>9, <1>10 DEF Agree
<1>12. Agree(map2, new, dsk)
  <2>1. \A i \in Used(new) :
          /\ new[i].name \in Names
          /\ new[i].sector \notin Blocks(dsk[new[i].sector])
          /\ Taken(new, dsk, i) \cap Reserved = {}
    BY <1>7, <1>8 DEF Agree
  <2>2. \A i, j \in Used(new) :
          i # j => new[i].name # new[j].name /\ Taken(new, dsk, i) \cap Taken(new, dsk, j) = {}
    BY <1>7, <1>8 DEF Agree
  <2>3. map2 = Reserved \cup UNION {Taken(new, dsk, i) : i \in Used(new)}
    <3>1. {Taken(new, dsk, i) : i \in Used(new)} = {Taken(dir, dsk, i) : i \in Used(new)}
      BY <1>8
    <3>2. map = Reserved \cup UNION {Taken(dir, dsk, i) : i \in Used(dir)}
      BY DEF Agree
    <3>3. Taken(dir, dsk, k) \cap Reserved = {}
      BY DEF Agree
    <3>4. \A i \in Used(new) : Taken(dir, dsk, k) \cap Taken(dir, dsk, i) = {}
      BY <1>7 DEF Agree
    <3>5. \A x \in map2 : x \in Reserved \/ \E i \in Used(new) : x \in Taken(dir, dsk, i)
      BY <1>6, <1>9, <3>2
    <3>6. \A i \in Used(new) : Taken(dir, dsk, i) \subseteq map2
      BY <1>7, <1>11
    <3>7. Reserved \subseteq map2
      BY <1>9, <3>2, <3>3
    <3> QED BY <3>1, <3>5, <3>6, <3>7
  <2>4. StaleIsLater(new)
    <3> SUFFICES ASSUME NEW i \in Slots \ Used(new), NEW j \in Used(new), new[i].name = new[j].name
                 PROVE  j < i
      BY DEF StaleIsLater
    <3>1. i # k
      BY <1>5, <1>7 DEF Agree
    <3> QED BY <1>4, <1>6, <1>7, <3>1 DEF Agree, StaleIsLater
  <2> QED BY <2>1, <2>2, <2>3, <2>4 DEF Agree
<1>13. FilesOn(new, dsk) = FilesOn(dir, dsk) \ {FileAt(dir, dsk, k)}
  <2>1. \A i \in Used(new) : FileAt(new, dsk, i) = FileAt(dir, dsk, i)
    BY <1>7 DEF FileAt
  <2>2. \A i \in Used(dir) : i # k => FileAt(dir, dsk, i) # FileAt(dir, dsk, k)
    <3>1. \A i \in Used(dir) : i # k => FileAt(dir, dsk, i).name # FileAt(dir, dsk, k).name
      BY DEF FileAt, Agree
    <3> QED BY <3>1
  <2> QED BY <1>6, <2>1, <2>2 DEF FilesOn
<1>14. Blocks(dsk[dir[k].sector]) \subseteq map
  BY <1>10 DEF Taken
<1> QED BY <1>4, <1>5, <1>11, <1>12, <1>13, <1>14 DEF new, map2, RemoveResult

\* Entry k, of the file n, is the only one in which two directories differ.
OneChanged(old, new, k, n) ==
    /\ \A i \in Slots : i # k => new[i] = old[i]
    /\ new[k].name = n /\ (k \in Used(old) => old[k].name = n)

ListsOthers(dir, old, dsk, n) ==
    \A f \in FilesOn(old, dsk) : f.name # n =>
        /\ f.name \in Listed(dir)
        /\ f = [name |-> f.name, sector |-> Sector(dir, f.name), hdr |-> dsk[Sector(dir, f.name)]]

\* A directory with one entry changed, or half changed, still lists every other
\* file (directory.cc:88-96, filesys.cc:206, 283).
LEMMA OthersAreListed ==
  ASSUME NEW map, NEW old \in Dir, NEW new \in Dir, NEW dsk, Agree(map, old, dsk),
         NEW k \in Slots, NEW n, OneChanged(old, new, k, n), NEW dir \in {old, Torn(new, old), new}
  PROVE  ListsOthers(dir, old, dsk, n)
<1> USE DEF OneChanged
<1> SUFFICES ASSUME NEW i \in Used(old), old[i].name # n
             PROVE  old[i].name \in Listed(dir) /\ Sector(dir, old[i].name) = old[i].sector
  BY DEF ListsOthers, FilesOn, FileAt
<1>1. i \in Slots /\ i # k
  BY DEF Used
<1>2. dir \in Dir
  BY TornTwice
<1>3. \A j \in Slots : j # k => dir[j] = old[j]
  BY TornSame
<1>4. dir[k].name \in {n, old[k].name}
  BY TornSame
<1>5. i \in Used(dir) /\ dir[i] = old[i]
  BY <1>1, <1>3 DEF Used
<1>6. ASSUME NEW j \in Used(dir), dir[j].name = old[i].name PROVE i <= j
  <2>0. i \in Nat /\ j \in Nat
    BY <1>1, FileSystemAssumption DEF Used, Slots
  <2>1. CASE j = k
    <3>1. old[k].name = old[i].name
      BY <1>4, <1>6, <2>1
    <3>2. k \in Slots \ Used(old)
      BY <3>1
    <3> QED BY <2>0, <2>1, <3>1, <3>2 DEF Agree, StaleIsLater
  <2>2. CASE j # k
    <3>1. j \in Used(old) /\ old[j].name = old[i].name
      BY <1>3, <1>6, <2>2 DEF Used
    <3> QED BY <2>0, <3>1 DEF Agree
  <2> QED BY <2>1, <2>2
<1>7. old[i].name \in Names
  BY DEF Agree
<1> QED BY <1>2, <1>5, <1>6, <1>7, FindIndexFirst DEF Listed

-----------------------------------------------------------------------------
(* The inductive invariant.  "old" and "map" are the directory and the     *)
(* bitmap with which the current operation began.                          *)

FileSet == [name : NameOrNone, hdr : HeaderSet]
ThreadSet ==
    [pc : {"idle", "fetchDir", "fetchHdr", "fetchMap", "writeHdr", "writeDir1", "writeDir2", "writeMap"},
     op : {"none", "Create", "Open", "Remove"}, name : NameOrNone, size : Nat, dir : Dir,
     map : SUBSET Sectors, hdr : HeaderSet, sector : Sectors \cup {-1}, file : FileSet]

Types ==
    /\ freeMap \in SUBSET Sectors
    /\ directory \in Dir
    /\ disk \in Disk
    /\ th \in [Threads -> ThreadSet]

\* An open file is listed with the header it was opened with.
OpenIsListed(me, old, dsk) ==
    me.file.name # None =>
        \E i \in Used(old) : old[i].name = me.file.name /\ dsk[old[i].sector] = me.file.hdr

Unlisted(me, old) == \A i \in Used(old) : old[i].name # me.name

\* Open and Remove have found the entry of the file.
Points(me, old) == \E i \in Used(old) : old[i].name = me.name /\ me.sector = old[i].sector

\* Create's and Remove's copies.
Creating(me, old, map) ==
    /\ me.op = "Create" /\ Unlisted(me, old)
    /\ me.size \in Sizes /\ Len(me.hdr.blocks) = me.size
    /\ FreeSlot(old) # 0 /\ me.dir = Add(old, me.name, me.sector)
    /\ me.sector \in Sectors \ map /\ Blocks(me.hdr) \subseteq Sectors \ map
    /\ me.sector \notin Blocks(me.hdr)
    /\ me.map = map \cup {me.sector} \cup Blocks(me.hdr)

Removing(me, old, map, dsk) ==
    /\ me.op = "Remove" /\ Points(me, old) /\ me.hdr = dsk[me.sector]
    /\ me.dir = RemoveEntry(old, me.name)
    /\ me.map = Deallocated(map, me.hdr, me.sector)

\* Nothing is written yet: what the thread knows at each place.
Reading(me, old, map, dsk) ==
    \/ me.pc = "fetchDir" /\ me.op \in {"Create", "Open", "Remove"}
       /\ (me.op = "Create" => me.size \in Sizes) /\ me.dir = Torn(old, Empty)
    \/ me.pc = "fetchHdr" /\ me.op \in {"Open", "Remove"} /\ me.dir = old /\ Points(me, old)
    \/ me.pc = "fetchMap" /\ me.op = "Create" /\ me.size \in Sizes /\ me.dir = old /\ Unlisted(me, old)
    \/ me.pc = "fetchMap" /\ me.op = "Remove" /\ me.dir = old /\ Points(me, old)
       /\ me.hdr = dsk[me.sector]
    \/ me.pc = "writeHdr" /\ Creating(me, old, map)
    \/ me.pc = "writeDir1" /\ Creating(me, old, map) /\ dsk[me.sector] = me.hdr
    \/ me.pc = "writeMap" /\ Removing(me, old, map, dsk)

\* The directory or the bitmap on the disk is not the old one.
Writing(me, old, map, dsk, dir, fmap) ==
    \/ me.pc = "writeDir2" /\ Creating(me, old, map) /\ dsk[me.sector] = me.hdr
       /\ dir = Torn(me.dir, old) /\ fmap = map
    \/ me.pc = "writeMap" /\ Creating(me, old, map) /\ dsk[me.sector] = me.hdr
       /\ dir = me.dir /\ fmap = map
    \/ me.pc = "writeDir1" /\ Removing(me, old, map, dsk) /\ dir = old /\ fmap = me.map
    \/ me.pc = "writeDir2" /\ Removing(me, old, map, dsk) /\ dir = Torn(me.dir, old) /\ fmap = me.map

Phase(me, old, map, dsk, dir, fmap, files) ==
    /\ old \in Dir /\ map \in SUBSET Sectors
    /\ Agree(map, old, dsk) /\ OpenIsListed(me, old, dsk)
    /\ me.pc # "idle" => /\ me.name \in Names /\ files = FilesOn(old, dsk)
                         /\ me.op = "Remove" => me.file.name # me.name
    /\ \/ (me.pc = "idle" \/ Reading(me, old, map, dsk)) /\ dir = old /\ fmap = map
       \/ Writing(me, old, map, dsk, dir, fmap)

InPhase(me, dsk, dir, fmap, files) == \E old, map : Phase(me, old, map, dsk, dir, fmap, files)

Before ==
    /\ victim = None /\ ~aborted
    /\ Types
    /\ \A t \in Threads : InPhase(th[t], disk, directory, freeMap, durable)

IInv ==
    /\ crashes \in Nat
    /\ crashes = 0 => Before
    /\ crashes = 1 /\ victim # None => CrashSparesOthers /\ \A t \in Threads : th[t] = Idle

\* A freshly formatted disk agrees (filesys.cc:80-136).
LEMMA InitLemma == Init => IInv
<1> SUFFICES ASSUME Init PROVE IInv
  OBVIOUS
<1> USE DEF Init
<1>1. Unused \in Entry /\ Unused.inUse = FALSE
  BY FileSystemAssumption DEF Unused, Entry, NameOrNone, Sectors
<1>2. Empty \in Dir /\ \A i \in Slots : Empty[i] = Unused
  BY <1>1 DEF Empty, Dir
<1>3. Used(Empty) = {}
  BY <1>1, <1>2 DEF Used
<1>4. Blank \in HeaderSet
  BY DEF Blank, Header, HeaderSet, NameOrNone
<1>5. Reserved \in SUBSET Sectors
  BY FileSystemAssumption DEF Reserved, Sectors
<1>6. Idle \in ThreadSet
  BY <1>2, <1>4 DEF Idle, ThreadSet, FileSet, NameOrNone
<1>7. Types
  BY <1>2, <1>4, <1>5, <1>6 DEF Types, Disk
<1>8. Agree(Reserved, Empty, disk)
  BY <1>3 DEF Agree, StaleIsLater
<1>9. Phase(Idle, Empty, Reserved, disk, directory, freeMap, durable)
  BY <1>2, <1>5, <1>8 DEF Phase, OpenIsListed, Idle
<1> QED BY <1>7, <1>9 DEF IInv, Before, InPhase

\* The caller's own state is what a step of the only caller has to account for.
LEMMA KeepBefore ==
  ASSUME NEW t, Threads = {t}, th \in [Threads -> ThreadSet],
         NEW me \in ThreadSet, th' = [th EXCEPT ![t] = me],
         freeMap' \in SUBSET Sectors, directory' \in Dir, disk' \in Disk, victim' = None, ~aborted',
         NEW old, NEW map, Phase(me, old, map, disk', directory', freeMap', durable')
  PROVE  Before'
<1>1. th' \in [Threads -> ThreadSet] /\ th'[t] = me
  OBVIOUS
<1>2. Types'
  BY <1>1 DEF Types
<1>3. InPhase(th'[t], disk', directory', freeMap', durable')
  BY <1>1 DEF InPhase
<1> QED BY <1>2, <1>3 DEF Before

\* Return ends an operation that has changed nothing, or whose changes are
\* complete (filesys.cc:209-215, 241, 287).
LEMMA ReturnPhase ==
  ASSUME NEW me \in ThreadSet, NEW old \in Dir, NEW map \in SUBSET Sectors, NEW dsk, NEW files,
         Agree(map, old, dsk), OpenIsListed(me, old, dsk)
  PROVE  LET new == [Idle EXCEPT !.file = me.file]
         IN  new \in ThreadSet /\ Phase(new, old, map, dsk, old, map, files)
<1> DEFINE new == [Idle EXCEPT !.file = me.file]
<1>1. Empty \in Dir
  BY FileSystemAssumption DEF Empty, Dir, Entry, Unused, NameOrNone, Sectors
<1>2. me.file \in FileSet
  BY DEF ThreadSet
<1>3. Blank \in HeaderSet
  BY DEF Blank, Header, HeaderSet, NameOrNone
<1>4. new \in ThreadSet
  BY <1>1, <1>2, <1>3 DEF ThreadSet, Idle, NameOrNone
<1>5. new.pc = "idle" /\ new.file = me.file
  BY DEF Idle
<1> HIDE DEF new
<1>6. Phase(new, old, map, dsk, old, map, files)
  BY <1>5 DEF Phase, OpenIsListed
<1> QED BY <1>4, <1>6 DEF new

\* What Create and Remove have in memory when they start to write the directory.
NowCreated(me, old, dsk) ==
    /\ me.dir \in Dir /\ me.map \in SUBSET Sectors /\ Agree(me.map, me.dir, dsk)
    /\ OpenIsListed(me, me.dir, dsk)
    /\ FilesOn(me.dir, dsk) =
         FilesOn(old, dsk) \cup {[name |-> me.name, sector |-> me.sector, hdr |-> me.hdr]}
    /\ FreeSlot(old) \in Slots \ Used(old) /\ me.dir[FreeSlot(old)].name = me.name
    /\ \A i \in Slots : i # FreeSlot(old) => me.dir[i] = old[i]

NowRemoved(me, old, dsk) ==
    /\ me.dir \in Dir /\ me.map \in SUBSET Sectors /\ Agree(me.map, me.dir, dsk)
    /\ OpenIsListed(me, me.dir, dsk)
    /\ \E k \in Used(old) :
          /\ old[k].name = me.name /\ me.dir[k].name = me.name
          /\ FilesOn(me.dir, dsk) = FilesOn(old, dsk) \ {FileAt(old, dsk, k)}
          /\ \A i \in Slots : i # k => me.dir[i] = old[i]
          /\ \A i \in Used(old) : i # k => Taken(old, dsk, i) \subseteq me.map

\* An entry other than the new or the removed one is the same in both
\* directories, so a file that was open before is still listed.
LEMMA CreatedAgrees ==
  ASSUME NEW me \in ThreadSet, NEW old \in Dir, NEW map \in SUBSET Sectors, NEW dsk,
         Agree(map, old, dsk), OpenIsListed(me, old, dsk), me.name \in Names,
         Creating(me, old, map), dsk[me.sector] = me.hdr
  PROVE  NowCreated(me, old, dsk)
<1>1. /\ \A i \in Used(old) : old[i].name # me.name
      /\ FreeSlot(old) # 0 /\ me.dir = Add(old, me.name, me.sector)
      /\ me.sector \in Sectors \ map /\ Blocks(dsk[me.sector]) \subseteq Sectors \ map
      /\ me.sector \notin Blocks(dsk[me.sector])
      /\ me.map = map \cup {me.sector} \cup Blocks(dsk[me.sector])
  BY DEF Creating, Unlisted
<1>2. /\ me.dir \in Dir /\ Agree(me.map, me.dir, dsk)
      /\ FilesOn(me.dir, dsk) =
           FilesOn(old, dsk) \cup {[name |-> me.name, sector |-> me.sector, hdr |-> me.hdr]}
  <2>1. CreateResult(map, old, dsk, me.name, me.sector)
    BY <1>1, AgreeCreate
  <2> QED BY <1>1, <2>1 DEF CreateResult
<1>3. FreeSlot(old) \in Slots \ Used(old)
  BY <1>1, FreeSlotLeast
<1>4. me.dir[FreeSlot(old)].name = me.name /\ \A i \in Slots : i # FreeSlot(old) => me.dir[i] = old[i]
  BY <1>1, <1>3 DEF Add, Dir
<1>5. \A i \in Used(old) : i \in Used(me.dir) /\ me.dir[i] = old[i]
  BY <1>3, <1>4 DEF Used
<1>6. OpenIsListed(me, me.dir, dsk)
  BY <1>5 DEF OpenIsListed
<1>7. me.map \in SUBSET Sectors
  BY DEF ThreadSet
<1> QED BY <1>2, <1>3, <1>4, <1>6, <1>7 DEF NowCreated

\* What Remove computes in memory agrees with the disk, and is the old directory without
\* the file that was named.
LEMMA RemovedAgrees ==
  ASSUME NEW me \in ThreadSet, NEW old \in Dir, NEW map \in SUBSET Sectors, NEW dsk,
         Agree(map, old, dsk), OpenIsListed(me, old, dsk), me.file.name # me.name,
         Removing(me, old, map, dsk)
  PROVE  NowRemoved(me, old, dsk)
<1>1. PICK k \in Used(old) : old[k].name = me.name /\ me.sector = old[k].sector
  BY DEF Removing, Points
<1>2. /\ me.dir = RemoveEntry(old, old[k].name)
      /\ me.map = Deallocated(map, dsk[old[k].sector], old[k].sector)
  BY <1>1 DEF Removing
<1>3. /\ RemoveEntry(old, old[k].name)[k].name = old[k].name
      /\ \A i \in Slots : i # k => RemoveEntry(old, old[k].name)[i] = old[i]
      /\ Agree(Deallocated(map, dsk[old[k].sector], old[k].sector), RemoveEntry(old, old[k].name), dsk)
      /\ FilesOn(RemoveEntry(old, old[k].name), dsk) = FilesOn(old, dsk) \ {FileAt(old, dsk, k)}
      /\ \A i \in Used(old) : i # k =>
            Taken(old, dsk, i) \subseteq Deallocated(map, dsk[old[k].sector], old[k].sector)
  <2>1. RemoveResult(map, old, dsk, k)
    BY AgreeRemove
  <2> QED BY <2>1 DEF RemoveResult
<1>4. \A i \in Used(old) : i # k => i \in Used(me.dir) /\ me.dir[i] = old[i]
  BY <1>2, <1>3 DEF Used
<1>5. OpenIsListed(me, me.dir, dsk)
  BY <1>1, <1>4 DEF OpenIsListed
<1>6. me.map \in SUBSET Sectors /\ me.dir \in Dir
  BY DEF ThreadSet
<1> QED BY <1>1, <1>2, <1>3, <1>5, <1>6 DEF NowRemoved

-----------------------------------------------------------------------------
(* The steps of an operation before it has its copies.                     *)

\* A call begins (filesys.cc:174-186, 227-236, 257-266).
LEMMA CallKeeps ==
  ASSUME NEW t, Threads = {t}, ~RemoveOpen, Before, NEW n \in Names, NEW size \in Nat,
         NEW op \in {"Create", "Open", "Remove"}, op = "Create" => size \in Sizes,
         Call(t, op, n, size)
  PROVE  Before'
<1>00. /\ victim = None /\ ~aborted /\ freeMap \in SUBSET Sectors /\ directory \in Dir
       /\ disk \in Disk /\ th \in [Threads -> ThreadSet]
       /\ InPhase(th[t], disk, directory, freeMap, durable)
  BY DEF Before, Types
<1>0. PICK me \in ThreadSet : me = th[t]
  BY <1>00
<1>1. PICK old, map : Phase(me, old, map, disk, directory, freeMap, durable)
  BY <1>0, <1>00 DEF InPhase
<1> DEFINE new == [me EXCEPT !.pc = "fetchDir", !.op = op, !.name = n, !.size = size,
                             !.dir = Torn(directory, Empty)]
<1>2. /\ me.pc = "idle" /\ th' = [th EXCEPT ![t] = new] /\ durable' = Files(directory)
      /\ victim' = None /\ aborted' = aborted
      /\ freeMap' = freeMap /\ directory' = directory /\ disk' = disk
  BY <1>0 DEF Call, onDisk
<1>3. op = "Remove" => me.file.name # n
  BY <1>0 DEF Call
<1>4. directory = old /\ freeMap = map /\ Agree(map, old, disk) /\ OpenIsListed(me, old, disk)
  BY <1>1, <1>2 DEF Phase, Reading, Writing
<1>5. Empty \in Dir
  BY FileSystemAssumption DEF Empty, Dir, Entry, Unused, NameOrNone, Sectors
<1>6. Torn(directory, Empty) \in Dir
  BY <1>00, <1>5, TornTwice
<1>7. /\ new \in ThreadSet /\ new.pc = "fetchDir" /\ new.op = op /\ new.name = n
      /\ new.size = size /\ new.dir = Torn(directory, Empty) /\ new.file = me.file
  BY <1>6, Zenon DEF ThreadSet, NameOrNone
<1> HIDE DEF new
<1>8. durable' = FilesOn(old, disk)
  BY <1>00, <1>2, <1>4, FilesAreEntries DEF Files, File, Agree
<1>9. Phase(new, old, map, disk', directory', freeMap', durable')
  BY <1>00, <1>2, <1>3, <1>4, <1>7, <1>8, Zenon DEF Phase, Reading, OpenIsListed
<1> QED BY <1>00, <1>2, <1>7, <1>9, KeepBefore, Zenon

\* The directory has been read and searched (filesys.cc:187-188, 237, 267-270).
LEMMA FetchDirectoryKeeps ==
  ASSUME NEW t, Threads = {t}, Before, FetchDirectory(t) PROVE Before'
<1>00. /\ victim = None /\ ~aborted /\ freeMap \in SUBSET Sectors /\ directory \in Dir
       /\ disk \in Disk /\ th \in [Threads -> ThreadSet]
       /\ InPhase(th[t], disk, directory, freeMap, durable)
  BY DEF Before, Types
<1>0. PICK me \in ThreadSet : me = th[t]
  BY <1>00
<1>1. PICK old, map : Phase(me, old, map, disk, directory, freeMap, durable)
  BY <1>0, <1>00 DEF InPhase
<1> DEFINE dir == Torn(me.dir, directory)
           found == Sector(dir, me.name) # -1
<1>2. /\ me.pc = "fetchDir"
      /\ th' = [th EXCEPT ![t] =
                     IF found = (me.op = "Create") THEN [Idle EXCEPT !.file = me.file]
                     ELSE [me EXCEPT !.dir = dir, !.sector = Sector(dir, me.name),
                             !.pc = IF me.op = "Create" THEN "fetchMap" ELSE "fetchHdr"]]
      /\ durable' = durable /\ victim' = None /\ aborted' = aborted
      /\ freeMap' = freeMap /\ directory' = directory /\ disk' = disk
  BY <1>00, <1>0 DEF FetchDirectory, Return, onDisk
<1>3. /\ directory = old /\ freeMap = map /\ old \in Dir /\ map \in SUBSET Sectors
      /\ Agree(map, old, disk) /\ OpenIsListed(me, old, disk)
      /\ me.dir = Torn(old, Empty) /\ me.op \in {"Create", "Open", "Remove"}
      /\ me.op = "Create" => me.size \in Sizes
      /\ me.name \in Names /\ durable = FilesOn(old, disk)
      /\ me.op = "Remove" => me.file.name # me.name
  BY <1>1, <1>2 DEF Phase, Reading, Writing
<1>4. dir = old
  <2>1. Empty \in Dir
    BY FileSystemAssumption DEF Empty, Dir, Entry, Unused, NameOrNone, Sectors
  <2> QED BY <1>3, <2>1, TornTwice
<1> HIDE DEF dir
<1>5. CASE found = (me.op = "Create")
  <2> DEFINE new == [Idle EXCEPT !.file = me.file]
  <2>1. new \in ThreadSet /\ Phase(new, old, map, disk, old, map, durable)
    BY <1>3, ReturnPhase
  <2>2. th' = [th EXCEPT ![t] = new]
    BY <1>2, <1>5
  <2> HIDE DEF new
  <2> QED BY <1>00, <1>2, <1>3, <2>1, <2>2, KeepBefore, Zenon
<1>6. CASE found # (me.op = "Create")
  <2> DEFINE new == [me EXCEPT !.dir = dir, !.sector = Sector(dir, me.name),
                               !.pc = IF me.op = "Create" THEN "fetchMap" ELSE "fetchHdr"]
  <2>1. th' = [th EXCEPT ![t] = new]
    BY <1>2, <1>6
  <2>2. Sector(dir, me.name) \in Sectors \cup {-1}
    BY <1>3, <1>4, FindIndexSome DEF Dir, Entry, Used
  <2>3. /\ new \in ThreadSet /\ new.dir = old /\ new.sector = Sector(old, me.name) /\ new.op = me.op
        /\ new.name = me.name /\ new.size = me.size /\ new.file = me.file
        /\ new.pc = IF me.op = "Create" THEN "fetchMap" ELSE "fetchHdr"
    BY <1>3, <1>4, <2>2, Zenon DEF ThreadSet
  <2> HIDE DEF new
  <2>4. CASE me.op = "Create"
    <3>1. Sector(old, me.name) = -1
      BY <1>4, <1>6, <2>4
    <3>2. Unlisted(me, old)
      <4> SUFFICES ASSUME NEW i \in Used(old), old[i].name = me.name PROVE FALSE
        BY DEF Unlisted
      <4>1. \A j \in Used(old) : old[j].name = me.name => i <= j
        BY <1>3, FileSystemAssumption DEF Agree, Used, Slots
      <4> QED BY <1>3, <3>1, <4>1, FindIndexFirst
    <3>3. Phase(new, old, map, disk, old, map, durable)
      BY <1>3, <2>3, <2>4, <3>2 DEF Phase, Reading, OpenIsListed, Unlisted
    <3> QED BY <1>00, <1>2, <1>3, <2>1, <2>3, <3>3, KeepBefore, Zenon
  <2>5. CASE me.op # "Create"
    <3>1. Sector(old, me.name) # -1
      BY <1>4, <1>6, <2>5
    <3>2. Points(new, old)
      BY <1>3, <2>3, <3>1, FindIndexSome DEF Points
    <3>3. Phase(new, old, map, disk, old, map, durable)
      BY <1>3, <2>3, <2>5, <3>2, ZenonT(60) DEF Phase, Reading, OpenIsListed
    <3> QED BY <1>00, <1>2, <1>3, <2>1, <2>3, <3>3, KeepBefore, Zenon
  <2> QED BY <2>4, <2>5
<1> QED BY <1>5, <1>6

\* The header has been read: the file is open, or about to be removed
\* (filesys.cc:238-240, 272-273).
LEMMA FetchHeaderKeeps ==
  ASSUME NEW t, Threads = {t}, Before, FetchHeader(t) PROVE Before'
<1>00. /\ victim = None /\ ~aborted /\ freeMap \in SUBSET Sectors /\ directory \in Dir
       /\ disk \in Disk /\ th \in [Threads -> ThreadSet]
       /\ InPhase(th[t], disk, directory, freeMap, durable)
  BY DEF Before, Types
<1>0. PICK me \in ThreadSet : me = th[t]
  BY <1>00
<1>1. PICK old, map : Phase(me, old, map, disk, directory, freeMap, durable)
  BY <1>0, <1>00 DEF InPhase
<1>2. /\ me.pc = "fetchHdr"
      /\ th' = [th EXCEPT ![t] =
                  IF me.op = "Open"
                  THEN [Idle EXCEPT !.file = [name |-> me.name, hdr |-> disk[me.sector]]]
                  ELSE [me EXCEPT !.hdr = disk[me.sector], !.pc = "fetchMap"]]
      /\ durable' = durable /\ victim' = None /\ aborted' = aborted
      /\ freeMap' = freeMap /\ directory' = directory /\ disk' = disk
  BY <1>00, <1>0 DEF FetchHeader, onDisk
<1>3. /\ directory = old /\ freeMap = map /\ old \in Dir /\ map \in SUBSET Sectors
      /\ Agree(map, old, disk) /\ OpenIsListed(me, old, disk)
      /\ me.op \in {"Open", "Remove"} /\ me.dir = old /\ Points(me, old)
      /\ me.name \in Names /\ durable = FilesOn(old, disk)
      /\ me.op = "Remove" => me.file.name # me.name
  BY <1>1, <1>2 DEF Phase, Reading, Writing
<1>4. me.sector \in Sectors /\ disk[me.sector] \in HeaderSet
  BY <1>00, <1>3, Zenon DEF Points, Dir, Entry, Used, Disk
<1>5. CASE me.op = "Open"
  <2> DEFINE f == [name |-> me.name, hdr |-> disk[me.sector]]
             mid == [me EXCEPT !.file = f]
             new == [Idle EXCEPT !.file = f]
  <2>1. mid \in ThreadSet /\ mid.file = f
    BY <1>3, <1>4 DEF ThreadSet, FileSet, NameOrNone
  <2>2. OpenIsListed(mid, old, disk)
    <3>1. \E i \in Used(old) : old[i].name = f.name /\ disk[old[i].sector] = f.hdr
      BY <1>3 DEF Points
    <3> QED BY <2>1, <3>1 DEF OpenIsListed
  <2>3. new = [Idle EXCEPT !.file = mid.file]
    BY <2>1
  <2> HIDE DEF mid
  <2>4. new \in ThreadSet /\ Phase(new, old, map, disk, old, map, durable)
    BY <1>3, <2>1, <2>2, <2>3, ReturnPhase
  <2>5. th' = [th EXCEPT ![t] = new]
    BY <1>2, <1>5
  <2> HIDE DEF new
  <2> QED BY <1>00, <1>2, <1>3, <2>4, <2>5, KeepBefore, Zenon
<1>6. CASE me.op = "Remove"
  <2> DEFINE new == [me EXCEPT !.hdr = disk[me.sector], !.pc = "fetchMap"]
  <2>1. th' = [th EXCEPT ![t] = new]
    BY <1>2, <1>6
  <2>2. /\ new \in ThreadSet /\ new.pc = "fetchMap" /\ new.op = me.op /\ new.dir = me.dir
        /\ new.name = me.name /\ new.sector = me.sector /\ new.file = me.file
        /\ new.hdr = disk[me.sector]
    BY <1>4, Zenon DEF ThreadSet
  <2> HIDE DEF new
  <2>3. Phase(new, old, map, disk, old, map, durable)
    BY <1>3, <1>6, <2>2, Zenon DEF Phase, Reading, OpenIsListed, Points
  <2> QED BY <1>00, <1>2, <1>3, <2>1, <2>2, <2>3, KeepBefore, Zenon
<1> QED BY <1>3, <1>5, <1>6

-----------------------------------------------------------------------------
(* The store of named files (module FileStore).                            *)

SizeOf(found) == IF found = {} THEN -1 ELSE Len((CHOOSE f \in found : TRUE).hdr.blocks)

SizeIn(files, n) == SizeOf({f \in files : f.name = n})

\* What is stored depends on the settled files only.
LEMMA StoredIs ==
  /\ Stored = [n \in Names |-> SizeIn(Settled, n)]
  /\ Stored' = [n \in Names |-> SizeIn(Settled', n)]
  BY DEF Stored, SizeIn, SizeOf

\* One more file of a new name is a Create of the store.
LEMMA StoreCreates ==
  ASSUME NEW n \in Names, NEW s, NEW hdr, Len(hdr.blocks) \in Sizes,
         \A f \in Settled : f.name # n,
         Settled' = Settled \cup {[name |-> n, sector |-> s, hdr |-> hdr]}
  PROVE  Store!Next
<1> DEFINE new == [name |-> n, sector |-> s, hdr |-> hdr]
<1>1. new.name = n /\ new.hdr = hdr
  OBVIOUS
<1> HIDE DEF new
<1>2. Settled' = Settled \cup {new}
  BY DEF new
<1>3. \A m \in Names : m # n => {f \in Settled' : f.name = m} = {f \in Settled : f.name = m}
  BY <1>1, <1>2
<1>4. {f \in Settled' : f.name = n} = {new}
  BY <1>1, <1>2
<1>5. \A m \in Names : m # n => SizeIn(Settled', m) = SizeIn(Settled, m)
  BY <1>3, Zenon DEF SizeIn
<1>6. SizeIn(Settled', n) = Len(hdr.blocks)
  <2>1. {new} # {} /\ (CHOOSE f \in {new} : TRUE) = new
    OBVIOUS
  <2> QED BY <1>1, <1>4, <2>1 DEF SizeIn, SizeOf
<1>7. SizeIn(Settled, n) = -1
  BY DEF SizeIn, SizeOf
<1>8. Stored[n] = -1 /\ Stored' = [Stored EXCEPT ![n] = Len(hdr.blocks)]
  BY <1>5, <1>6, <1>7, StoredIs, Zenon
<1> QED BY <1>8, Zenon DEF Store!Next, Store!Create, Store!Absent

\* One file less is a Remove of the store.
LEMMA StoreRemoves ==
  ASSUME NEW g \in Settled, g.name \in Names, Len(g.hdr.blocks) \in Nat,
         \A f \in Settled : f.name = g.name => f = g,
         Settled' = Settled \ {g}
  PROVE  Store!Next
<1>1. \A m \in Names : m # g.name => {f \in Settled' : f.name = m} = {f \in Settled : f.name = m}
  OBVIOUS
<1>2. {f \in Settled : f.name = g.name} = {g} /\ {f \in Settled' : f.name = g.name} = {}
  OBVIOUS
<1>3. \A m \in Names : m # g.name => SizeIn(Settled', m) = SizeIn(Settled, m)
  BY <1>1, Zenon DEF SizeIn
<1>4. SizeIn(Settled', g.name) = -1
  BY <1>2 DEF SizeIn, SizeOf
<1>5. SizeIn(Settled, g.name) # -1
  <2>1. {g} # {} /\ (CHOOSE f \in {g} : TRUE) = g
    OBVIOUS
  <2> QED BY <1>2, <2>1 DEF SizeIn, SizeOf
<1>6. Stored[g.name] # -1 /\ Stored' = [Stored EXCEPT ![g.name] = -1]
  BY <1>3, <1>4, <1>5, StoredIs, Zenon
<1> QED BY <1>6, Zenon DEF Store!Next, Store!Remove, Store!Absent

\* A step that leaves the settled files alone is a stutter of the store.
LEMMA StoreStutters == ASSUME Settled' = Settled PROVE UNCHANGED Stored
  BY StoredIs

\* The settled files of the only caller.
LEMMA SettledIs ==
  ASSUME NEW t, Threads = {t}
  PROVE  /\ th[t].pc = "writeDir2" => Settled = durable
         /\ th[t].pc # "writeDir2" => Settled = Files(directory)
         /\ th'[t].pc = "writeDir2" => Settled' = durable'
         /\ th'[t].pc # "writeDir2" => Settled' = Files(directory)'
  BY DEF Settled

\* Nothing but the header and the directory writes reaches the store.
LEMMA QuietStore ==
  ASSUME NEW t, Threads = {t}, Before, directory' = directory, disk' = disk,
         th[t].pc # "writeDir2", th'[t].pc # "writeDir2"
  PROVE  Settled' = Settled
<1>1. Files(directory)' = Files(directory)
  BY DEF Files, File
<1> QED BY <1>1, SettledIs

\* Where directory and disk agree, the files are the entries in use.
LEMMA FilesNow ==
  ASSUME NEW map, NEW dir \in Dir, Agree(map, dir, disk) PROVE Files(dir) = FilesOn(dir, disk)
<1>1. /\ \A i \in Used(dir) : dir[i].name \in Names
      /\ \A i, j \in Used(dir) : i # j => dir[i].name # dir[j].name
  BY DEF Agree
<1> QED BY <1>1, FilesAreEntries DEF Files, File

\* The same, in the next state.
LEMMA FilesNext ==
  ASSUME NEW map, directory' \in Dir, Agree(map, directory', disk')
  PROVE  Files(directory)' = FilesOn(directory', disk')
<1>1. PICK dir \in Dir : dir = directory'
  OBVIOUS
<1>2. PICK dsk : dsk = disk'
  OBVIOUS
<1>3. /\ \A i \in Used(dir) : dir[i].name \in Names
      /\ \A i, j \in Used(dir) : i # j => dir[i].name # dir[j].name
  BY <1>1, <1>2 DEF Agree
<1>4. {[name |-> n, sector |-> Sector(dir, n), hdr |-> dsk[Sector(dir, n)]] : n \in Listed(dir)}
        = FilesOn(dir, dsk)
  BY <1>3, FilesAreEntries
<1> QED BY <1>1, <1>2, <1>4 DEF Files, File
=============================================================================
