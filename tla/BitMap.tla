------------------------------- MODULE BitMap -------------------------------
(***************************************************************************)
(* userprog/bitmap.cc, with the bits packed into words.  The words come    *)
(* from new unsigned int[] and the constructor clears numBits bits, so the *)
(* last word keeps undefined bits above them, which FetchFrom and          *)
(* WriteBack carry to a file and back.  The bit map is used for disk       *)
(* sectors, page frames, semaphore ids and file ids.                       *)
(***************************************************************************)
EXTENDS Integers, FiniteSets, FiniteSetsExt

CONSTANTS numBits, BitsInWord

BitMapAssumption == numBits \in Nat \ {0} /\ BitsInWord \in Nat \ {0}

VARIABLES map,      \* word number |-> unsigned int
          file,     \* the words in the file
          saved,    \* ghost: the marked bits when the file was written
          result    \* what the last Find or NumClear returned

vars == <<map, file, saved, result>>

numWords == (numBits + BitsInWord - 1) \div BitsInWord
Word == 0 .. 2 ^ BitsInWord - 1
Bits == 0 .. numBits - 1

\* 1 << (which % BitsInWord), and whether that bit of a word is set
Mask(which) == 2 ^ (which % BitsInWord)
IsSet(word, which) == (word \div Mask(which)) % 2 = 1

\* |= and &= ~ with the mask.
SetBit(m, which) ==
    LET w == which \div BitsInWord IN
    IF IsSet(m[w], which) THEN m ELSE [m EXCEPT ![w] = @ + Mask(which)]

ClearBit(m, which) ==
    LET w == which \div BitsInWord IN
    IF IsSet(m[w], which) THEN [m EXCEPT ![w] = @ - Mask(which)] ELSE m

Test(which) == IsSet(map[which \div BitsInWord], which)

Init ==
    \E garbage \in [0 .. numWords - 1 -> Word] :
        /\ map = FoldSet(LAMBDA b, m : ClearBit(m, b), garbage, Bits)
        /\ file = garbage /\ saved = {b \in Bits : IsSet(garbage[b \div BitsInWord], b)}
        /\ result = 0

Mark(which) == map' = SetBit(map, which) /\ UNCHANGED <<file, saved, result>>
Clear(which) == map' = ClearBit(map, which) /\ UNCHANGED <<file, saved, result>>

Find ==
    /\ LET clear == {b \in Bits : ~Test(b)} IN
       IF clear = {} THEN result' = -1 /\ UNCHANGED map
       ELSE result' = Min(clear) /\ map' = SetBit(map, Min(clear))
    /\ UNCHANGED <<file, saved>>

NumClear ==
    /\ result' = Cardinality({b \in Bits : ~Test(b)})
    /\ UNCHANGED <<map, file, saved>>

WriteBack ==
    /\ file' = map
    /\ saved' = {b \in Bits : Test(b)}
    /\ UNCHANGED <<map, result>>

FetchFrom == map' = file /\ UNCHANGED <<file, saved, result>>

Next == (\E b \in Bits : Mark(b) \/ Clear(b)) \/ Find \/ NumClear \/ WriteBack \/ FetchFrom

Spec == Init /\ [][Next]_vars

-----------------------------------------------------------------------------
\* What a user of the class may assume: a set of allocated numbers, changed by
\* one number at a time or read back as saved.  Find returns a number that was
\* not allocated and allocates exactly it, or -1 when all are allocated; the
\* undefined bits of the last word never show.
Marked == {b \in Bits : Test(b)}

AllocatesOneStep ==
    Find => \/ result' \in Bits \ Marked /\ Marked' = Marked \cup {result'}
            \/ result' = -1 /\ Marked = Bits /\ Marked' = Bits

OneBitAtATimeStep ==
    \A b \in Bits : /\ Mark(b) => Marked' = Marked \cup {b}
                    /\ Clear(b) => Marked' = Marked \ {b}

\* A bit map fetched from the file is the one that was written back.
FetchRestoresStep == FetchFrom => Marked' = saved
=============================================================================
