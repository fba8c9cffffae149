--------------------------- MODULE MmuWordsProofs ----------------------------
(***************************************************************************)
(* Theorems about MmuWords, for words, fields, bitmaps, a TLB and a page   *)
(* table of every width and size: every step is a step of Mmu on the       *)
(* records the words stand for, whatever malloc returned, if no frame      *)
(* number in it is used out of range; and if new second-level tables have  *)
(* no present bits, TLB and page table agree and no two addresses are      *)
(* translated to one.                                                      *)
(***************************************************************************)
EXTENDS MmuWords, Arithmetic


-----------------------------------------------------------------------------
(* Numbers and words.                                                      *)

\* The widths as numbers.
LEMMA Widths ==
  /\ ENTRY_BITS \in Nat \ {0} /\ INDEX_1_BITS \in Nat \ {0} /\ INDEX_2_BITS \in Nat \ {0}
  /\ OFFSET_BITS \in Nat \ {0} /\ FRAME_BITS \in Nat \ {0} /\ WORD_BITS \in Nat \ {0}
  /\ VPAGE_BITS = INDEX_1_BITS + INDEX_2_BITS /\ VPAGE_BITS < ENTRY_BITS
  /\ FRAME_BITS + 1 < ENTRY_BITS
  /\ num_tlb_entries \in Nat \ {0} /\ num_page_frames \in Nat \ {0}
  BY WidthAssumption, SizeAssumption DEF VPAGE_BITS

\* A page frame number is found again in its bits.
LEMMA NumberOfBits ==
  ASSUME NEW f \in Frames
  PROVE  /\ Number(Bits(f)) = f
         /\ Bits(f) \in Word(FRAME_BITS)
<1>1. Power(FRAME_BITS) \in Nat /\ Power(FRAME_BITS) = 2 ^ FRAME_BITS
  BY Widths, PowerOfTwo DEF Power
<1>2. f \in 0 .. Power(FRAME_BITS) - 1
  BY <1>1, Widths, SizeAssumption DEF Frames
<1>3. ASSUME NEW g \in 0 .. Power(FRAME_BITS) - 1, Bits(g) = Bits(f)
      PROVE  g = f
  <2>1. g \in Nat /\ f \in Nat
    BY <1>1, <1>2
  <2>2. AgreeingBits(g, f, FRAME_BITS)
    <3> SUFFICES ASSUME NEW b \in 0 .. FRAME_BITS - 1
                 PROVE  (g \div Power(b)) % 2 = (f \div Power(b)) % 2
      BY DEF AgreeingBits
    <3>1. PICK p \in Nat \ {0} : p = Power(b)
      BY Widths, PowerOfTwo
    <3>2. b \in Bits(g) <=> b \in Bits(f)
      BY <1>3
    <3>3. (g \div p) % 2 = 1 <=> (f \div p) % 2 = 1
      BY <3>1, <3>2 DEF Bits, AllOnes, Power
    <3>4. PICK u \in Nat, v \in Nat : u = g \div p /\ v = f \div p
      BY <2>1, Quotient
    <3>5. u % 2 \in 0 .. 1 /\ v % 2 \in 0 .. 1
      OBVIOUS
    <3>6. (g \div p) % 2 = (f \div p) % 2
      BY <3>3, <3>4, <3>5
    <3> QED
      BY <3>1, <3>6
  <2> QED
    BY <1>2, <2>2, Widths, BitsDetermine
<1>4. Number(Bits(f)) = f
  BY <1>1, <1>2, <1>3 DEF Number
<1>5. Bits(f) \in Word(FRAME_BITS)
  BY DEF Bits, Word
<1> QED
  BY <1>4, <1>5

\* The word of a bitmap that holds a frame's bit, and the bit.
LEMMA FramePlace ==
  ASSUME NEW f \in Frames
  PROVE  /\ f \div WORD_BITS \in Words
         /\ f % WORD_BITS \in AllOnes(WORD_BITS)
         /\ f = WORD_BITS * (f \div WORD_BITS) + (f % WORD_BITS)
<1>1. f \in Nat /\ f < num_page_frames
  BY Widths DEF Frames
<1>2. PICK q \in Nat, r \in 0 .. WORD_BITS - 1 :
        q = f \div WORD_BITS /\ r = f % WORD_BITS /\ f = WORD_BITS * q + r
  <2>1. PICK w \in Nat \ {0} : w = WORD_BITS
    BY Widths
  <2>2. f \div w \in Nat /\ f % w \in 0 .. w - 1 /\ f = w * (f \div w) + (f % w)
    BY <1>1, Quotient
  <2> QED
    BY <2>1, <2>2
<1>3. PICK k \in Nat : k = num_page_frames \div WORD_BITS /\ num_page_frames = WORD_BITS * k
  <2>1. num_page_frames = WORD_BITS * (num_page_frames \div WORD_BITS) + 0 /\ num_page_frames \div WORD_BITS \in Nat
    BY Widths, SizeAssumption, Quotient
  <2> QED
    BY <2>1, Widths
<1>4. q < k
  <2>1. WORD_BITS * q + r <= WORD_BITS * k + 0 /\ 0 \in 0 .. WORD_BITS - 1
    BY <1>1, <1>2, <1>3, Widths
  <2>2. q < k \/ (q = k /\ r <= 0)
    BY <2>1, Widths, TwoDigits
  <2> QED
    BY <1>1, <1>2, <1>3, <2>2, Widths
<1> QED
  BY <1>2, <1>3, <1>4 DEF Words, AllOnes

\* The frame that has a bit of a word.
LEMMA PlacedFrame ==
  ASSUME NEW i \in Words, NEW b \in AllOnes(WORD_BITS)
  PROVE  /\ i * WORD_BITS + b \in Frames
         /\ (i * WORD_BITS + b) \div WORD_BITS = i
         /\ (i * WORD_BITS + b) % WORD_BITS = b
<1>1. PICK k \in Nat : k = num_page_frames \div WORD_BITS /\ num_page_frames = WORD_BITS * k
  <2>1. num_page_frames = WORD_BITS * (num_page_frames \div WORD_BITS) + 0 /\ num_page_frames \div WORD_BITS \in Nat
    BY Widths, SizeAssumption, Quotient
  <2> QED
    BY <2>1, Widths
<1>2. i \in Nat /\ i < k /\ b \in 0 .. WORD_BITS - 1
  BY <1>1 DEF Words, AllOnes
<1>3. PICK f \in Nat : f = i * WORD_BITS + b /\ f = WORD_BITS * i + b
  BY <1>2, Widths
<1>4. f \div WORD_BITS = i /\ f % WORD_BITS = b
  BY <1>2, <1>3, Widths, Digits
<1>5. f < num_page_frames
  <2>1. WORD_BITS * (k - i) = WORD_BITS * k - WORD_BITS * i /\ k - i >= 1
    BY <1>1, <1>2, Widths
  <2>2. WORD_BITS * (k - i) >= WORD_BITS
    BY <1>2, <2>1, Widths
  <2> QED
    BY <1>1, <1>2, <1>3, <2>1, <2>2, Widths
<1> QED
  BY <1>3, <1>4, <1>5, Widths DEF Frames

-----------------------------------------------------------------------------
(* Fields of words and of the records they stand for.                      *)

\* The two indices of a page number are those of its pair.
LEMMA IndicesOfPage ==
  ASSUME NEW v \in Word(VPAGE_BITS)
  PROVE  /\ Pair(v) = <<Index1(v), Index2(v)>>
         /\ Index1(v) \in Word(INDEX_1_BITS)
         /\ Index2(v) \in Word(INDEX_2_BITS)
<1>1. {b \in AllOnes(INDEX_2_BITS) : b \in v} = Index2(v)
  BY DEF Index2, PT_2
<1>2. {b \in AllOnes(INDEX_1_BITS) : b + INDEX_2_BITS \in v} = Index1(v)
  <2>1. ASSUME NEW b \in AllOnes(INDEX_1_BITS), b + INDEX_2_BITS \in v
        PROVE  b \in Index1(v)
    <3>1. PICK c \in v : c = b + INDEX_2_BITS
      BY <2>1
    <3>2. c \in PT_1 /\ c >= INDEX_2_BITS /\ b = c - INDEX_2_BITS
      BY <3>1, Widths DEF AllOnes, PT_1
    <3> QED
      BY <3>2 DEF Index1, ShiftedRight
  <2>2. ASSUME NEW b \in Index1(v)
        PROVE  b \in AllOnes(INDEX_1_BITS) /\ b + INDEX_2_BITS \in v
    <3>1. PICK c \in v \cap PT_1 : b = c - INDEX_2_BITS
      BY DEF Index1, ShiftedRight
    <3> QED
      BY <3>1, Widths DEF AllOnes, PT_1
  <2> QED
    BY <2>1, <2>2
<1> QED
  BY <1>1, <1>2 DEF Pair, Word

\* A page number is known by its pair.
LEMMA PairDetermines ==
  ASSUME NEW v \in Word(VPAGE_BITS), NEW w \in Word(VPAGE_BITS), Pair(v) = Pair(w)
  PROVE  v = w
<1> SUFFICES ASSUME NEW b \in AllOnes(VPAGE_BITS)
             PROVE  b \in v <=> b \in w
  BY DEF Word
<1>1. CASE b < INDEX_2_BITS
  <2>1. b \in AllOnes(INDEX_2_BITS)
    BY <1>1, Widths DEF AllOnes
  <2>2. {c \in AllOnes(INDEX_2_BITS) : c \in v} = {c \in AllOnes(INDEX_2_BITS) : c \in w}
    BY DEF Pair
  <2> QED
    BY <2>1, <2>2
<1>2. CASE b >= INDEX_2_BITS
  <2>1. PICK c \in AllOnes(INDEX_1_BITS) : c + INDEX_2_BITS = b
    <3>1. b - INDEX_2_BITS \in AllOnes(INDEX_1_BITS) /\ (b - INDEX_2_BITS) + INDEX_2_BITS = b
      BY <1>2, Widths DEF AllOnes
    <3> QED
      BY <3>1
  <2>2. {d \in AllOnes(INDEX_1_BITS) : d + INDEX_2_BITS \in v} = {d \in AllOnes(INDEX_1_BITS) : d + INDEX_2_BITS \in w}
    BY DEF Pair
  <2> QED
    BY <2>1, <2>2
<1> QED
  BY <1>1, <1>2, Widths DEF AllOnes

\* The pair of a word of a TLB entry is that of the page number in it.
LEMMA PairOfEntry ==
  ASSUME NEW e \in Word(ENTRY_BITS)
  PROVE  /\ e \cap VPAGE_MASK \in Word(VPAGE_BITS)
         /\ Pair(e) = Pair(e \cap VPAGE_MASK)
<1>1. \A b \in AllOnes(INDEX_2_BITS) : b \in VPAGE_MASK
  BY Widths DEF AllOnes, VPAGE_MASK
<1>2. \A b \in AllOnes(INDEX_1_BITS) : b + INDEX_2_BITS \in VPAGE_MASK
  BY Widths DEF AllOnes, VPAGE_MASK
<1>3. e \cap VPAGE_MASK \in Word(VPAGE_BITS)
  BY DEF Word, VPAGE_MASK
<1> QED
  BY <1>1, <1>2, <1>3 DEF Pair

\* So the TLB compares page numbers as Mmu does.
LEMMA HoldsPair ==
  ASSUME NEW entry \in Entry, NEW v \in Word(VPAGE_BITS)
  PROVE  Holds(entry, v) <=> EntryRecord(entry).vpage = Pair(v)
<1>1. entry.vbit_and_vpage \in Word(ENTRY_BITS)
  BY DEF Entry
<1> QED
  BY <1>1, PairOfEntry, PairDetermines DEF Holds, EntryRecord

\* The valid, R and M bits and the frame of an entry and of its record.
LEMMA BitsOfEntry ==
  ASSUME NEW entry \in Entry
  PROVE  /\ Valid(entry) <=> EntryRecord(entry).valid = 1
         /\ ~ Valid(entry) <=> EntryRecord(entry).valid = 0
         /\ EntryRecord(entry).r = BitOf(entry, RBIT_MASK)
         /\ EntryRecord(entry).m = BitOf(entry, MBIT_MASK)
         /\ ~ Has(entry.mr_pframe, RBIT_MASK) <=> EntryRecord(entry).r = 0
         /\ PFrameOf(entry) \in Frames => EntryRecord(entry).pframe = PFrameOf(entry)
<1>1. {b \in AllOnes(FRAME_BITS) : b \in entry.mr_pframe} = entry.mr_pframe \cap PFRAME_MASK
  BY DEF PFRAME_MASK
<1>2. PFrameOf(entry) \in Frames => EntryRecord(entry).pframe = PFrameOf(entry)
  BY <1>1 DEF EntryRecord, FrameRecord, PFrameOf
<1>3. \A word, b : Has(word, {b}) <=> b \in word
  BY DEF Has
<1> QED
  BY <1>2, <1>3 DEF Valid, EntryRecord, Bit, BitOf, VBIT_MASK, RBIT_MASK, MBIT_MASK

\* An insertion changes every field to the one that is inserted.
LEMMA InsertedFields ==
  ASSUME NEW entry \in Entry, NEW v \in Word(VPAGE_BITS), NEW f \in Frames, NEW r \in {0, 1}, NEW m \in {0, 1}
  PROVE  LET new == Inserted(entry, v, f, r, m) IN
         /\ new \in Entry
         /\ Valid(new) /\ Holds(new, v) /\ PFrameOf(new) = f
         /\ EntryRecord(new) = [valid |-> 1, vpage |-> Pair(v), r |-> r, m |-> m, pframe |-> f]
<1> DEFINE new == Inserted(entry, v, f, r, m)
<1>1. entry.vbit_and_vpage \in Word(ENTRY_BITS) /\ entry.mr_pframe \in Word(ENTRY_BITS)
  BY DEF Entry
<1>2. /\ new.vbit_and_vpage = ((entry.vbit_and_vpage \cup VBIT_MASK) \ VPAGE_MASK) \cup v
      /\ new.mr_pframe = WithMrBit(WithMrBit((entry.mr_pframe \ PFRAME_MASK) \cup Bits(f), RBIT_MASK, r), MBIT_MASK, m)
      /\ new = [vbit_and_vpage |-> new.vbit_and_vpage, mr_pframe |-> new.mr_pframe]
  BY DEF Inserted
<1> HIDE DEF new
<1>3. Bits(f) \in Word(FRAME_BITS) /\ Number(Bits(f)) = f
  BY NumberOfBits
<1>4. /\ ENTRY_BITS - 1 \in AllOnes(ENTRY_BITS) /\ ENTRY_BITS - 2 \in AllOnes(ENTRY_BITS)
      /\ ENTRY_BITS - 1 # ENTRY_BITS - 2
      /\ ENTRY_BITS - 1 \notin AllOnes(VPAGE_BITS) /\ ENTRY_BITS - 1 \notin AllOnes(FRAME_BITS)
      /\ ENTRY_BITS - 2 \notin AllOnes(FRAME_BITS)
      /\ AllOnes(VPAGE_BITS) \subseteq AllOnes(ENTRY_BITS) /\ AllOnes(FRAME_BITS) \subseteq AllOnes(ENTRY_BITS)
  BY Widths DEF AllOnes
<1>5. /\ new.vbit_and_vpage \in Word(ENTRY_BITS)
      /\ ENTRY_BITS - 1 \in new.vbit_and_vpage
      /\ new.vbit_and_vpage \cap VPAGE_MASK = v
  BY <1>1, <1>2, <1>4 DEF Word, VBIT_MASK, VPAGE_MASK
<1>6. /\ new.mr_pframe \in Word(ENTRY_BITS)
      /\ new.mr_pframe \cap PFRAME_MASK = Bits(f)
      /\ ENTRY_BITS - 2 \in new.mr_pframe <=> r = 1
      /\ ENTRY_BITS - 1 \in new.mr_pframe <=> m = 1
  BY <1>1, <1>2, <1>3, <1>4 DEF Word, WithMrBit, PFRAME_MASK, RBIT_MASK, MBIT_MASK
<1>7. new \in Entry
  BY <1>2, <1>5, <1>6 DEF Entry
<1>8. Valid(new) /\ Holds(new, v) /\ PFrameOf(new) = f
  BY <1>3, <1>5, <1>6 DEF Valid, Has, VBIT_MASK, Holds, PFrameOf
<1>9. /\ EntryRecord(new).vpage = Pair(v) /\ EntryRecord(new).valid = 1 /\ EntryRecord(new).pframe = f
  BY <1>7, <1>8, HoldsPair, BitsOfEntry
<1>10. EntryRecord(new).r = r /\ EntryRecord(new).m = m
  BY <1>6 DEF EntryRecord, Bit
<1>11. EntryRecord(new) = [valid |-> 1, vpage |-> Pair(v), r |-> r, m |-> m, pframe |-> f]
  BY <1>9, <1>10 DEF EntryRecord
<1> QED
  BY <1>7, <1>8, <1>11 DEF new

\* A bitmap's bits are those of its record.
LEMMA BitmapBits ==
  ASSUME NEW bitmap \in Bitmap
  PROVE  /\ BitmapRecord(bitmap) \in [Frames -> {0, 1}]
         /\ \A f \in Frames : BitValue(bitmap, f) = BitmapRecord(bitmap)[f]
  BY DEF BitmapRecord, Bit, BitValue, Has, BitMask

\* Setting or clearing a bit leaves the other bits of its word alone.
LEMMA ModifiedBits ==
  ASSUME NEW bitmap \in Bitmap, NEW f \in Frames, NEW val \in {0, 1}
  PROVE  /\ Modified(bitmap, f, val) \in Bitmap
         /\ BitmapRecord(Modified(bitmap, f, val)) = [BitmapRecord(bitmap) EXCEPT ![f] = val]
<1> DEFINE i == f \div WORD_BITS
           new == Modified(bitmap, f, val)
<1>1. i \in Words /\ f % WORD_BITS \in AllOnes(WORD_BITS)
  BY FramePlace
<1>2. /\ new[i] = IF val # 0 THEN bitmap[i] \cup BitMask(f) ELSE bitmap[i] \ BitMask(f)
      /\ \A j \in Words \ {i} : new[j] = bitmap[j]
      /\ bitmap[i] \in Word(WORD_BITS)
  BY <1>1 DEF Modified, Bitmap
<1>3. new \in Bitmap
  BY <1>1, <1>2 DEF Modified, Bitmap, Word, BitMask
<1>4. ASSUME NEW g \in Frames
      PROVE  BitmapRecord(new)[g] = IF g = f THEN val ELSE BitmapRecord(bitmap)[g]
  <2>1. g \div WORD_BITS \in Words
    BY FramePlace
  <2>2. g \div WORD_BITS = i /\ g % WORD_BITS = f % WORD_BITS => g = f
    BY FramePlace
  <2>3. /\ BitmapRecord(new)[g] = IF g % WORD_BITS \in new[g \div WORD_BITS] THEN 1 ELSE 0
        /\ BitmapRecord(bitmap)[g] = IF g % WORD_BITS \in bitmap[g \div WORD_BITS] THEN 1 ELSE 0
    BY DEF BitmapRecord, Bit
  <2> HIDE DEF new, i
  <2>4. CASE g = f
    BY <1>2, <2>3, <2>4 DEF i, BitMask
  <2>5. CASE g # f
    BY <1>2, <2>1, <2>2, <2>3, <2>5 DEF BitMask
  <2> QED
    BY <2>4, <2>5
<1>5. BitmapRecord(new) = [BitmapRecord(bitmap) EXCEPT ![f] = val]
  <2> HIDE DEF new
  <2>1. BitmapRecord(new) \in [Frames -> {0, 1}] /\ BitmapRecord(bitmap) \in [Frames -> {0, 1}]
    BY <1>3, BitmapBits
  <2> HIDE DEF BitmapRecord
  <2> QED
    BY <1>4, <2>1
<1> QED
  BY <1>3, <1>5

-----------------------------------------------------------------------------
(* What the loops find.                                                    *)

\* The least of some numbers, and only that one.
LEMMA MinOf ==
  ASSUME NEW S \in SUBSET Nat, S # {}
  PROVE  /\ Min(S) \in S /\ \A y \in S : Min(S) <= y
         /\ \A x \in S : (\A y \in S : x <= y) => x = Min(S)
<1>1. PICK x \in S : \A y \in S : x <= y
  BY NaturalMinimum
<1>2. Min(S) \in S /\ \A y \in S : Min(S) <= y
  BY <1>1 DEF Min
<1>3. ASSUME NEW z \in S, \A y \in S : z <= y PROVE z = Min(S)
  <2>1. z <= Min(S) /\ Min(S) <= z /\ z \in Nat /\ Min(S) \in Nat
    BY <1>2, <1>3
  <2> QED
    BY <2>1
<1> QED
  BY <1>2, <1>3

\* The greatest of some numbers below a bound, and only that one.
LEMMA MaxOf ==
  ASSUME NEW n \in Nat, NEW S \in SUBSET (0 .. n), S # {}
  PROVE  /\ Max(S) \in S /\ \A y \in S : Max(S) >= y
         /\ \A x \in S : (\A y \in S : x >= y) => x = Max(S)
<1> DEFINE T == {n - s : s \in S}
<1>1. T \in SUBSET Nat /\ T # {}
  <2>1. \A s \in S : s \in Nat /\ n - s \in Nat
    OBVIOUS
  <2>2. PICK s \in S : TRUE
    OBVIOUS
  <2>3. n - s \in T
    OBVIOUS
  <2> QED
    BY <2>1, <2>3
<1>2. PICK t \in T : \A u \in T : t <= u
  BY <1>1, NaturalMinimum
<1>3. PICK x \in S : t = n - x
  OBVIOUS
<1>4. ASSUME NEW y \in S PROVE x >= y
  <2>1. n - x <= n - y /\ x \in 0 .. n /\ y \in 0 .. n
    BY <1>2, <1>3
  <2> QED
    BY <2>1
<1>5. Max(S) \in S /\ \A y \in S : Max(S) >= y
  BY <1>4 DEF Max
<1>6. ASSUME NEW z \in S, \A y \in S : z >= y PROVE z = Max(S)
  <2>1. z >= Max(S) /\ Max(S) >= z /\ z \in 0 .. n /\ Max(S) \in 0 .. n
    BY <1>5, <1>6
  <2> QED
    BY <2>1
<1> QED
  BY <1>5, <1>6

\* Every frame has a bit: the bitmaps are not rounded.
LEMMA AllMapped == Records!MappedFrames = Frames /\ Records!Frames = Frames
<1>1. PICK k \in Nat : k = num_page_frames \div WORD_BITS /\ num_page_frames = WORD_BITS * k
  <2>1. num_page_frames \div WORD_BITS \in Nat
        /\ num_page_frames = WORD_BITS * (num_page_frames \div WORD_BITS) + (num_page_frames % WORD_BITS)
        /\ num_page_frames % WORD_BITS = 0
    BY Widths, SizeAssumption, Quotient
  <2> QED
    BY <2>1, Widths
<1>2. Records!bit_size = k
  BY <1>1 DEF Records!bit_size
<1>3. k * WORD_BITS = num_page_frames
  BY <1>1, Widths
<1>4. Records!Frames = Frames
  BY DEF Records!Frames, Frames
<1>5. \A f \in Frames : f < num_page_frames
  BY Widths DEF Frames
<1> QED
  BY <1>2, <1>3, <1>4, <1>5 DEF Records!MappedFrames

\* The frame that the masks find is the one that Mmu describes, and is free.
LEMMA FreeFrame ==
  ASSUME TypeOK
  PROVE  /\ mmu_get_free_page_frame = Records!mmu_get_free_page_frame
         /\ mmu_get_free_page_frame # NO_FREE_PAGEFRAME =>
              /\ mmu_get_free_page_frame \in Frames
              /\ mmu_get_pageframe_bitmap_value(mmu_get_free_page_frame) = 0
<1> DEFINE value(f) == mmu_get_pageframe_bitmap_value(f)
           words == {i \in Words : pageframe_bitmap[i] # AllOnes(WORD_BITS)}
           Free == Records!FreeFrames
           First(f) == f \in Free /\ \A g \in Free \ {f} : Records!TriedBefore(f, g)
<1>1. pageframe_bitmap \in Bitmap
  BY DEF TypeOK
<1>2. \A f \in Frames : value(f) = BitmapRecord(pageframe_bitmap)[f]
  BY <1>1, BitmapBits DEF mmu_get_pageframe_bitmap_value
<1>3. Free = {f \in Frames : value(f) = 0}
  BY <1>2, AllMapped DEF Records!FreeFrames
<1>4. \A f \in Frames : value(f) = 0 <=> f % WORD_BITS \notin pageframe_bitmap[f \div WORD_BITS]
  BY DEF mmu_get_pageframe_bitmap_value, BitValue, Has, BitMask
<1>5. \A f \in Free : f \div WORD_BITS \in words
  BY <1>3, <1>4, FramePlace
<1>6. ASSUME NEW i \in words
      PROVE  \E b \in AllOnes(WORD_BITS) : i * WORD_BITS + b \in Free
  <2>1. PICK b \in AllOnes(WORD_BITS) : b \notin pageframe_bitmap[i]
    BY <1>1, <1>6 DEF Bitmap, Word
  <2> QED
    BY <1>3, <1>4, <2>1, PlacedFrame
<1>7. Words \subseteq Nat
  BY DEF Words
<1>8. CASE words = {}
  <2>1. Free = {}
    BY <1>5, <1>8
  <2> QED
    BY <1>8, <2>1 DEF mmu_get_free_page_frame, Records!mmu_get_free_page_frame
<1>9. CASE words # {}
  <2> DEFINE S == {f \in {Min(words) * WORD_BITS + j : j \in 0 .. WORD_BITS - 1} : value(f) = 0}
  <2>1. Min(words) \in words /\ \A i \in words : Min(words) <= i
    BY <1>7, <1>9, MinOf
  <2>2. PICK i \in Words : i = Min(words)
    BY <2>1
  <2>3. S \subseteq Frames /\ S # {}
    <3>1. PICK b \in AllOnes(WORD_BITS) : i * WORD_BITS + b \in Free
      BY <1>6, <2>1, <2>2
    <3>2. value(i * WORD_BITS + b) = 0 /\ b \in 0 .. WORD_BITS - 1
      BY <1>3, <3>1 DEF AllOnes
    <3>3. i * WORD_BITS + b \in S
      BY <2>2, <3>2
    <3>4. \A j \in 0 .. WORD_BITS - 1 : i * WORD_BITS + j \in Frames
      BY PlacedFrame DEF AllOnes
    <3> QED
      BY <2>2, <3>3, <3>4
  <2>4. S \in SUBSET (0 .. num_page_frames)
    BY <2>3, Widths DEF Frames
  <2>5. PICK f \in S : f = Max(S) /\ \A g \in S : f >= g
    <3>1. num_page_frames \in Nat
      BY Widths
    <3> HIDE DEF S
    <3>2. Max(S) \in S /\ \A g \in S : Max(S) >= g
      BY <2>3, <2>4, <3>1, MaxOf
    <3> QED
      BY <3>2
  <2>6. f \in Free /\ f \in Frames /\ f \div WORD_BITS = i
    BY <1>3, <2>2, <2>3, <2>5, PlacedFrame DEF AllOnes
  <2>7. ASSUME NEW g \in Free \ {f}
        PROVE  Records!TriedBefore(f, g)
    <3>1. g \in Frames /\ g \in Nat /\ f \in Nat /\ g # f
      BY <1>3, <2>6 DEF Frames
    <3>2. PICK k \in Words : k = g \div WORD_BITS /\ k \in words /\ i <= k
      BY <1>5, <2>1, <2>2
    <3>3. CASE i = k
      <4>1. PICK b \in AllOnes(WORD_BITS) : b = g % WORD_BITS /\ g = WORD_BITS * i + b
        BY <3>1, <3>2, <3>3, FramePlace
      <4>2. WORD_BITS * i = i * WORD_BITS
        BY <1>7, Widths
      <4>3. g \in S
        BY <1>3, <2>2, <4>1, <4>2 DEF AllOnes
      <4>4. f >= g
        <5> HIDE DEF S
        <5> QED
          BY <2>5, <4>3
      <4>5. f > g
        BY <3>1, <4>4
      <4> QED
        BY <2>6, <3>2, <3>3, <4>5 DEF Records!TriedBefore
    <3>4. CASE i # k
      <4>1. i < k
        BY <1>7, <3>2, <3>4
      <4> QED
        BY <2>6, <3>2, <4>1 DEF Records!TriedBefore
    <3> QED
      BY <3>3, <3>4
  <2>8. First(f)
    BY <2>6, <2>7
  <2>9. ASSUME NEW h, First(h) PROVE h = f
    <3>1. SUFFICES ASSUME h # f PROVE FALSE
      OBVIOUS
    <3>2. h \in Nat /\ f \in Nat /\ h \in Frames
      BY <1>3, <2>6, <2>9 DEF Frames
    <3>3. h \div WORD_BITS \in Nat /\ f \div WORD_BITS \in Nat
      BY <1>7, <2>6, <3>2, FramePlace
    <3>4. Records!TriedBefore(h, f) /\ Records!TriedBefore(f, h)
      BY <2>6, <2>8, <2>9, <3>1
    <3> QED
      BY <3>2, <3>3, <3>4 DEF Records!TriedBefore
  <2>10. Records!mmu_get_free_page_frame = CHOOSE g \in Free : \A k \in Free \ {g} : Records!TriedBefore(g, k)
    BY <2>6 DEF Records!mmu_get_free_page_frame
  <2>11. Records!mmu_get_free_page_frame = f
    <3> HIDE DEF Free
    <3> QED
      BY <2>8, <2>9, <2>10
  <2>12. mmu_get_free_page_frame = Max(S)
    BY <1>9 DEF mmu_get_free_page_frame
  <2> QED
    BY <1>3, <2>5, <2>6, <2>11, <2>12
<1> QED
  BY <1>8, <1>9

\* The slots with a page, and the first of them.
LEMMA HitSlotsAgree ==
  ASSUME TypeOK, NEW v \in Word(VPAGE_BITS)
  PROVE  /\ Records!HitSlots(Pair(v)) = HitSlots(v)
         /\ Records!tlb_miss(Pair(v)) <=> tlb_miss(v)
         /\ ~ tlb_miss(v) =>
              /\ Min(HitSlots(v)) \in Slots /\ Min(HitSlots(v)) \in HitSlots(v)
              /\ Records!HitSlot(Pair(v)) = Min(HitSlots(v))
<1>1. tlb \in [Slots -> Entry] /\ Records!Slots = Slots
  BY DEF TypeOK, Records!Slots, Slots
<1>2. \A i \in Slots : /\ Holds(tlb[i], v) <=> TlbRecord(tlb)[i].vpage = Pair(v)
                       /\ Valid(tlb[i]) <=> TlbRecord(tlb)[i].valid = 1
  BY <1>1, HoldsPair, BitsOfEntry DEF TlbRecord
<1>3. Records!HitSlots(Pair(v)) = HitSlots(v)
  BY <1>1, <1>2 DEF Records!HitSlots, HitSlots
<1>4. Records!tlb_miss(Pair(v)) <=> tlb_miss(v)
  BY <1>3 DEF Records!tlb_miss, tlb_miss
<1>5. ASSUME ~ tlb_miss(v)
      PROVE  /\ Min(HitSlots(v)) \in Slots /\ Min(HitSlots(v)) \in HitSlots(v)
             /\ Records!HitSlot(Pair(v)) = Min(HitSlots(v))
  <2> DEFINE S == HitSlots(v)
  <2>1. S \in SUBSET Nat /\ S # {} /\ S \subseteq Slots
    BY <1>5 DEF HitSlots, Slots, tlb_miss
  <2>2. /\ Min(S) \in S /\ \A y \in S : Min(S) <= y
        /\ \A x \in S : (\A y \in S : x <= y) => x = Min(S)
    BY <2>1, MinOf
  <2>3. Records!HitSlot(Pair(v)) = CHOOSE i \in S : \A j \in S : i <= j
    BY <1>3 DEF Records!HitSlot
  <2> HIDE DEF S
  <2>4. Records!HitSlot(Pair(v)) = Min(S)
    BY <2>2, <2>3
  <2> QED
    BY <2>1, <2>2, <2>4 DEF S
<1> QED
  BY <1>3, <1>4, <1>5

\* The search looks at the slots in the order of their distance from the
\* pointer, in one loop up to the end and one from the start.
LEMMA FoundAgrees ==
  ASSUME TypeOK
  PROVE  found \in Slots /\ Records!found = found
<1> DEFINE n == num_tlb_entries
           p == next_vpage_to_check
           first == {i \in p .. n - 1 : Replaceable(i)}
           second == {i \in 0 .. p - 1 : Replaceable(i)}
           slots == {i \in Slots : Records!Replaceable(i)}
           D(i) == Records!Distance(i)
<1>1. tlb \in [Slots -> Entry] /\ Records!Slots = Slots
  BY DEF TypeOK, Records!Slots, Slots
<1>2. p \in Slots /\ p \in Nat /\ p < n /\ n \in Nat \ {0}
  BY Widths DEF TypeOK, Slots
<1>3. \A i \in Slots : Replaceable(i) <=> Records!Replaceable(i)
  BY <1>1, BitsOfEntry DEF Replaceable, Records!Replaceable, TlbRecord
<1>4. slots = first \cup second /\ first \subseteq p .. n - 1 /\ second \subseteq 0 .. p - 1
  <2>1. \A i : i \in Slots <=> i \in p .. n - 1 \/ i \in 0 .. p - 1
    BY <1>2 DEF Slots
  <2> QED
    BY <1>3, <2>1
<1>5. \A i \in p .. n - 1 : D(i) = i - p
  <2>1. \A i \in p .. n - 1 : i - p \in 0 .. n - 1
    BY <1>2
  <2> QED
    BY <1>2, <2>1, ModSmall DEF Records!Distance
<1>6. \A i \in 0 .. p - 1 : D(i) = (i - p) + n
  <2> TAKE i \in 0 .. p - 1
  <2>1. (i - p) + n \in 0 .. n - 1 /\ n * (-1) + ((i - p) + n) = i - p /\ -1 \in Int
    BY <1>2
  <2>2. (n * (-1) + ((i - p) + n)) % n = (i - p) + n
    BY <1>2, <2>1, ModUnique
  <2> QED
    BY <2>1, <2>2 DEF Records!Distance
<1>7. Records!found = IF slots = {} THEN p ELSE CHOOSE i \in slots : \A j \in slots : D(i) <= D(j)
  BY <1>1 DEF Records!found
<1>8. found = IF first # {} THEN Min(first) ELSE IF second # {} THEN Min(second) ELSE p
  BY DEF found
<1>9. \A i \in Slots : i \in Nat /\ D(i) \in Nat
  <2>1. \A i \in Slots : i \in p .. n - 1 \/ i \in 0 .. p - 1
    BY <1>2 DEF Slots
  <2>2. \A i \in p .. n - 1 : i - p \in Nat /\ i \in Nat
    BY <1>2
  <2>3. \A i \in 0 .. p - 1 : (i - p) + n \in Nat /\ i \in Nat
    BY <1>2
  <2> QED
    BY <1>5, <1>6, <2>1, <2>2, <2>3
<1>10. \A i, j \in Slots : D(i) = D(j) => i = j
  <2>1. \A i \in Slots : i \in p .. n - 1 \/ i \in 0 .. p - 1
    BY <1>2 DEF Slots
  <2> TAKE i, j \in Slots
  <2> HAVE D(i) = D(j)
  <2>2. CASE i \in p .. n - 1 /\ j \in p .. n - 1
    <3>1. i - p = j - p
      BY <1>5, <2>2
    <3> QED
      BY <1>2, <2>2, <3>1
  <2>3. CASE i \in p .. n - 1 /\ j \in 0 .. p - 1
    <3>1. i - p = (j - p) + n
      BY <1>5, <1>6, <2>3
    <3> QED
      BY <1>2, <2>3, <3>1
  <2>4. CASE i \in 0 .. p - 1 /\ j \in p .. n - 1
    <3>1. (i - p) + n = j - p
      BY <1>5, <1>6, <2>4
    <3> QED
      BY <1>2, <2>4, <3>1
  <2>5. CASE i \in 0 .. p - 1 /\ j \in 0 .. p - 1
    <3>1. (i - p) + n = (j - p) + n
      BY <1>6, <2>5
    <3> QED
      BY <1>2, <2>5, <3>1
  <2> QED
    BY <2>1, <2>2, <2>3, <2>4, <2>5
<1>11. ASSUME NEW i \in slots, \A j \in slots : D(i) <= D(j)
       PROVE  Records!found = i
  <2>1. \A k \in slots : (\A j \in slots : D(k) <= D(j)) => k = i
    <3> SUFFICES ASSUME NEW k \in slots, \A j \in slots : D(k) <= D(j)
                 PROVE  k = i
      OBVIOUS
    <3>1. D(k) <= D(i) /\ D(i) <= D(k) /\ D(i) \in Nat /\ D(k) \in Nat
      BY <1>9, <1>11
    <3>2. D(k) = D(i)
      BY <3>1
    <3> QED
      BY <1>10, <3>2
  <2> HIDE DEF slots, D
  <2> QED
    BY <1>7, <1>11, <2>1
<1>12. CASE first # {}
  <2>1. first \in SUBSET Nat
    BY <1>2
  <2>2. PICK i \in first : i = Min(first) /\ \A j \in first : i <= j
    <3> HIDE DEF first
    <3>1. Min(first) \in first /\ \A j \in first : Min(first) <= j
      BY <1>12, <2>1, MinOf
    <3> QED
      BY <3>1
  <2>3. i \in slots /\ i \in Slots /\ i \in p .. n - 1
    BY <1>4, <2>2
  <2>4. \A j \in slots : D(i) <= D(j)
    <3> TAKE j \in slots
    <3>1. CASE j \in first
      <4>1. D(i) = i - p /\ D(j) = j - p /\ i <= j
        BY <1>4, <1>5, <2>2, <2>3, <3>1
      <4> QED
        BY <1>2, <2>3, <3>1, <4>1
    <3>2. CASE j \in second
      <4>1. D(i) = i - p /\ D(j) = (j - p) + n /\ j \in 0 .. p - 1
        BY <1>4, <1>5, <1>6, <2>3, <3>2
      <4> QED
        BY <1>2, <2>3, <4>1
    <3> QED
      BY <1>4, <3>1, <3>2
  <2> QED
    BY <1>8, <1>11, <1>12, <2>2, <2>3, <2>4
<1>13. CASE first = {} /\ second # {}
  <2>1. second \in SUBSET Nat
    OBVIOUS
  <2>2. PICK i \in second : i = Min(second) /\ \A j \in second : i <= j
    <3> HIDE DEF second
    <3>1. Min(second) \in second /\ \A j \in second : Min(second) <= j
      BY <1>13, <2>1, MinOf
    <3> QED
      BY <3>1
  <2>3. i \in slots /\ i \in Slots /\ i \in 0 .. p - 1
    BY <1>4, <2>2
  <2>4. \A j \in slots : D(i) <= D(j)
    <3> TAKE j \in slots
    <3>1. j \in second /\ j \in 0 .. p - 1 /\ i <= j
      BY <1>4, <1>13, <2>2
    <3>2. D(i) = (i - p) + n /\ D(j) = (j - p) + n
      BY <1>6, <2>3, <3>1
    <3> QED
      BY <1>2, <2>3, <3>1, <3>2
  <2> QED
    BY <1>8, <1>11, <1>13, <2>2, <2>3, <2>4
<1>14. CASE first = {} /\ second = {}
  BY <1>2, <1>4, <1>7, <1>8, <1>14
<1> QED
  BY <1>12, <1>13, <1>14

-----------------------------------------------------------------------------
(* The page table.                                                         *)

\* The frame a word of an entry is the record of is a frame.
LEMMA FrameRecordType ==
  \A word : FrameRecord(word) \in Frames /\ 0 \in Frames
<1>1. 0 \in Frames
  BY Widths DEF Frames
<1> QED
  BY <1>1 DEF FrameRecord

\* A table is the record of a table, and not NULL.
LEMMA TableRecordType ==
  ASSUME NEW table \in SecondLevelTable
  PROVE  /\ TableRecord(table) \in [Word(INDEX_2_BITS) -> Records!PT_ENTRY]
         /\ table # NULL /\ TableRecord(table) # NULL
         /\ TableRecord(table) =
              [i2 \in Word(INDEX_2_BITS) |->
                 [present |-> Bit(table[i2], ENTRY_BITS - 1), pframe |-> FrameRecord(table[i2])]]
<1>1. table # NULL
  BY ValueAssumption
<1>2. TableRecord(table) =
        [i2 \in Word(INDEX_2_BITS) |->
           [present |-> Bit(table[i2], ENTRY_BITS - 1), pframe |-> FrameRecord(table[i2])]]
  BY <1>1 DEF TableRecord
<1>3. \A word, b : Bit(word, b) \in {0, 1}
  BY DEF Bit
<1>4. TableRecord(table) \in [Word(INDEX_2_BITS) -> [present : {0, 1}, pframe : Frames]]
  BY <1>2, <1>3, FrameRecordType
<1>5. Records!PT_ENTRY = [present : {0, 1}, pframe : Frames]
  BY AllMapped DEF Records!PT_ENTRY, Records!Bits
<1> QED
  BY <1>1, <1>2, <1>4, <1>5, ValueAssumption

\* A page is present, and has the same frame, in the table and in its record.
LEMMA PageAgrees ==
  ASSUME TypeOK, NEW v \in Word(VPAGE_BITS)
  PROVE  /\ Records!page_fault(Pair(v)) <=> page_fault(v)
         /\ ~ page_fault(v) =>
              /\ Table(v) \in SecondLevelTable
              /\ pt_get_pframe_number(v) \in Frames =>
                   Records!pt_get_pframe_number(Pair(v)) = pt_get_pframe_number(v)
<1> DEFINE table == Table(v)
           record == [i1 \in Word(INDEX_1_BITS) |-> TableRecord(first_level_page_table[i1])]
<1>1. Pair(v)[1] = Index1(v) /\ Pair(v)[2] = Index2(v)
  BY IndicesOfPage
<1>2. Index1(v) \in Word(INDEX_1_BITS) /\ Index2(v) \in Word(INDEX_2_BITS)
  BY IndicesOfPage
<1>3. table = NULL \/ table \in SecondLevelTable
  BY <1>2 DEF TypeOK, Table
<1>4. record[Pair(v)[1]] = TableRecord(table)
  BY <1>1, <1>2 DEF Table
<1>5. CASE table = NULL
  <2>1. page_fault(v)
    BY <1>5, <1>2 DEF page_fault
  <2>2. TableRecord(table) = NULL
    BY <1>5 DEF TableRecord
  <2> QED
    BY <1>4, <2>1, <2>2 DEF Records!page_fault
<1>6. CASE table \in SecondLevelTable
  <2> DEFINE word == table[Index2(v)]
  <2>1. /\ TableRecord(table) # NULL /\ table # NULL
        /\ TableRecord(table)[Index2(v)].present = Bit(word, ENTRY_BITS - 1)
        /\ TableRecord(table)[Index2(v)].pframe = FrameRecord(word)
    BY <1>2, <1>6, TableRecordType
  <2>2. page_fault(v) <=> ENTRY_BITS - 1 \notin word
    BY <2>1 DEF page_fault, Has, PRES_BIT
  <2>3. Records!page_fault(Pair(v)) <=> Bit(word, ENTRY_BITS - 1) = 0
    BY <1>1, <1>4, <2>1 DEF Records!page_fault
  <2>4. Records!pt_get_pframe_number(Pair(v)) = FrameRecord(word)
    BY <1>1, <1>4, <2>1 DEF Records!pt_get_pframe_number
  <2>5. {b \in AllOnes(FRAME_BITS) : b \in word} = word \cap PAGE_FRAME
    BY DEF PAGE_FRAME
  <2>6. pt_get_pframe_number(v) \in Frames => FrameRecord(word) = pt_get_pframe_number(v)
    BY <2>5 DEF FrameRecord, pt_get_pframe_number
  <2>7. Records!page_fault(Pair(v)) <=> page_fault(v)
    BY <2>2, <2>3 DEF Bit
  <2> QED
    BY <1>6, <2>4, <2>6, <2>7
<1> QED
  BY <1>3, <1>5, <1>6

-----------------------------------------------------------------------------
(* The write-back loop.                                                    *)

\* The bitmap with given bits.
BitmapOf(bits) == [i \in Words |-> {b \in AllOnes(WORD_BITS) : bits[i * WORD_BITS + b] = 1}]

\* It has these bits ...
LEMMA RecordOfBitmap ==
  ASSUME NEW bits \in [Frames -> {0, 1}]
  PROVE  BitmapOf(bits) \in Bitmap /\ BitmapRecord(BitmapOf(bits)) = bits
<1>1. BitmapOf(bits) \in Bitmap
  BY DEF BitmapOf, Bitmap, Word
<1>2. ASSUME NEW f \in Frames PROVE BitmapRecord(BitmapOf(bits))[f] = bits[f]
  <2>1. PICK i \in Words, b \in AllOnes(WORD_BITS) :
          i = f \div WORD_BITS /\ b = f % WORD_BITS /\ f = WORD_BITS * i + b
    BY FramePlace
  <2>2. i \in Nat /\ i * WORD_BITS = WORD_BITS * i
    BY <2>1, Widths DEF Words
  <2>3. b \in BitmapOf(bits)[i] <=> bits[f] = 1
    BY <2>1, <2>2 DEF BitmapOf
  <2>4. BitmapRecord(BitmapOf(bits))[f] = IF b \in BitmapOf(bits)[i] THEN 1 ELSE 0
    BY <2>1 DEF BitmapRecord, Bit
  <2> QED
    BY <2>3, <2>4
<1>3. BitmapRecord(BitmapOf(bits)) \in [Frames -> {0, 1}]
  BY <1>1, BitmapBits
<1> QED
  BY <1>1, <1>2, <1>3

\* ... and is the only one that has.
LEMMA BitmapOfRecord ==
  ASSUME NEW bitmap \in Bitmap
  PROVE  BitmapOf(BitmapRecord(bitmap)) = bitmap
<1> DEFINE new == BitmapOf(BitmapRecord(bitmap))
<1>1. ASSUME NEW i \in Words, NEW b \in AllOnes(WORD_BITS)
      PROVE  b \in new[i] <=> b \in bitmap[i]
  <2>1. PICK f \in Frames : f = i * WORD_BITS + b /\ f \div WORD_BITS = i /\ f % WORD_BITS = b
    BY PlacedFrame
  <2>2. BitmapRecord(bitmap)[f] = IF b \in bitmap[i] THEN 1 ELSE 0
    BY <2>1 DEF BitmapRecord, Bit
  <2>3. b \in new[i] <=> BitmapRecord(bitmap)[f] = 1
    BY <2>1 DEF BitmapOf
  <2> QED
    BY <2>2, <2>3
<1>2. \A i \in Words : new[i] \subseteq AllOnes(WORD_BITS) /\ bitmap[i] \subseteq AllOnes(WORD_BITS)
  BY DEF BitmapOf, Bitmap, Word
<1>3. \A i \in Words : new[i] = bitmap[i]
  BY <1>1, <1>2
<1>4. new \in [Words -> Word(WORD_BITS)] /\ bitmap \in [Words -> Word(WORD_BITS)]
  BY DEF BitmapOf, Bitmap, Word
<1> QED
  BY <1>3, <1>4

\* The slots below n that hold a frame, and the bits they leave in a bitmap.
Writers(f, n) == {i \in 0 .. n - 1 : Valid(tlb[i]) /\ PFrameOf(tlb[i]) = f}

LastWritten(bitmap, mask, n) ==
  BitmapOf([f \in Frames |-> IF Writers(f, n) = {} THEN BitmapRecord(bitmap)[f]
                             ELSE BitOf(tlb[Max(Writers(f, n))], mask)])

\* The frame of every valid entry is a frame.
FramesValid == \A i \in Slots : Valid(tlb[i]) => PFrameOf(tlb[i]) \in Frames

\* The bits are bits.
LEMMA LastWrittenType ==
  ASSUME NEW bitmap \in Bitmap, NEW mask, NEW n
  PROVE  LET bits == [f \in Frames |-> IF Writers(f, n) = {} THEN BitmapRecord(bitmap)[f]
                                       ELSE BitOf(tlb[Max(Writers(f, n))], mask)]
         IN  /\ bits \in [Frames -> {0, 1}]
             /\ LastWritten(bitmap, mask, n) \in Bitmap
             /\ BitmapRecord(LastWritten(bitmap, mask, n)) = bits
<1> DEFINE bits == [f \in Frames |-> IF Writers(f, n) = {} THEN BitmapRecord(bitmap)[f]
                                     ELSE BitOf(tlb[Max(Writers(f, n))], mask)]
<1>1. \A f \in Frames : BitmapRecord(bitmap)[f] \in {0, 1}
  BY BitmapBits
<1>2. \A entry : BitOf(entry, mask) \in {0, 1}
  BY DEF BitOf
<1>3. bits \in [Frames -> {0, 1}]
  BY <1>1, <1>2
<1>4. LastWritten(bitmap, mask, n) = BitmapOf(bits)
  BY DEF LastWritten
<1> QED
  BY <1>3, <1>4, RecordOfBitmap

\* A round of the loop makes the slot it is at the last writer of its frame.
LEMMA OneRound ==
  ASSUME FramesValid, NEW bitmap \in Bitmap, NEW mask, NEW n \in 1 .. num_tlb_entries
  PROVE  LET before == LastWritten(bitmap, mask, n - 1)
             entry == tlb[n - 1]
         IN  LastWritten(bitmap, mask, n) =
               IF Valid(entry) THEN Modified(before, PFrameOf(entry), BitOf(entry, mask)) ELSE before
<1> DEFINE entry == tlb[n - 1]
           B(k) == [f \in Frames |-> IF Writers(f, k) = {} THEN BitmapRecord(bitmap)[f]
                                     ELSE BitOf(tlb[Max(Writers(f, k))], mask)]
<1>1. n - 1 \in Slots /\ n \in Nat /\ n - 1 \in Nat
  BY Widths DEF Slots
<1>2. \A i : i \in 0 .. n - 1 <=> i \in 0 .. (n - 1) - 1 \/ i = n - 1
  BY <1>1
<1>3. \A f : Writers(f, n) = Writers(f, n - 1) \cup
                (IF Valid(entry) /\ PFrameOf(entry) = f THEN {n - 1} ELSE {})
  BY <1>2 DEF Writers
<1>4. \A k : LastWritten(bitmap, mask, k) = BitmapOf(B(k))
  BY DEF LastWritten
<1>5. ASSUME ~ Valid(entry) PROVE B(n) = B(n - 1)
  <2>1. \A f : Writers(f, n) = Writers(f, n - 1)
    BY <1>3, <1>5
  <2> QED
    BY <2>1
<1>6. ASSUME Valid(entry)
      PROVE  LastWritten(bitmap, mask, n) =
               Modified(LastWritten(bitmap, mask, n - 1), PFrameOf(entry), BitOf(entry, mask))
  <2>1. PICK f \in Frames : f = PFrameOf(entry)
    BY <1>1, <1>6 DEF FramesValid
  <2>2. \A g \in Frames \ {f} : Writers(g, n) = Writers(g, n - 1)
    BY <1>3, <2>1
  <2>3. Max(Writers(f, n)) = n - 1 /\ Writers(f, n) # {}
    <3> DEFINE S == Writers(f, n)
    <3>1. n - 1 \in S /\ S \in SUBSET (0 .. n)
      BY <1>1, <1>3, <1>6, <2>1 DEF Writers
    <3>2. \A y \in S : n - 1 >= y
      BY <1>1 DEF Writers
    <3> HIDE DEF S
    <3>3. n - 1 = Max(S)
      BY <1>1, <3>1, <3>2, MaxOf
    <3> QED
      BY <3>1, <3>3 DEF S
  <2>4. B(n - 1) \in [Frames -> {0, 1}] /\ BitOf(entry, mask) \in {0, 1}
    <3>1. \A k : B(k) \in [Frames -> {0, 1}]
      BY LastWrittenType
    <3>2. BitOf(entry, mask) \in {0, 1}
      BY DEF BitOf
    <3> QED
      BY <3>1, <3>2
  <2>5. B(n) = [B(n - 1) EXCEPT ![f] = BitOf(entry, mask)]
    BY <2>2, <2>3
  <2>6. /\ LastWritten(bitmap, mask, n - 1) \in Bitmap
        /\ BitmapRecord(LastWritten(bitmap, mask, n - 1)) = B(n - 1)
    BY LastWrittenType
  <2> DEFINE new == Modified(LastWritten(bitmap, mask, n - 1), f, BitOf(entry, mask))
  <2>7. new \in Bitmap /\ BitmapRecord(new) = B(n)
    BY <2>4, <2>5, <2>6, ModifiedBits
  <2>8. BitmapOf(BitmapRecord(new)) = new
    BY <2>7, BitmapOfRecord
  <2> QED
    BY <1>4, <2>1, <2>7, <2>8
<1> QED
  BY <1>4, <1>5, <1>6

\* What the loop computes, one round after the other ...
IsRounds(f) ==
  f = [n \in 0 .. num_tlb_entries |->
         IF n = 0 THEN [m |-> mbit_bitmap, r |-> rbit_bitmap] ELSE WrittenBack(f[n - 1], tlb[n - 1])]

\* ... is one function only.
LEMMA OneRounds ==
  ASSUME NEW f, NEW g, IsRounds(f), IsRounds(g)
  PROVE  f = g
<1> DEFINE N == num_tlb_entries
           Differ == {k \in 0 .. N : f[k] # g[k]}
<1>1. N \in Nat
  BY Widths
<1>2. /\ DOMAIN f = 0 .. N /\ DOMAIN g = 0 .. N
      /\ f = [k \in 0 .. N |-> f[k]] /\ g = [k \in 0 .. N |-> g[k]]
  BY DEF IsRounds
<1>3. ASSUME Differ # {} PROVE FALSE
  <2>1. Differ \in SUBSET Nat
    BY <1>1
  <2>2. PICK k \in Differ : \A j \in Differ : k <= j
    BY <1>3, <2>1, NaturalMinimum
  <2>3. k \in 0 .. N /\ k \in Nat /\ f[k] # g[k]
    BY <1>1, <2>2
  <2>4. /\ f[k] = IF k = 0 THEN [m |-> mbit_bitmap, r |-> rbit_bitmap] ELSE WrittenBack(f[k - 1], tlb[k - 1])
        /\ g[k] = IF k = 0 THEN [m |-> mbit_bitmap, r |-> rbit_bitmap] ELSE WrittenBack(g[k - 1], tlb[k - 1])
    BY <2>3 DEF IsRounds
  <2>5. k - 1 \in 0 .. N /\ f[k - 1] # g[k - 1] /\ k - 1 \in Nat /\ k - 1 < k
    BY <1>1, <2>3, <2>4
  <2>6. k - 1 \in Differ
    BY <2>5
  <2>7. k <= k - 1
    BY <2>2, <2>6
  <2> QED
    BY <2>3, <2>7
<1>4. \A k \in 0 .. N : f[k] = g[k]
  BY <1>3
<1> QED
  BY <1>2, <1>4

\* So the loop writes back the bits of the last slot that holds a frame.
LEMMA RoundsSolved ==
  ASSUME TypeOK, FramesValid
  PROVE  AfterRounds = [n \in 0 .. num_tlb_entries |->
           [m |-> LastWritten(mbit_bitmap, MBIT_MASK, n), r |-> LastWritten(rbit_bitmap, RBIT_MASK, n)]]
<1> DEFINE f == [n \in 0 .. num_tlb_entries |->
             [m |-> LastWritten(mbit_bitmap, MBIT_MASK, n), r |-> LastWritten(rbit_bitmap, RBIT_MASK, n)]]
<1>1. mbit_bitmap \in Bitmap /\ rbit_bitmap \in Bitmap /\ num_tlb_entries \in Nat
  BY Widths DEF TypeOK
<1>2. ASSUME NEW bitmap \in Bitmap, NEW mask
      PROVE  LastWritten(bitmap, mask, 0) = bitmap
  <2>1. \A g : Writers(g, 0) = {}
    BY DEF Writers
  <2>2. BitmapRecord(bitmap) \in [Frames -> {0, 1}]
    BY BitmapBits
  <2>3. LastWritten(bitmap, mask, 0) = BitmapOf([g \in Frames |-> BitmapRecord(bitmap)[g]])
    BY <2>1 DEF LastWritten
  <2>4. [g \in Frames |-> BitmapRecord(bitmap)[g]] = BitmapRecord(bitmap)
    BY <2>2
  <2> QED
    BY <2>3, <2>4, BitmapOfRecord
<1>3. ASSUME NEW n \in 1 .. num_tlb_entries
      PROVE  f[n] = WrittenBack(f[n - 1], tlb[n - 1])
  <2>1. n - 1 \in 0 .. num_tlb_entries /\ n \in 0 .. num_tlb_entries
    BY <1>1
  <2>2. /\ f[n].m = LastWritten(mbit_bitmap, MBIT_MASK, n)
        /\ f[n].r = LastWritten(rbit_bitmap, RBIT_MASK, n)
        /\ f[n] = [m |-> LastWritten(mbit_bitmap, MBIT_MASK, n), r |-> LastWritten(rbit_bitmap, RBIT_MASK, n)]
        /\ f[n - 1].m = LastWritten(mbit_bitmap, MBIT_MASK, n - 1)
        /\ f[n - 1].r = LastWritten(rbit_bitmap, RBIT_MASK, n - 1)
        /\ f[n - 1] = [m |-> LastWritten(mbit_bitmap, MBIT_MASK, n - 1),
                       r |-> LastWritten(rbit_bitmap, RBIT_MASK, n - 1)]
    BY <2>1
  <2> HIDE DEF f
  <2> QED
    BY <1>1, <2>2, OneRound
       DEF WrittenBack, mmu_modify_mbit_in_bitmap, mmu_modify_rbit_in_bitmap
<1>4. f[0] = [m |-> mbit_bitmap, r |-> rbit_bitmap]
  BY <1>1, <1>2
<1>5. IsRounds(f)
  <2>1. \A n \in 0 .. num_tlb_entries :
          f[n] = IF n = 0 THEN [m |-> mbit_bitmap, r |-> rbit_bitmap] ELSE WrittenBack(f[n - 1], tlb[n - 1])
    BY <1>1, <1>3, <1>4
  <2>2. f = [n \in 0 .. num_tlb_entries |-> f[n]]
    OBVIOUS
  <2> HIDE DEF f
  <2> QED
    BY <2>1, <2>2 DEF IsRounds
<1>6. IsRounds(AfterRounds)
  BY <1>5 DEF IsRounds, AfterRounds
<1> QED
  BY <1>5, <1>6, OneRounds

-----------------------------------------------------------------------------
(* The operations, on the words and on the records.                        *)

\* tlb_write_back_r_m_bits.
LEMMA WriteBackAgrees ==
  ASSUME TypeOK, FramesValid, tlb_write_back_r_m_bits
  PROVE  /\ mbit_bitmap' \in Bitmap /\ rbit_bitmap' \in Bitmap
         /\ Records!tlb_write_back_r_m_bits
<1> DEFINE N == num_tlb_entries
           Rec == TlbRecord(tlb)
<1>1. N \in Nat /\ mbit_bitmap \in Bitmap /\ rbit_bitmap \in Bitmap /\ tlb \in [Slots -> Entry]
  BY Widths DEF TypeOK
<1>2. /\ mbit_bitmap' = LastWritten(mbit_bitmap, MBIT_MASK, N)
      /\ rbit_bitmap' = LastWritten(rbit_bitmap, RBIT_MASK, N)
  <2>1. N \in 0 .. N
    BY <1>1
  <2> QED
    BY <2>1, RoundsSolved DEF tlb_write_back_r_m_bits
<1>3. \A i \in Slots : /\ Rec[i] = EntryRecord(tlb[i])
                       /\ Rec[i].valid = 1 <=> Valid(tlb[i])
                       /\ Valid(tlb[i]) => Rec[i].pframe = PFrameOf(tlb[i])
                       /\ Rec[i].m = BitOf(tlb[i], MBIT_MASK)
                       /\ Rec[i].r = BitOf(tlb[i], RBIT_MASK)
  BY <1>1, BitsOfEntry DEF TlbRecord, FramesValid
<1>4. Records!Slots = Slots
  BY DEF Records!Slots, Slots
<1>5. \A f : Records!HoldingSlots(f) = Writers(f, N)
  <2>1. \A f : Records!HoldingSlots(f) = {i \in Slots : Rec[i].valid = 1 /\ Rec[i].pframe = f}
    BY <1>4 DEF Records!HoldingSlots
  <2> QED
    BY <1>3, <2>1 DEF Writers, Slots
<1>6. ASSUME NEW f \in Frames, Writers(f, N) # {}
      PROVE  /\ Records!LastEntry(f).m = BitOf(tlb[Max(Writers(f, N))], MBIT_MASK)
             /\ Records!LastEntry(f).r = BitOf(tlb[Max(Writers(f, N))], RBIT_MASK)
  <2> DEFINE S == Writers(f, N)
  <2>1. S \in SUBSET (0 .. N) /\ S \subseteq Slots
    BY <1>1 DEF Writers, Slots
  <2>2. Records!LastEntry(f) = Rec[CHOOSE i \in S : \A j \in S : j <= i]
    BY <1>5 DEF Records!LastEntry
  <2>3. Max(S) \in S /\ (\A j \in S : Max(S) >= j) /\ \A i \in S : (\A j \in S : i >= j) => i = Max(S)
    <3> HIDE DEF S
    <3> QED
      BY <1>1, <1>6, <2>1, MaxOf DEF S
  <2>4. \A i, j \in S : j <= i <=> i >= j
    BY <1>1, <2>1
  <2>5. (CHOOSE i \in S : \A j \in S : j <= i) = Max(S)
    <3> HIDE DEF S
    <3> QED
      BY <2>3, <2>4
  <2>6. Max(S) \in Slots
    BY <2>1, <2>3
  <2> QED
    BY <1>3, <2>2, <2>5, <2>6
<1>7. BitmapRecord(mbit_bitmap') =
        [f \in Frames |-> IF Records!HoldingSlots(f) = {} THEN BitmapRecord(mbit_bitmap)[f]
                          ELSE Records!LastEntry(f).m]
  <2>1. BitmapRecord(mbit_bitmap') =
          [f \in Frames |-> IF Writers(f, N) = {} THEN BitmapRecord(mbit_bitmap)[f]
                            ELSE BitOf(tlb[Max(Writers(f, N))], MBIT_MASK)]
    BY <1>1, <1>2, LastWrittenType
  <2> QED
    BY <1>5, <1>6, <2>1
<1>8. BitmapRecord(rbit_bitmap') =
        [f \in Frames |-> IF Records!HoldingSlots(f) = {} THEN BitmapRecord(rbit_bitmap)[f]
                          ELSE Records!LastEntry(f).r]
  <2>1. BitmapRecord(rbit_bitmap') =
          [f \in Frames |-> IF Writers(f, N) = {} THEN BitmapRecord(rbit_bitmap)[f]
                            ELSE BitOf(tlb[Max(Writers(f, N))], RBIT_MASK)]
    BY <1>1, <1>2, LastWrittenType
  <2> QED
    BY <1>5, <1>6, <2>1
<1>9. mbit_bitmap' \in Bitmap /\ rbit_bitmap' \in Bitmap
  BY <1>1, <1>2, LastWrittenType
<1>10. BitmapRecord(mbit_bitmap)' = BitmapRecord(mbit_bitmap') /\ BitmapRecord(rbit_bitmap)' = BitmapRecord(rbit_bitmap')
  BY DEF BitmapRecord
<1> QED
  BY <1>7, <1>8, <1>9, <1>10, AllMapped DEF Records!tlb_write_back_r_m_bits

\* tlb_lookup_vpage.
LEMMA LookupAgrees ==
  ASSUME TypeOK, NEW v \in Word(VPAGE_BITS), NEW op, ~ tlb_miss(v), tlb_lookup_vpage(v, op)
  PROVE  /\ tlb' \in [Slots -> Entry]
         /\ \A i \in Slots : /\ tlb'[i].vbit_and_vpage = tlb[i].vbit_and_vpage
                             /\ tlb'[i].mr_pframe \cap PFRAME_MASK = tlb[i].mr_pframe \cap PFRAME_MASK
         /\ Records!tlb_lookup_vpage(Pair(v), op)
<1>1. tlb \in [Slots -> Entry]
  BY DEF TypeOK
<1>2. PICK i \in Slots : i = Min(HitSlots(v)) /\ i = Records!HitSlot(Pair(v))
  BY HitSlotsAgree
<1> DEFINE old == tlb[i].mr_pframe
           new == IF op = "STORE" THEN (old \cup RBIT_MASK) \cup MBIT_MASK ELSE old \cup RBIT_MASK
<1>3. tlb' = [tlb EXCEPT ![i].mr_pframe = new]
  BY <1>2 DEF tlb_lookup_vpage
<1>4. /\ ENTRY_BITS - 1 \in AllOnes(ENTRY_BITS) /\ ENTRY_BITS - 2 \in AllOnes(ENTRY_BITS)
      /\ ENTRY_BITS - 1 # ENTRY_BITS - 2
      /\ ENTRY_BITS - 1 \notin AllOnes(FRAME_BITS) /\ ENTRY_BITS - 2 \notin AllOnes(FRAME_BITS)
  BY Widths DEF AllOnes
<1>5. old \in Word(ENTRY_BITS) /\ tlb[i].vbit_and_vpage \in Word(ENTRY_BITS)
  BY <1>1 DEF Entry
<1>6. /\ new \in Word(ENTRY_BITS)
      /\ new \cap PFRAME_MASK = old \cap PFRAME_MASK
      /\ {b \in AllOnes(FRAME_BITS) : b \in new} = {b \in AllOnes(FRAME_BITS) : b \in old}
      /\ ENTRY_BITS - 2 \in new
      /\ ENTRY_BITS - 1 \in new <=> op = "STORE" \/ ENTRY_BITS - 1 \in old
  BY <1>4, <1>5 DEF Word, PFRAME_MASK, RBIT_MASK, MBIT_MASK
<1> HIDE DEF new
<1>7. /\ tlb' \in [Slots -> Entry]
      /\ tlb'[i] = [vbit_and_vpage |-> tlb[i].vbit_and_vpage, mr_pframe |-> new]
      /\ \A j \in Slots \ {i} : tlb'[j] = tlb[j]
  BY <1>1, <1>3, <1>5, <1>6 DEF Entry
<1>8. EntryRecord(tlb'[i]) = [EntryRecord(tlb[i]) EXCEPT !.r = 1, !.m = IF op = "STORE" THEN 1 ELSE @]
  <2>1. FrameRecord(new) = FrameRecord(old)
    BY <1>6 DEF FrameRecord
  <2>2. Bit(new, ENTRY_BITS - 2) = 1 /\ Bit(new, ENTRY_BITS - 1) = IF op = "STORE" THEN 1 ELSE Bit(old, ENTRY_BITS - 1)
    BY <1>6 DEF Bit
  <2>3. EntryRecord(tlb'[i]) = [valid |-> Bit(tlb[i].vbit_and_vpage, ENTRY_BITS - 1),
                                vpage |-> Pair(tlb[i].vbit_and_vpage),
                                r |-> 1, m |-> IF op = "STORE" THEN 1 ELSE Bit(old, ENTRY_BITS - 1),
                                pframe |-> FrameRecord(old)]
    BY <1>7, <2>1, <2>2 DEF EntryRecord
  <2>4. EntryRecord(tlb[i]) = [valid |-> Bit(tlb[i].vbit_and_vpage, ENTRY_BITS - 1),
                               vpage |-> Pair(tlb[i].vbit_and_vpage),
                               r |-> Bit(old, ENTRY_BITS - 2), m |-> Bit(old, ENTRY_BITS - 1),
                               pframe |-> FrameRecord(old)]
    BY DEF EntryRecord
  <2> DEFINE entry == EntryRecord(tlb[i])
             changed == [entry EXCEPT !.r = 1, !.m = IF op = "STORE" THEN 1 ELSE @]
             fields == {"valid", "vpage", "r", "m", "pframe"}
  <2>5. DOMAIN entry = fields
    BY <2>4
  <2>6. /\ changed.valid = entry.valid /\ changed.vpage = entry.vpage /\ changed.pframe = entry.pframe
        /\ changed.r = 1 /\ changed.m = IF op = "STORE" THEN 1 ELSE entry.m
    <3> HIDE DEF entry
    <3> QED
      BY <2>5
  <2>7. changed = [k \in fields |-> changed[k]]
    BY <2>5
  <2>8. EntryRecord(tlb'[i]) = [k \in fields |-> EntryRecord(tlb'[i])[k]]
    BY <2>3
  <2>9. /\ EntryRecord(tlb'[i]).valid = entry.valid /\ EntryRecord(tlb'[i]).vpage = entry.vpage
        /\ EntryRecord(tlb'[i]).pframe = entry.pframe /\ EntryRecord(tlb'[i]).r = 1
        /\ EntryRecord(tlb'[i]).m = IF op = "STORE" THEN 1 ELSE entry.m
    BY <2>3, <2>4
  <2> HIDE DEF entry, changed
  <2>10. \A k \in fields : EntryRecord(tlb'[i])[k] = changed[k]
    BY <2>6, <2>9
  <2>11. EntryRecord(tlb'[i]) = changed
    BY <2>7, <2>8, <2>10
  <2> QED
    BY <2>11 DEF changed, entry
<1>9. TlbRecord(tlb') = [TlbRecord(tlb) EXCEPT ![i].r = 1, ![i].m = IF op = "STORE" THEN 1 ELSE @]
  BY <1>7, <1>8 DEF TlbRecord
<1>10. TlbRecord(tlb)' = TlbRecord(tlb')
  BY DEF TlbRecord
<1>11. Records!tlb_lookup_vpage(Pair(v), op)
  BY <1>2, <1>9, <1>10 DEF Records!tlb_lookup_vpage
<1> QED
  BY <1>6, <1>7, <1>11

\* tlb_insert_vpage.
LEMMA InsertAgrees ==
  ASSUME TypeOK, FramesValid, NEW v \in Word(VPAGE_BITS), NEW f \in Frames,
         NEW r \in {0, 1}, NEW m \in {0, 1}, tlb_insert_vpage(v, f, r, m)
  PROVE  /\ tlb' \in [Slots -> Entry] /\ next_vpage_to_check' \in Slots
         /\ mbit_bitmap' \in Bitmap /\ rbit_bitmap' \in Bitmap
         /\ Holds(tlb'[found], v) /\ PFrameOf(tlb'[found]) = f
         /\ \A i \in Slots \ {found} : tlb'[i] = tlb[i]
         /\ Records!tlb_insert_vpage(Pair(v), f, r, m)
<1>1. tlb \in [Slots -> Entry] /\ mbit_bitmap \in Bitmap /\ rbit_bitmap \in Bitmap
  BY DEF TypeOK
<1>2. PICK i \in Slots : i = found /\ i = Records!found
  BY FoundAgrees
<1> DEFINE new == Inserted(tlb[i], v, f, r, m)
           rm == WrittenBack([m |-> mbit_bitmap, r |-> rbit_bitmap], tlb[i])
<1>3. tlb' = [tlb EXCEPT ![i] = new] /\ next_vpage_to_check' = (i + 1) % num_tlb_entries
  BY <1>2 DEF tlb_insert_vpage, SlotAfter
<1>4. mbit_bitmap' = rm.m /\ rbit_bitmap' = rm.r
  BY <1>2 DEF tlb_insert_vpage
<1>5. /\ new \in Entry /\ Holds(new, v) /\ PFrameOf(new) = f
      /\ EntryRecord(new) = [valid |-> 1, vpage |-> Pair(v), r |-> r, m |-> m, pframe |-> f]
  BY <1>1, InsertedFields
<1> HIDE DEF new
<1>6. tlb' \in [Slots -> Entry] /\ tlb'[i] = new /\ \A j \in Slots \ {i} : tlb'[j] = tlb[j]
  BY <1>1, <1>3, <1>5
<1>7. next_vpage_to_check' \in Slots
  <2>1. i + 1 \in Int
    BY DEF Slots
  <2> QED
    BY <1>3, <2>1, Widths, ModRange DEF Slots
<1>8. TlbRecord(tlb') = [TlbRecord(tlb) EXCEPT ![i] = EntryRecord(new)]
  BY <1>6 DEF TlbRecord
<1>9. TlbRecord(tlb)' = [TlbRecord(tlb) EXCEPT ![Records!found] =
                           Records!Inserted(@, Pair(v), f, r, m)]
  <2>1. TlbRecord(tlb)' = TlbRecord(tlb')
    BY DEF TlbRecord
  <2> QED
    BY <1>2, <1>5, <1>8, <2>1 DEF Records!Inserted
<1>10. next_vpage_to_check' = Records!SlotAfter(Records!found)
  BY <1>2, <1>3 DEF Records!SlotAfter
<1>11. /\ mbit_bitmap' \in Bitmap /\ rbit_bitmap' \in Bitmap
       /\ Records!WriteBackEntry(TlbRecord(tlb)[Records!found])
  <2>1. TlbRecord(tlb)[Records!found] = EntryRecord(tlb[i])
    BY <1>2 DEF TlbRecord
  <2>2. BitmapRecord(mbit_bitmap)' = BitmapRecord(mbit_bitmap') /\ BitmapRecord(rbit_bitmap)' = BitmapRecord(rbit_bitmap')
    BY DEF BitmapRecord
  <2>3. CASE ~ Valid(tlb[i])
    <3>1. EntryRecord(tlb[i]).valid # 1
      BY <1>1, <2>3, BitsOfEntry
    <3>2. mbit_bitmap' = mbit_bitmap /\ rbit_bitmap' = rbit_bitmap
      BY <1>4, <2>3 DEF WrittenBack
    <3> QED
      BY <1>1, <2>1, <2>2, <3>1, <3>2 DEF Records!WriteBackEntry
  <2>4. CASE Valid(tlb[i])
    <3>1. PICK g \in Frames : g = PFrameOf(tlb[i])
      BY <2>4 DEF FramesValid
    <3>2. PICK em \in {0, 1}, er \in {0, 1} : em = BitOf(tlb[i], MBIT_MASK) /\ er = BitOf(tlb[i], RBIT_MASK)
      BY DEF BitOf
    <3>3. mbit_bitmap' = Modified(mbit_bitmap, g, em) /\ rbit_bitmap' = Modified(rbit_bitmap, g, er)
      BY <1>4, <2>4, <3>1, <3>2 DEF WrittenBack, mmu_modify_mbit_in_bitmap, mmu_modify_rbit_in_bitmap
    <3>4. /\ EntryRecord(tlb[i]).valid = 1 /\ EntryRecord(tlb[i]).pframe = g
          /\ EntryRecord(tlb[i]).m = em /\ EntryRecord(tlb[i]).r = er
      BY <1>1, <2>4, <3>1, <3>2, BitsOfEntry
    <3>5. /\ mbit_bitmap' \in Bitmap /\ rbit_bitmap' \in Bitmap
          /\ BitmapRecord(mbit_bitmap') = [BitmapRecord(mbit_bitmap) EXCEPT ![g] = em]
          /\ BitmapRecord(rbit_bitmap') = [BitmapRecord(rbit_bitmap) EXCEPT ![g] = er]
      BY <1>1, <3>3, ModifiedBits
    <3> QED
      BY <2>1, <2>2, <3>4, <3>5 DEF Records!WriteBackEntry, Records!ModifiedBit
  <2> QED
    BY <2>3, <2>4
<1>12. Records!tlb_insert_vpage(Pair(v), f, r, m)
  BY <1>9, <1>10, <1>11 DEF Records!tlb_insert_vpage
<1> QED
  BY <1>2, <1>5, <1>6, <1>7, <1>11, <1>12

\* tlb_clear_R_bits and the bitmap that is cleared with it.
LEMMA ClearRAgrees ==
  ASSUME TypeOK, tlb_clear_R_bits, rbit_bitmap' = [i \in Words |-> {}]
  PROVE  /\ tlb' \in [Slots -> Entry] /\ rbit_bitmap' \in Bitmap
         /\ \A i \in Slots : /\ tlb'[i].vbit_and_vpage = tlb[i].vbit_and_vpage
                             /\ tlb'[i].mr_pframe \cap PFRAME_MASK = tlb[i].mr_pframe \cap PFRAME_MASK
         /\ Records!tlb_clear_R_bits
         /\ BitmapRecord(rbit_bitmap)' = [f \in Records!MappedFrames |-> 0]
<1>1. tlb \in [Slots -> Entry] /\ Records!Slots = Slots
  BY DEF TypeOK, Records!Slots, Slots
<1>2. \A i \in Slots : /\ tlb'[i].vbit_and_vpage = tlb[i].vbit_and_vpage
                       /\ tlb'[i].mr_pframe = tlb[i].mr_pframe \ RBIT_MASK
                       /\ tlb[i].vbit_and_vpage \in Word(ENTRY_BITS) /\ tlb[i].mr_pframe \in Word(ENTRY_BITS)
  BY <1>1 DEF tlb_clear_R_bits, Entry
<1>3. tlb' \in [Slots -> Entry]
  BY <1>1 DEF tlb_clear_R_bits, Entry, Word
<1>4. ENTRY_BITS - 2 \notin AllOnes(FRAME_BITS) /\ ENTRY_BITS - 1 # ENTRY_BITS - 2
  BY Widths DEF AllOnes
<1>5. ASSUME NEW i \in Slots
      PROVE  /\ tlb'[i].mr_pframe \cap PFRAME_MASK = tlb[i].mr_pframe \cap PFRAME_MASK
             /\ FrameRecord(tlb'[i].mr_pframe) = FrameRecord(tlb[i].mr_pframe)
             /\ Bit(tlb'[i].mr_pframe, ENTRY_BITS - 2) = 0
             /\ Bit(tlb'[i].mr_pframe, ENTRY_BITS - 1) = Bit(tlb[i].mr_pframe, ENTRY_BITS - 1)
  <2>1. \A b : b \in tlb'[i].mr_pframe <=> b \in tlb[i].mr_pframe /\ b # ENTRY_BITS - 2
    BY <1>2 DEF RBIT_MASK
  <2>2. {b \in AllOnes(FRAME_BITS) : b \in tlb'[i].mr_pframe} = {b \in AllOnes(FRAME_BITS) : b \in tlb[i].mr_pframe}
    BY <1>4, <2>1
  <2>3. FrameRecord(tlb'[i].mr_pframe) = FrameRecord(tlb[i].mr_pframe)
    BY <2>2 DEF FrameRecord
  <2> QED
    BY <1>4, <2>1, <2>3 DEF PFRAME_MASK, Bit
<1>6. ASSUME NEW i \in Slots
      PROVE  EntryRecord(tlb'[i]) = [EntryRecord(tlb[i]) EXCEPT !.r = 0]
  <2>1. EntryRecord(tlb'[i]) = [valid |-> Bit(tlb[i].vbit_and_vpage, ENTRY_BITS - 1),
                                vpage |-> Pair(tlb[i].vbit_and_vpage),
                                r |-> 0, m |-> Bit(tlb[i].mr_pframe, ENTRY_BITS - 1),
                                pframe |-> FrameRecord(tlb[i].mr_pframe)]
    BY <1>2, <1>5 DEF EntryRecord
  <2> QED
    BY <2>1 DEF EntryRecord
<1>7. TlbRecord(tlb)' = [i \in Slots |-> [TlbRecord(tlb)[i] EXCEPT !.r = 0]]
  <2>1. TlbRecord(tlb)' = TlbRecord(tlb')
    BY DEF TlbRecord
  <2> QED
    BY <1>6, <2>1 DEF TlbRecord
<1>8. Records!tlb_clear_R_bits
  BY <1>1, <1>7 DEF Records!tlb_clear_R_bits
<1>9. rbit_bitmap' \in Bitmap
  BY DEF Bitmap, Word
<1>10. BitmapRecord(rbit_bitmap)' = [f \in Frames |-> 0]
  <2>1. \A f \in Frames : Bit(rbit_bitmap'[f \div WORD_BITS], f % WORD_BITS) = 0
    BY FramePlace DEF Bit
  <2> QED
    BY <2>1 DEF BitmapRecord
<1> QED
  BY <1>2, <1>3, <1>5, <1>8, <1>9, <1>10, AllMapped

\* tlb_clear_entry.
LEMMA ClearEntryAgrees ==
  ASSUME TypeOK, NEW v \in Word(VPAGE_BITS), tlb_clear_entry(v)
  PROVE  /\ tlb' \in [Slots -> Entry]
         /\ \A i \in Slots : Valid(tlb'[i]) => tlb'[i] = tlb[i] /\ ~ Holds(tlb[i], v)
         /\ TlbRecord(tlb)' = Records!tlb_clear_entry(Pair(v))
<1>1. tlb \in [Slots -> Entry] /\ Records!Slots = Slots
  BY DEF TypeOK, Records!Slots, Slots
<1>2. ASSUME NEW i \in Slots, Holds(tlb[i], v)
      PROVE  /\ tlb'[i] \in Entry /\ ~ Valid(tlb'[i])
             /\ EntryRecord(tlb'[i]) = [EntryRecord(tlb[i]) EXCEPT !.valid = 0]
  <2>1. tlb[i].vbit_and_vpage \in Word(ENTRY_BITS) /\ tlb[i].mr_pframe \in Word(ENTRY_BITS)
    BY <1>1 DEF Entry
  <2> DEFINE new == tlb[i].vbit_and_vpage \ VBIT_MASK
  <2>2. /\ tlb'[i] = [vbit_and_vpage |-> new, mr_pframe |-> tlb[i].mr_pframe]
        /\ tlb'[i].vbit_and_vpage = new /\ tlb'[i].mr_pframe = tlb[i].mr_pframe
    BY <1>1, <1>2 DEF tlb_clear_entry, Entry
  <2>3. \A b : b \in new <=> b \in tlb[i].vbit_and_vpage /\ b # ENTRY_BITS - 1
    BY DEF VBIT_MASK
  <2>4. /\ new \in Word(ENTRY_BITS) /\ ENTRY_BITS - 1 \notin new
        /\ new \cap VPAGE_MASK = tlb[i].vbit_and_vpage \cap VPAGE_MASK
    BY <2>1, <2>3, Widths DEF Word, VPAGE_MASK, AllOnes
  <2> HIDE DEF new
  <2>5. Pair(new) = Pair(tlb[i].vbit_and_vpage)
    BY <2>1, <2>4, PairOfEntry
  <2>6. EntryRecord(tlb'[i]) = [valid |-> 0, vpage |-> Pair(tlb[i].vbit_and_vpage),
                                r |-> Bit(tlb[i].mr_pframe, ENTRY_BITS - 2),
                                m |-> Bit(tlb[i].mr_pframe, ENTRY_BITS - 1),
                                pframe |-> FrameRecord(tlb[i].mr_pframe)]
    BY <2>2, <2>4, <2>5 DEF EntryRecord, Bit
  <2>7. EntryRecord(tlb'[i]) = [EntryRecord(tlb[i]) EXCEPT !.valid = 0]
    BY <2>6 DEF EntryRecord
  <2> QED
    BY <2>1, <2>2, <2>4, <2>7 DEF Entry, Valid, Has, VBIT_MASK
<1>3. \A i \in Slots : ~ Holds(tlb[i], v) => tlb'[i] = tlb[i]
  BY DEF tlb_clear_entry
<1>4. tlb' = [i \in Slots |-> tlb'[i]]
  BY DEF tlb_clear_entry
<1>5. tlb' \in [Slots -> Entry]
  BY <1>1, <1>2, <1>3, <1>4
<1>6. TlbRecord(tlb)' = [i \in Slots |-> IF TlbRecord(tlb)[i].vpage = Pair(v)
                                         THEN [TlbRecord(tlb)[i] EXCEPT !.valid = 0] ELSE TlbRecord(tlb)[i]]
  <2>1. TlbRecord(tlb)' = TlbRecord(tlb')
    BY DEF TlbRecord
  <2>2. \A i \in Slots : Holds(tlb[i], v) <=> EntryRecord(tlb[i]).vpage = Pair(v)
    BY <1>1, HoldsPair
  <2> QED
    BY <1>2, <1>3, <2>1, <2>2 DEF TlbRecord
<1> QED
  BY <1>1, <1>2, <1>3, <1>5, <1>6 DEF Records!tlb_clear_entry

\* The page table that the records are of.
TableRecords == [i1 \in Word(INDEX_1_BITS) |-> TableRecord(first_level_page_table[i1])]

\* Another page is at another place of the page table.
LEMMA OtherPlace ==
  ASSUME NEW v \in Word(VPAGE_BITS), NEW w \in Word(VPAGE_BITS), v # w
  PROVE  Index1(v) # Index1(w) \/ Index2(v) # Index2(w)
BY IndicesOfPage, PairDetermines

\* pt_update_pagetable.  A page other than the one brought in stays where it is;
\* it gets present only if its entry looked so in the memory of a new table.
LEMMA UpdateAgrees ==
  ASSUME TypeOK, NEW v \in Word(VPAGE_BITS), NEW f \in Frames, page_fault(v), pt_update_pagetable(v, f)
  PROVE  /\ first_level_page_table' \in [Word(INDEX_1_BITS) -> {NULL} \cup SecondLevelTable]
         /\ ~ page_fault(v)' /\ pt_get_pframe_number(v)' = f
         /\ \A w \in Word(VPAGE_BITS) \ {v} : ~ page_fault(w) =>
              ~ page_fault(w)' /\ pt_get_pframe_number(w)' = pt_get_pframe_number(w)
         /\ \A w \in Word(VPAGE_BITS) \ {v} : page_fault(w) /\ ~ page_fault(w)' =>
              ~ CleanTables /\ (TablesInRange => pt_get_pframe_number(w)' \in Frames)
         /\ Records!pt_update_pagetable(Pair(v), f)
<1> DEFINE pt == first_level_page_table
           i1 == Index1(v)
           i2 == Index2(v)
<1>1. i1 \in Word(INDEX_1_BITS) /\ i2 \in Word(INDEX_2_BITS) /\ Pair(v)[1] = i1 /\ Pair(v)[2] = i2
  BY IndicesOfPage
<1>2. pt \in [Word(INDEX_1_BITS) -> {NULL} \cup SecondLevelTable]
  BY DEF TypeOK
<1>3. PICK table \in IF pt[i1] = NULL THEN TableGarbage ELSE {pt[i1]} :
        pt' = [pt EXCEPT ![i1] = [table EXCEPT ![i2] = Bits(f) \cup PRES_BIT]]
  BY DEF pt_update_pagetable, Table
<1>4. TableGarbage \subseteq SecondLevelTable
  BY GarbageAssumption
<1>5. table \in SecondLevelTable
  BY <1>1, <1>2, <1>3, <1>4
<1> DEFINE word == Bits(f) \cup PRES_BIT
           new == [table EXCEPT ![i2] = word]
<1>6. Bits(f) \in Word(FRAME_BITS) /\ Number(Bits(f)) = f
  BY NumberOfBits
<1>7. /\ word \in Word(ENTRY_BITS) /\ ENTRY_BITS - 1 \in word
      /\ word \cap PAGE_FRAME = Bits(f) /\ {b \in AllOnes(FRAME_BITS) : b \in word} = Bits(f)
  BY <1>6, Widths DEF Word, AllOnes, PRES_BIT, PAGE_FRAME
<1> HIDE DEF word
<1>8. new \in SecondLevelTable /\ new[i2] = word /\ \A j \in Word(INDEX_2_BITS) \ {i2} : new[j] = table[j]
  BY <1>1, <1>5, <1>7 DEF SecondLevelTable
<1> HIDE DEF new
<1>9. /\ pt' \in [Word(INDEX_1_BITS) -> {NULL} \cup SecondLevelTable]
      /\ pt'[i1] = new /\ \A j \in Word(INDEX_1_BITS) \ {i1} : pt'[j] = pt[j]
  BY <1>1, <1>2, <1>3, <1>8 DEF new, word
<1>10. new # NULL
  BY <1>8, ValueAssumption
<1>11. ~ page_fault(v)' /\ pt_get_pframe_number(v)' = f
  <2>1. Table(v)' = new
    BY <1>9 DEF Table
  <2>2. page_fault(v)' <=> (new # NULL => ~ Has(new[i2], PRES_BIT))
    BY <2>1 DEF page_fault
  <2>3. pt_get_pframe_number(v)' = Number(new[i2] \cap PAGE_FRAME)
    BY <2>1 DEF pt_get_pframe_number
  <2> QED
    BY <1>6, <1>7, <1>8, <1>10, <2>2, <2>3 DEF Has, PRES_BIT
<1>12. ASSUME NEW w \in Word(VPAGE_BITS) \ {v}
       PROVE  /\ ~ page_fault(w) => ~ page_fault(w)' /\ pt_get_pframe_number(w)' = pt_get_pframe_number(w)
              /\ page_fault(w) /\ ~ page_fault(w)' =>
                   ~ CleanTables /\ (TablesInRange => pt_get_pframe_number(w)' \in Frames)
  <2>1. Index1(w) \in Word(INDEX_1_BITS) /\ Index2(w) \in Word(INDEX_2_BITS)
    BY IndicesOfPage
  <2>2. CASE Index1(w) # i1
    BY <1>9, <2>1, <2>2 DEF page_fault, pt_get_pframe_number, Table
  <2>3. CASE Index1(w) = i1
    <3> DEFINE j == Index2(w)
    <3>1. Index2(w) # i2
      BY <2>3, OtherPlace
    <3>2. Table(w)' = new /\ new[j] = table[j]
      BY <1>8, <1>9, <2>1, <2>3, <3>1 DEF Table
    <3>3. CASE pt[i1] = NULL
      <4>1. page_fault(w) /\ table \in TableGarbage
        BY <1>3, <2>3, <3>3 DEF page_fault, Table
      <4>2. ASSUME ~ page_fault(w)'
            PROVE  ~ CleanTables /\ (TablesInRange => pt_get_pframe_number(w)' \in Frames)
        <5>1. Has(table[j], PRES_BIT)
          BY <3>2, <4>2 DEF page_fault
        <5>2. pt_get_pframe_number(w)' = Number(table[j] \cap PAGE_FRAME)
          BY <3>2 DEF pt_get_pframe_number
        <5> QED
          BY <2>1, <4>1, <5>1, <5>2 DEF CleanTables, TablesInRange
      <4> QED
        BY <4>1, <4>2
    <3>4. CASE pt[i1] # NULL
      <4>1. Table(w) = table
        BY <1>3, <2>3, <3>4 DEF Table
      <4> QED
        BY <1>3, <1>10, <3>2, <3>4, <4>1 DEF page_fault, pt_get_pframe_number
    <3> QED
      BY <3>3, <3>4
  <2> QED
    BY <2>2, <2>3
<1>13. TableRecord(new) = [TableRecord(table) EXCEPT ![i2] = [present |-> 1, pframe |-> f]]
  <2>1. Bit(word, ENTRY_BITS - 1) = 1 /\ FrameRecord(word) = f
    BY <1>6, <1>7 DEF Bit, FrameRecord
  <2>2. /\ TableRecord(new) = [j \in Word(INDEX_2_BITS) |->
             [present |-> Bit(new[j], ENTRY_BITS - 1), pframe |-> FrameRecord(new[j])]]
        /\ TableRecord(table) = [j \in Word(INDEX_2_BITS) |->
             [present |-> Bit(table[j], ENTRY_BITS - 1), pframe |-> FrameRecord(table[j])]]
    BY <1>5, <1>8, TableRecordType
  <2> QED
    BY <1>1, <1>8, <2>1, <2>2
<1>14. TableRecords' = [TableRecords EXCEPT ![i1] = Records!Mapped(TableRecord(table), i2, f)]
  <2>1. TableRecords' = [j \in Word(INDEX_1_BITS) |-> TableRecord(pt'[j])]
    BY DEF TableRecords
  <2> QED
    BY <1>1, <1>9, <1>13, <2>1 DEF TableRecords, Records!Mapped
<1>15. TableRecord(table) \in IF TableRecords[i1] = NULL THEN Records!NewTables ELSE {TableRecords[i1]}
  <2>1. TableRecords[i1] = TableRecord(pt[i1])
    BY <1>1 DEF TableRecords
  <2>2. CASE pt[i1] = NULL
    <3>1. TableRecords[i1] = NULL
      BY <2>1, <2>2 DEF TableRecord
    <3>2. Records!NewTables = [Word(INDEX_2_BITS) -> Records!PT_ENTRY]
      BY DEF Records!NewTables
    <3> QED
      BY <1>5, <3>1, <3>2, TableRecordType
  <2>3. CASE pt[i1] # NULL
    <3>1. table = pt[i1] /\ TableRecord(pt[i1]) # NULL
      BY <1>3, <1>5, <2>3, TableRecordType
    <3> QED
      BY <2>1, <3>1
  <2> QED
    BY <2>2, <2>3
<1>16. Records!pt_update_pagetable(Pair(v), f)
  BY <1>1, <1>14, <1>15 DEF Records!pt_update_pagetable, TableRecords
<1> QED
  BY <1>9, <1>11, <1>12, <1>16

\* pt_clear_page_table_entry.
LEMMA ClearPageAgrees ==
  ASSUME TypeOK, NEW v \in Word(VPAGE_BITS), ~ page_fault(v), pt_clear_page_table_entry(v)
  PROVE  /\ first_level_page_table' \in [Word(INDEX_1_BITS) -> {NULL} \cup SecondLevelTable]
         /\ page_fault(v)'
         /\ \A w \in Word(VPAGE_BITS) \ {v} :
              /\ page_fault(w)' <=> page_fault(w)
              /\ ~ page_fault(w) => pt_get_pframe_number(w)' = pt_get_pframe_number(w)
         /\ Records!pt_clear_page_table_entry(Pair(v))
<1> DEFINE pt == first_level_page_table
           i1 == Index1(v)
           i2 == Index2(v)
           table == pt[i1]
           word == table[i2] \ PRES_BIT
           new == [table EXCEPT ![i2] = word]
<1>1. i1 \in Word(INDEX_1_BITS) /\ i2 \in Word(INDEX_2_BITS) /\ Pair(v)[1] = i1 /\ Pair(v)[2] = i2
  BY IndicesOfPage
<1>2. pt \in [Word(INDEX_1_BITS) -> {NULL} \cup SecondLevelTable]
  BY DEF TypeOK
<1>3. table \in SecondLevelTable
  BY PageAgrees DEF Table
<1>4. pt' = [pt EXCEPT ![i1] = new]
  BY DEF pt_clear_page_table_entry
<1>5. /\ word \in Word(ENTRY_BITS) /\ ENTRY_BITS - 1 \notin word
      /\ {b \in AllOnes(FRAME_BITS) : b \in word} = {b \in AllOnes(FRAME_BITS) : b \in table[i2]}
  BY <1>1, <1>3, Widths DEF SecondLevelTable, Word, AllOnes, PRES_BIT
<1> HIDE DEF word
<1>6. new \in SecondLevelTable /\ new[i2] = word /\ \A j \in Word(INDEX_2_BITS) \ {i2} : new[j] = table[j]
  BY <1>1, <1>3, <1>5 DEF SecondLevelTable
<1> HIDE DEF new
<1>7. /\ pt' \in [Word(INDEX_1_BITS) -> {NULL} \cup SecondLevelTable]
      /\ pt'[i1] = new /\ \A j \in Word(INDEX_1_BITS) \ {i1} : pt'[j] = pt[j]
  BY <1>1, <1>2, <1>4, <1>6
<1>8. new # NULL /\ table # NULL
  BY <1>3, <1>6, ValueAssumption
<1>9. page_fault(v)'
  BY <1>5, <1>6, <1>7 DEF page_fault, Table, Has, PRES_BIT
<1>10. ASSUME NEW w \in Word(VPAGE_BITS) \ {v}
       PROVE  /\ page_fault(w)' <=> page_fault(w)
              /\ ~ page_fault(w) => pt_get_pframe_number(w)' = pt_get_pframe_number(w)
  <2>1. Index1(w) \in Word(INDEX_1_BITS) /\ Index2(w) \in Word(INDEX_2_BITS)
    BY IndicesOfPage
  <2>2. CASE Index1(w) # i1
    BY <1>7, <2>1, <2>2 DEF page_fault, pt_get_pframe_number, Table
  <2>3. CASE Index1(w) = i1
    <3>1. Index2(w) # i2
      BY <2>3, OtherPlace
    <3>2. Table(w)' = new /\ new[Index2(w)] = table[Index2(w)] /\ Table(w) = table
      BY <1>6, <1>7, <2>1, <2>3, <3>1 DEF Table
    <3> QED
      BY <1>8, <3>2 DEF page_fault, pt_get_pframe_number
  <2> QED
    BY <2>2, <2>3
<1>11. TableRecord(new) = [TableRecord(table) EXCEPT ![i2].present = 0]
  <2>1. Bit(word, ENTRY_BITS - 1) = 0 /\ FrameRecord(word) = FrameRecord(table[i2])
    BY <1>5 DEF Bit, FrameRecord
  <2>2. /\ TableRecord(new) = [j \in Word(INDEX_2_BITS) |->
             [present |-> Bit(new[j], ENTRY_BITS - 1), pframe |-> FrameRecord(new[j])]]
        /\ TableRecord(table) = [j \in Word(INDEX_2_BITS) |->
             [present |-> Bit(table[j], ENTRY_BITS - 1), pframe |-> FrameRecord(table[j])]]
    BY <1>3, <1>6, TableRecordType
  <2>3. /\ TableRecord(table)[i2] = [present |-> Bit(table[i2], ENTRY_BITS - 1), pframe |-> FrameRecord(table[i2])]
        /\ TableRecord(new)[i2] = [present |-> 0, pframe |-> FrameRecord(table[i2])]
        /\ \A j \in Word(INDEX_2_BITS) \ {i2} : TableRecord(new)[j] = TableRecord(table)[j]
    BY <1>1, <1>6, <2>1, <2>2
  <2>4. TableRecord(new)[i2] = [TableRecord(table)[i2] EXCEPT !.present = 0]
    BY <2>3
  <2>5. /\ TableRecord(new) = [j \in Word(INDEX_2_BITS) |-> TableRecord(new)[j]]
        /\ TableRecord(table) = [j \in Word(INDEX_2_BITS) |-> TableRecord(table)[j]]
    BY <2>2
  <2> QED
    BY <1>1, <2>3, <2>4, <2>5
<1>12. TableRecords' = [TableRecords EXCEPT ![i1][i2].present = 0]
  <2>1. TableRecords' = [j \in Word(INDEX_1_BITS) |-> TableRecord(pt'[j])]
    BY DEF TableRecords
  <2>2. TableRecords[i1] = TableRecord(table)
    BY <1>1 DEF TableRecords
  <2>3. TableRecords' = [TableRecords EXCEPT ![i1] = [TableRecord(table) EXCEPT ![i2].present = 0]]
    BY <1>1, <1>7, <1>11, <2>1 DEF TableRecords
  <2> QED
    BY <2>2, <2>3
<1>13. Records!pt_clear_page_table_entry(Pair(v))
  BY <1>1, <1>12 DEF Records!pt_clear_page_table_entry, TableRecords
<1> QED
  BY <1>7, <1>9, <1>10, <1>13

-----------------------------------------------------------------------------
(* The invariant.                                                          *)

\* Every frame number that is used as an index into the bitmaps is in range.
FramesInRange ==
  /\ \A v \in PresentPages : pt_get_pframe_number(v) \in Frames
  /\ FramesValid

\* Inductive, whatever new tables hold within TablesInRange: what the steps of
\* Mmu rest on.  MappingsAgree is inductive relative to it if they are clean.
Legal == TypeOK /\ FramesInRange /\ FaultAbsent

\* Clean tables hold no frame number that counts.
LEMMA CleanInRange == CleanTables => TablesInRange
BY DEF CleanTables, TablesInRange

\* The page number of an address.
LEMMA PageOfAddress ==
  ASSUME NEW a \in Word(VPAGE_BITS + OFFSET_BITS)
  PROVE  /\ VPageOf(a) \in Word(VPAGE_BITS)
         /\ \A b \in AllOnes(VPAGE_BITS) : b \in VPageOf(a) <=> b + OFFSET_BITS \in a
<1> DEFINE high == a \cap ADDRESS_VPAGE_MASK
<1>1. VPAGE_BITS \in Nat /\ OFFSET_BITS \in Nat
  BY Widths
<1>2. \A c \in high : c \in Nat /\ c >= OFFSET_BITS /\ c - OFFSET_BITS \in AllOnes(VPAGE_BITS)
  BY <1>1 DEF ADDRESS_VPAGE_MASK, OFFSET_MASK, AllOnes
<1>3. VPageOf(a) = {c - OFFSET_BITS : c \in {d \in high : d >= OFFSET_BITS}}
  BY DEF VPageOf, ShiftedRight
<1>4. VPageOf(a) \in Word(VPAGE_BITS)
  BY <1>2, <1>3 DEF Word
<1>5. ASSUME NEW b \in AllOnes(VPAGE_BITS)
      PROVE  b \in VPageOf(a) <=> b + OFFSET_BITS \in a
  <2>1. b + OFFSET_BITS \in ADDRESS_VPAGE_MASK /\ b + OFFSET_BITS >= OFFSET_BITS /\ (b + OFFSET_BITS) - OFFSET_BITS = b
    BY <1>1 DEF ADDRESS_VPAGE_MASK, OFFSET_MASK, AllOnes
  <2>2. ASSUME b + OFFSET_BITS \in a PROVE b \in VPageOf(a)
    <3>1. b + OFFSET_BITS \in {d \in high : d >= OFFSET_BITS}
      BY <2>1, <2>2
    <3> QED
      BY <1>3, <2>1, <3>1
  <2>3. ASSUME b \in VPageOf(a) PROVE b + OFFSET_BITS \in a
    <3>1. PICK c \in high : b = c - OFFSET_BITS
      BY <1>3, <2>3
    <3>2. c = b + OFFSET_BITS
      BY <1>1, <1>2, <3>1
    <3> QED
      BY <3>2
  <2> QED
    BY <2>2, <2>3
<1> QED
  BY <1>4, <1>5

\* The pages the program uses are pages.
LEMMA PagesUsed ==
  VPages \subseteq Word(VPAGE_BITS) /\ NO_PAGE \notin Word(VPAGE_BITS)
BY PageOfAddress, ValueAssumption DEF VPages

\* What depends on the page table alone.
LEMMA SamePages ==
  ASSUME first_level_page_table' = first_level_page_table
  PROVE  /\ PresentPages' = PresentPages
         /\ \A v : /\ page_fault(v)' <=> page_fault(v)
                   /\ pt_get_pframe_number(v)' = pt_get_pframe_number(v)
<1>1. \A v : Table(v)' = Table(v)
  BY DEF Table
<1>2. \A v : /\ page_fault(v)' <=> page_fault(v)
             /\ pt_get_pframe_number(v)' = pt_get_pframe_number(v)
  BY <1>1 DEF page_fault, pt_get_pframe_number
<1> QED
  BY <1>2 DEF PresentPages

\* A step that changes neither the page table nor which frames are occupied.
LEMMA FramesKept ==
  ASSUME FramesDistinct, UNCHANGED <<first_level_page_table, pageframe_bitmap>>
  PROVE  FramesDistinct'
<1>1. /\ PresentPages' = PresentPages
      /\ \A v : pt_get_pframe_number(v)' = pt_get_pframe_number(v)
  BY SamePages
<1>2. \A f : mmu_get_pageframe_bitmap_value(f)' = mmu_get_pageframe_bitmap_value(f)
  BY DEF mmu_get_pageframe_bitmap_value
<1>3. \A v : mmu_get_pageframe_bitmap_value(pt_get_pframe_number(v))' =
             mmu_get_pageframe_bitmap_value(pt_get_pframe_number(v))
  BY <1>1 DEF mmu_get_pageframe_bitmap_value
<1> QED
  BY <1>1, <1>3 DEF FramesDistinct

\* Nor the pages and frames of the TLB.
LEMMA MappingsKept ==
  ASSUME FramesDistinct, TlbAgrees, UNCHANGED <<first_level_page_table, pageframe_bitmap>>,
         \A i \in Slots : /\ tlb'[i].vbit_and_vpage = tlb[i].vbit_and_vpage
                          /\ tlb'[i].mr_pframe \cap PFRAME_MASK = tlb[i].mr_pframe \cap PFRAME_MASK
  PROVE  FramesDistinct' /\ TlbAgrees'
<1>1. /\ PresentPages' = PresentPages
      /\ \A v : pt_get_pframe_number(v)' = pt_get_pframe_number(v)
  BY SamePages
<1>2. \A i \in Slots : /\ Valid(tlb[i])' <=> Valid(tlb[i])
                       /\ PFrameOf(tlb[i])' = PFrameOf(tlb[i])
                       /\ \A v : Holds(tlb[i], v)' <=> Holds(tlb[i], v)
  BY DEF Valid, PFrameOf, Holds
<1>3. TlbAgrees'
  <2> SUFFICES ASSUME NEW i \in Slots, Valid(tlb[i])'
               PROVE  (\E v \in PresentPages : Holds(tlb[i], v) /\ PFrameOf(tlb[i]) = pt_get_pframe_number(v))'
    BY DEF TlbAgrees, Slots
  <2>1. PICK v \in PresentPages : Holds(tlb[i], v) /\ PFrameOf(tlb[i]) = pt_get_pframe_number(v)
    BY <1>2 DEF TlbAgrees
  <2>2. v \in PresentPages' /\ Holds(tlb[i], v)' /\ PFrameOf(tlb[i])' = pt_get_pframe_number(v)'
    BY <1>1, <1>2, <2>1
  <2> QED
    BY <2>2
<1> QED
  BY <1>3, FramesKept

\* Nor a frame number in use.
LEMMA RangeKept ==
  ASSUME FramesInRange, UNCHANGED first_level_page_table,
         \A i \in Slots : /\ tlb'[i].vbit_and_vpage = tlb[i].vbit_and_vpage
                          /\ tlb'[i].mr_pframe \cap PFRAME_MASK = tlb[i].mr_pframe \cap PFRAME_MASK
  PROVE  FramesInRange'
<1>1. /\ PresentPages' = PresentPages
      /\ \A v : pt_get_pframe_number(v)' = pt_get_pframe_number(v)
  BY SamePages
<1>2. \A i \in Slots : /\ Valid(tlb[i])' <=> Valid(tlb[i])
                       /\ PFrameOf(tlb[i])' = PFrameOf(tlb[i])
  BY DEF Valid, PFrameOf
<1>3. FramesValid'
  BY <1>2 DEF FramesInRange, FramesValid, Slots
<1>4. \A v \in PresentPages' : pt_get_pframe_number(v)' \in Frames
  BY <1>1 DEF FramesInRange
<1> QED
  BY <1>3, <1>4 DEF FramesInRange, Frames

-----------------------------------------------------------------------------
(* The steps.  Each is one of Mmu and keeps Legal, and MappingsAgree.      *)

\* A TLB hit.
LEMMA HitStep ==
  ASSUME Legal, NEW v \in VPages, NEW op, fault = NO_PAGE, ~ tlb_miss(v), tlb_lookup_vpage(v, op),
         UNCHANGED <<next_vpage_to_check, rbit_bitmap, mbit_bitmap, fault, pageframe_bitmap,
                     first_level_page_table>>
  PROVE  Legal' /\ Records!TranslateByTlb(Pair(v), op) /\ (MappingsAgree => MappingsAgree')
<1>1. v \in Word(VPAGE_BITS) /\ TypeOK
  BY PagesUsed DEF Legal
<1>2. /\ tlb' \in [Slots -> Entry]
      /\ \A i \in Slots : /\ tlb'[i].vbit_and_vpage = tlb[i].vbit_and_vpage
                          /\ tlb'[i].mr_pframe \cap PFRAME_MASK = tlb[i].mr_pframe \cap PFRAME_MASK
      /\ Records!tlb_lookup_vpage(Pair(v), op)
  BY <1>1, LookupAgrees
<1>3. TypeOK'
  BY <1>1, <1>2 DEF TypeOK
<1>4. FramesInRange' /\ FaultAbsent'
  BY <1>2, RangeKept DEF Legal, FaultAbsent
<1>5. MappingsAgree => MappingsAgree'
  BY <1>2, <1>4, MappingsKept DEF MappingsAgree
<1>6. ~ Records!tlb_miss(Pair(v))
  BY <1>1, HitSlotsAgree
<1>7. Records!TranslateByTlb(Pair(v), op)
  BY <1>2, <1>6 DEF Records!TranslateByTlb, Records!bitmaps, BitmapRecord
<1> QED
  BY <1>3, <1>4, <1>5, <1>7 DEF Legal

\* A TLB miss on a page in memory.
LEMMA MissStep ==
  ASSUME Legal, NEW v \in VPages, NEW op, fault = NO_PAGE, tlb_miss(v), ~ page_fault(v),
         tlb_insert_vpage(v, pt_get_pframe_number(v),
                          mmu_get_rbit_in_bitmap_value(pt_get_pframe_number(v)),
                          mmu_get_mbit_in_bitmap_value(pt_get_pframe_number(v))),
         UNCHANGED <<fault, pageframe_bitmap, first_level_page_table>>
  PROVE  Legal' /\ Records!TranslateByPageTable(Pair(v), op) /\ (MappingsAgree => MappingsAgree')
<1>1. v \in Word(VPAGE_BITS) /\ TypeOK /\ FramesInRange /\ FramesValid
  BY PagesUsed DEF Legal, FramesInRange
<1>2. v \in PresentPages
  BY <1>1 DEF PresentPages
<1>3. PICK f \in Frames : f = pt_get_pframe_number(v)
  BY <1>1, <1>2 DEF FramesInRange
<1>4. PICK r \in {0, 1}, m \in {0, 1} :
        r = mmu_get_rbit_in_bitmap_value(f) /\ m = mmu_get_mbit_in_bitmap_value(f)
  BY DEF mmu_get_rbit_in_bitmap_value, mmu_get_mbit_in_bitmap_value, BitValue
<1>5. tlb_insert_vpage(v, f, r, m)
  BY <1>3, <1>4
<1>6. /\ tlb' \in [Slots -> Entry] /\ next_vpage_to_check' \in Slots
      /\ mbit_bitmap' \in Bitmap /\ rbit_bitmap' \in Bitmap
      /\ Holds(tlb'[found], v) /\ PFrameOf(tlb'[found]) = f
      /\ \A i \in Slots \ {found} : tlb'[i] = tlb[i]
      /\ Records!tlb_insert_vpage(Pair(v), f, r, m)
  BY <1>1, <1>5, InsertAgrees
<1>7. TypeOK'
  BY <1>1, <1>6 DEF TypeOK
<1>8. /\ PresentPages' = PresentPages
      /\ \A w : pt_get_pframe_number(w)' = pt_get_pframe_number(w)
  BY SamePages
<1>9. FramesInRange' /\ FaultAbsent'
  <2>1. \A i \in Slots : Valid(tlb[i])' => PFrameOf(tlb[i])' \in Frames
    BY <1>1, <1>6 DEF FramesValid, Valid, PFrameOf
  <2>2. \A w \in PresentPages' : pt_get_pframe_number(w)' \in Frames
    BY <1>1, <1>8 DEF FramesInRange
  <2> QED
    BY <2>1, <2>2 DEF FramesInRange, FramesValid, Frames, Slots, Legal, FaultAbsent
<1>10. ASSUME MappingsAgree PROVE MappingsAgree'
  <2>1. FramesDistinct' /\ TlbAgrees
    BY <1>10, FramesKept DEF MappingsAgree
  <2>2. TlbAgrees'
    <3> SUFFICES ASSUME NEW i \in Slots, Valid(tlb[i])'
                 PROVE  (\E w \in PresentPages : Holds(tlb[i], w) /\ PFrameOf(tlb[i]) = pt_get_pframe_number(w))'
      BY DEF TlbAgrees, Slots
    <3>1. CASE i = found
      <4>1. Holds(tlb[i], v)' /\ PFrameOf(tlb[i])' = f
        BY <1>6, <3>1 DEF Holds, PFrameOf
      <4> QED
        BY <1>2, <1>3, <1>8, <4>1
    <3>2. CASE i # found
      <4>1. tlb'[i] = tlb[i]
        BY <1>6, <3>2
      <4>2. PICK w \in PresentPages : Holds(tlb[i], w) /\ PFrameOf(tlb[i]) = pt_get_pframe_number(w)
        BY <2>1, <4>1 DEF TlbAgrees, Valid
      <4>3. Holds(tlb[i], w)' /\ PFrameOf(tlb[i])' = pt_get_pframe_number(w)'
        BY <1>8, <4>1, <4>2 DEF Holds, PFrameOf
      <4> QED
        BY <1>8, <4>2, <4>3
    <3> QED
      BY <3>1, <3>2
  <2> QED
    BY <1>9, <2>1, <2>2 DEF MappingsAgree
<1>11. /\ Records!tlb_miss(Pair(v)) /\ ~ Records!page_fault(Pair(v))
       /\ Records!pt_get_pframe_number(Pair(v)) = f
  BY <1>1, <1>3, HitSlotsAgree, PageAgrees
<1>12. Records!InsertedRBit(f) = r /\ Records!InsertedMBit(f, op) = m
  <2>1. BitmapRecord(rbit_bitmap)[f] = r /\ BitmapRecord(mbit_bitmap)[f] = m
    BY <1>1, <1>4, BitmapBits DEF TypeOK, mmu_get_rbit_in_bitmap_value, mmu_get_mbit_in_bitmap_value
  <2> QED
    BY <2>1 DEF Records!InsertedRBit, Records!InsertedMBit
<1>13. Records!TranslateByPageTable(Pair(v), op)
  BY <1>6, <1>11, <1>12 DEF Records!TranslateByPageTable, BitmapRecord
<1> QED
  BY <1>7, <1>9, <1>10, <1>13 DEF Legal

\* A page fault.
LEMMA FaultStep ==
  ASSUME Legal, NEW v \in VPages, fault = NO_PAGE, tlb_miss(v), page_fault(v), tlb_write_back_r_m_bits,
         fault' = v, UNCHANGED <<tlbVars, pageframe_bitmap, first_level_page_table>>
  PROVE  Legal' /\ Records!PageFault(Pair(v)) /\ (MappingsAgree => MappingsAgree')
<1>1. v \in Word(VPAGE_BITS) /\ TypeOK /\ FramesInRange /\ FramesValid
  BY PagesUsed DEF Legal, FramesInRange
<1>2. /\ mbit_bitmap' \in Bitmap /\ rbit_bitmap' \in Bitmap
      /\ Records!tlb_write_back_r_m_bits
  BY <1>1, WriteBackAgrees
<1>3. TypeOK'
  BY <1>1, <1>2 DEF TypeOK, tlbVars, VPages
<1>4. FramesInRange' /\ FaultAbsent'
  BY <1>1, RangeKept, SamePages DEF tlbVars, FaultAbsent
<1>5. MappingsAgree => MappingsAgree'
  BY <1>4, MappingsKept DEF tlbVars, MappingsAgree
<1>6. Records!tlb_miss(Pair(v)) /\ Records!page_fault(Pair(v))
  BY <1>1, HitSlotsAgree, PageAgrees
<1>7. Records!PageFault(Pair(v))
  BY <1>2, <1>6 DEF Records!PageFault, Records!tlbVars, tlbVars, BitmapRecord, TlbRecord
<1> QED
  BY <1>3, <1>4, <1>5, <1>7 DEF Legal

\* The R bits are cleared.
LEMMA ClockStep ==
  ASSUME Legal, mmu_clear_rbits
  PROVE  Legal' /\ Records!mmu_clear_rbits /\ (MappingsAgree => MappingsAgree')
<1>1. TypeOK /\ tlb_clear_R_bits /\ rbit_bitmap' = [i \in Words |-> {}]
  BY DEF Legal, mmu_clear_rbits
<1>2. UNCHANGED <<next_vpage_to_check, mbit_bitmap, pageframe_bitmap, first_level_page_table, fault>>
  BY DEF mmu_clear_rbits
<1>3. /\ tlb' \in [Slots -> Entry] /\ rbit_bitmap' \in Bitmap
      /\ \A i \in Slots : /\ tlb'[i].vbit_and_vpage = tlb[i].vbit_and_vpage
                          /\ tlb'[i].mr_pframe \cap PFRAME_MASK = tlb[i].mr_pframe \cap PFRAME_MASK
      /\ Records!tlb_clear_R_bits
      /\ BitmapRecord(rbit_bitmap)' = [f \in Records!MappedFrames |-> 0]
  BY <1>1, ClearRAgrees
<1>4. TypeOK'
  BY <1>1, <1>2, <1>3 DEF TypeOK
<1>5. FramesInRange' /\ FaultAbsent'
  BY <1>2, <1>3, RangeKept, SamePages DEF Legal, FaultAbsent
<1>6. MappingsAgree => MappingsAgree'
  BY <1>2, <1>3, <1>5, MappingsKept DEF MappingsAgree
<1>7. Records!mmu_clear_rbits
  BY <1>2, <1>3 DEF Records!mmu_clear_rbits, BitmapRecord
<1> QED
  BY <1>4, <1>5, <1>6, <1>7 DEF Legal

\* The bit of a frame after one is set or cleared.
LEMMA ModifiedValue ==
  ASSUME TypeOK, NEW f \in Frames, NEW val \in {0, 1}, mmu_modify_pageframe_bitmap(f, val)
  PROVE  /\ pageframe_bitmap' \in Bitmap
         /\ \A g \in Frames : mmu_get_pageframe_bitmap_value(g)' =
                                IF g = f THEN val ELSE mmu_get_pageframe_bitmap_value(g)
         /\ BitmapRecord(pageframe_bitmap)' = Records!ModifiedBit(BitmapRecord(pageframe_bitmap), f, val)
<1>1. pageframe_bitmap \in Bitmap /\ pageframe_bitmap' = Modified(pageframe_bitmap, f, val)
  BY DEF TypeOK, mmu_modify_pageframe_bitmap
<1>2. PICK new : new = pageframe_bitmap'
  OBVIOUS
<1>3. new \in Bitmap /\ BitmapRecord(new) = [BitmapRecord(pageframe_bitmap) EXCEPT ![f] = val]
  BY <1>1, <1>2, ModifiedBits
<1>4. /\ \A g \in Frames : BitValue(new, g) = BitmapRecord(new)[g]
      /\ \A g \in Frames : BitValue(pageframe_bitmap, g) = BitmapRecord(pageframe_bitmap)[g]
      /\ BitmapRecord(pageframe_bitmap) \in [Frames -> {0, 1}]
  BY <1>1, <1>3, BitmapBits
<1>5. \A g \in Frames : BitValue(new, g) = IF g = f THEN val ELSE BitValue(pageframe_bitmap, g)
  BY <1>3, <1>4
<1>6. \A g \in Frames : mmu_get_pageframe_bitmap_value(g)' = BitValue(new, g)
  BY <1>2 DEF mmu_get_pageframe_bitmap_value, BitValue
<1>7. BitmapRecord(pageframe_bitmap)' = BitmapRecord(new)
  BY <1>2 DEF BitmapRecord
<1> QED
  BY <1>2, <1>3, <1>5, <1>6, <1>7 DEF mmu_get_pageframe_bitmap_value, Records!ModifiedBit

\* The page that faulted is brought in.
LEMMA InstallStep ==
  ASSUME TablesInRange, Legal, InstallPage
  PROVE  /\ Legal' /\ Records!InstallPage(Pair(fault)) /\ fault \in VPages
         /\ CleanTables /\ MappingsAgree => MappingsAgree'
<1>1. /\ fault # NO_PAGE /\ fault' = NO_PAGE /\ mmu_get_free_page_frame # NO_FREE_PAGEFRAME
      /\ TypeOK /\ FramesInRange /\ FaultAbsent /\ FramesValid
  BY DEF Legal, FramesInRange, InstallPage
<1>2. PICK v \in Word(VPAGE_BITS) : v = fault /\ v \in VPages
  BY <1>1, PagesUsed DEF TypeOK
<1>3. PICK f \in Frames : /\ f = mmu_get_free_page_frame /\ f = Records!mmu_get_free_page_frame
                          /\ mmu_get_pageframe_bitmap_value(f) = 0
  BY <1>1, FreeFrame
<1>4. mmu_modify_pageframe_bitmap(f, 1) /\ pt_update_pagetable(v, f) /\ tlb_insert_vpage(v, f, 0, 0)
  BY <1>2, <1>3 DEF InstallPage
<1>5. page_fault(v)
  BY <1>1, <1>2 DEF FaultAbsent
<1>6. /\ pageframe_bitmap' \in Bitmap
      /\ \A g \in Frames : mmu_get_pageframe_bitmap_value(g)' =
                             IF g = f THEN 1 ELSE mmu_get_pageframe_bitmap_value(g)
      /\ BitmapRecord(pageframe_bitmap)' = Records!ModifiedBit(BitmapRecord(pageframe_bitmap), f, 1)
  BY <1>1, <1>4, ModifiedValue
<1>7. /\ first_level_page_table' \in [Word(INDEX_1_BITS) -> {NULL} \cup SecondLevelTable]
      /\ ~ page_fault(v)' /\ pt_get_pframe_number(v)' = f
      /\ \A w \in Word(VPAGE_BITS) \ {v} : ~ page_fault(w) =>
           ~ page_fault(w)' /\ pt_get_pframe_number(w)' = pt_get_pframe_number(w)
      /\ \A w \in Word(VPAGE_BITS) \ {v} : page_fault(w) /\ ~ page_fault(w)' =>
           ~ CleanTables /\ (TablesInRange => pt_get_pframe_number(w)' \in Frames)
      /\ Records!pt_update_pagetable(Pair(v), f)
  BY <1>1, <1>4, <1>5, UpdateAgrees
<1>8. /\ tlb' \in [Slots -> Entry] /\ next_vpage_to_check' \in Slots
      /\ mbit_bitmap' \in Bitmap /\ rbit_bitmap' \in Bitmap
      /\ Holds(tlb'[found], v) /\ PFrameOf(tlb'[found]) = f
      /\ \A i \in Slots \ {found} : tlb'[i] = tlb[i]
      /\ Records!tlb_insert_vpage(Pair(v), f, 0, 0)
  BY <1>1, <1>4, InsertAgrees
<1>9. TypeOK'
  BY <1>1, <1>6, <1>7, <1>8 DEF TypeOK
<1>10. FramesInRange' /\ FaultAbsent'
  <2>1. \A i \in Slots : Valid(tlb[i])' => PFrameOf(tlb[i])' \in Frames
    BY <1>1, <1>8 DEF FramesValid, Valid, PFrameOf
  <2>2. ASSUME NEW w \in Word(VPAGE_BITS), ~ page_fault(w)'
        PROVE  pt_get_pframe_number(w)' \in Frames
    BY <1>1, <1>7, <2>2 DEF FramesInRange, PresentPages
  <2>3. \A w \in PresentPages' : pt_get_pframe_number(w)' \in Frames
    BY <2>2 DEF PresentPages
  <2> QED
    BY <1>1, <2>1, <2>3 DEF FramesInRange, FramesValid, Frames, Slots, FaultAbsent
<1>11. ASSUME CleanTables, MappingsAgree PROVE MappingsAgree'
  <2>1. FramesDistinct /\ TlbAgrees
    BY <1>11 DEF MappingsAgree
  <2>2. /\ \A w \in PresentPages : /\ w \in PresentPages' /\ w # v /\ w \in Word(VPAGE_BITS)
                                   /\ pt_get_pframe_number(w)' = pt_get_pframe_number(w)
                                   /\ pt_get_pframe_number(w) \in Frames /\ pt_get_pframe_number(w) # f
        /\ \A w \in PresentPages' : w = v \/ w \in PresentPages
        /\ v \in PresentPages'
    BY <1>3, <1>5, <1>7, <1>11, <2>1 DEF PresentPages, FramesDistinct
  <2>3. FramesDistinct'
    <3>1. \A w \in PresentPages' : pt_get_pframe_number(w)' \in Frames
      BY <1>7, <2>2
    <3>2. ASSUME NEW w \in PresentPages'
          PROVE  mmu_get_pageframe_bitmap_value(pt_get_pframe_number(w))' = 1
      <4>1. PICK g \in Frames : g = pt_get_pframe_number(w)'
        BY <3>1
      <4>2. g = f \/ mmu_get_pageframe_bitmap_value(g) = 1
        BY <2>1, <1>7, <2>2, <4>1 DEF FramesDistinct
      <4>3. mmu_get_pageframe_bitmap_value(g)' = 1
        BY <1>6, <4>2
      <4> QED
        BY <4>1, <4>3 DEF mmu_get_pageframe_bitmap_value, BitValue
    <3>3. \A w, u \in PresentPages' : pt_get_pframe_number(w)' = pt_get_pframe_number(u)' => w = u
      BY <2>1, <1>7, <2>2 DEF FramesDistinct
    <3> QED
      BY <3>1, <3>2, <3>3 DEF FramesDistinct
  <2>4. TlbAgrees'
    <3> SUFFICES ASSUME NEW i \in Slots, Valid(tlb[i])'
                 PROVE  (\E w \in PresentPages : Holds(tlb[i], w) /\ PFrameOf(tlb[i]) = pt_get_pframe_number(w))'
      BY DEF TlbAgrees, Slots
    <3>1. CASE i = found
      <4>1. Holds(tlb[i], v)' /\ PFrameOf(tlb[i])' = pt_get_pframe_number(v)'
        BY <1>7, <1>8, <3>1 DEF Holds, PFrameOf
      <4> QED
        BY <2>2, <4>1
    <3>2. CASE i # found
      <4>1. tlb'[i] = tlb[i]
        BY <1>8, <3>2
      <4>2. PICK w \in PresentPages : Holds(tlb[i], w) /\ PFrameOf(tlb[i]) = pt_get_pframe_number(w)
        BY <2>1, <4>1 DEF TlbAgrees, Valid
      <4>3. Holds(tlb[i], w)' /\ PFrameOf(tlb[i])' = pt_get_pframe_number(w)'
        BY <2>2, <4>1, <4>2 DEF Holds, PFrameOf
      <4> QED
        BY <2>2, <4>3
    <3> QED
      BY <3>1, <3>2
  <2> QED
    BY <1>10, <2>3, <2>4 DEF MappingsAgree
<1>12. Records!mmu_get_free_page_frame # NO_FREE_PAGEFRAME
  BY <1>1, <1>3
<1>13. Records!InstallPage(Pair(v))
  BY <1>3, <1>6, <1>7, <1>8, <1>12 DEF Records!InstallPage
<1> QED
  BY <1>2, <1>9, <1>10, <1>11, <1>13 DEF Legal

\* A page is evicted.
LEMMA RemoveStep ==
  ASSUME Legal, NEW v \in VPages, RemovePage(v)
  PROVE  Legal' /\ RecordEviction(v) /\ (MappingsAgree => MappingsAgree')
<1>1. /\ fault # NO_PAGE /\ mmu_get_free_page_frame = NO_FREE_PAGEFRAME /\ ~ page_fault(v)
      /\ pt_clear_page_table_entry(v) /\ tlb_clear_entry(v)
      /\ UNCHANGED <<next_vpage_to_check, rbit_bitmap, mbit_bitmap, fault>>
      /\ TypeOK /\ FramesInRange /\ FaultAbsent /\ v \in Word(VPAGE_BITS)
  BY PagesUsed DEF Legal, RemovePage
<1>2. v \in PresentPages
  BY <1>1 DEF PresentPages
<1>3. PICK f \in Frames : f = pt_get_pframe_number(v)
  BY <1>1, <1>2 DEF FramesInRange
<1>4. mmu_modify_pageframe_bitmap(f, 0)
  BY <1>3 DEF RemovePage
<1>5. /\ pageframe_bitmap' \in Bitmap
      /\ \A g \in Frames : mmu_get_pageframe_bitmap_value(g)' =
                             IF g = f THEN 0 ELSE mmu_get_pageframe_bitmap_value(g)
      /\ BitmapRecord(pageframe_bitmap)' = Records!ModifiedBit(BitmapRecord(pageframe_bitmap), f, 0)
  BY <1>1, <1>4, ModifiedValue
<1>6. /\ first_level_page_table' \in [Word(INDEX_1_BITS) -> {NULL} \cup SecondLevelTable]
      /\ page_fault(v)'
      /\ \A w \in Word(VPAGE_BITS) \ {v} :
           /\ page_fault(w)' <=> page_fault(w)
           /\ ~ page_fault(w) => pt_get_pframe_number(w)' = pt_get_pframe_number(w)
      /\ Records!pt_clear_page_table_entry(Pair(v))
  BY <1>1, ClearPageAgrees
<1>7. /\ tlb' \in [Slots -> Entry]
      /\ \A i \in Slots : Valid(tlb'[i]) => tlb'[i] = tlb[i] /\ ~ Holds(tlb[i], v)
      /\ TlbRecord(tlb)' = Records!tlb_clear_entry(Pair(v))
  BY <1>1, ClearEntryAgrees
<1>8. TypeOK'
  BY <1>1, <1>5, <1>6, <1>7 DEF TypeOK
<1>9. FaultAbsent'
  <2>1. fault \in Word(VPAGE_BITS) /\ page_fault(fault) /\ fault' = fault /\ fault # v
    BY <1>1, PagesUsed DEF TypeOK, FaultAbsent
  <2>2. PICK w \in Word(VPAGE_BITS) : w = fault /\ w = fault'
    BY <2>1
  <2>3. page_fault(w)'
    BY <1>6, <2>1, <2>2
  <2>4. page_fault(fault)'
    BY <2>2, <2>3 DEF page_fault, Table
  <2> QED
    BY <2>4 DEF FaultAbsent
<1>10. FramesInRange'
  <2>1. \A i \in Slots : Valid(tlb[i])' => PFrameOf(tlb[i])' \in Frames
    BY <1>1, <1>7 DEF FramesInRange, FramesValid, Valid, PFrameOf
  <2>2. ASSUME NEW w \in Word(VPAGE_BITS), ~ page_fault(w)'
        PROVE  pt_get_pframe_number(w)' \in Frames
    BY <1>1, <1>6, <2>2 DEF FramesInRange, PresentPages
  <2>3. \A w \in PresentPages' : pt_get_pframe_number(w)' \in Frames
    BY <2>2 DEF PresentPages
  <2> QED
    BY <2>1, <2>3 DEF FramesInRange, FramesValid, Frames, Slots
<1>11. ASSUME MappingsAgree PROVE MappingsAgree'
  <2>1. FramesDistinct /\ TlbAgrees
    BY <1>11 DEF MappingsAgree
  <2>2. /\ \A w \in PresentPages \ {v} : /\ w \in PresentPages' /\ w \in Word(VPAGE_BITS)
                                         /\ pt_get_pframe_number(w)' = pt_get_pframe_number(w)
                                         /\ pt_get_pframe_number(w) \in Frames /\ pt_get_pframe_number(w) # f
        /\ \A w \in PresentPages' : w \in PresentPages \ {v}
    BY <2>1, <1>2, <1>3, <1>6 DEF PresentPages, FramesDistinct
  <2>3. FramesDistinct'
    <3>1. \A w \in PresentPages' : pt_get_pframe_number(w)' \in Frames
      BY <2>2
    <3>2. ASSUME NEW w \in PresentPages'
          PROVE  mmu_get_pageframe_bitmap_value(pt_get_pframe_number(w))' = 1
      <4>1. PICK g \in Frames : g = pt_get_pframe_number(w)'
        BY <3>1
      <4>2. g # f /\ mmu_get_pageframe_bitmap_value(g) = 1
        BY <2>1, <2>2, <4>1 DEF FramesDistinct
      <4>3. mmu_get_pageframe_bitmap_value(g)' = 1
        BY <1>5, <4>2
      <4> QED
        BY <4>1, <4>3 DEF mmu_get_pageframe_bitmap_value, BitValue
    <3>3. \A w, u \in PresentPages' : pt_get_pframe_number(w)' = pt_get_pframe_number(u)' => w = u
      BY <2>1, <2>2 DEF FramesDistinct
    <3> QED
      BY <3>1, <3>2, <3>3 DEF FramesDistinct
  <2>4. TlbAgrees'
    <3> SUFFICES ASSUME NEW i \in Slots, Valid(tlb[i])'
                 PROVE  (\E w \in PresentPages : Holds(tlb[i], w) /\ PFrameOf(tlb[i]) = pt_get_pframe_number(w))'
      BY DEF TlbAgrees, Slots
    <3>1. tlb'[i] = tlb[i] /\ ~ Holds(tlb[i], v) /\ Valid(tlb[i])
      BY <1>7 DEF Valid
    <3>2. PICK w \in PresentPages : Holds(tlb[i], w) /\ PFrameOf(tlb[i]) = pt_get_pframe_number(w)
      BY <2>1, <3>1 DEF TlbAgrees
    <3>3. w # v
      BY <3>1, <3>2
    <3>4. Holds(tlb[i], w)' /\ PFrameOf(tlb[i])' = pt_get_pframe_number(w)'
      BY <2>2, <3>1, <3>2, <3>3 DEF Holds, PFrameOf
    <3> QED
      BY <2>2, <3>2, <3>3, <3>4
  <2> QED
    BY <1>9, <2>3, <2>4 DEF MappingsAgree
<1>12. /\ ~ Records!page_fault(Pair(v)) /\ Records!pt_get_pframe_number(Pair(v)) = f
       /\ Records!mmu_get_free_page_frame = NO_FREE_PAGEFRAME
  BY <1>1, <1>3, PageAgrees, FreeFrame
<1>13. RecordEviction(v)
  BY <1>1, <1>5, <1>6, <1>7, <1>12 DEF RecordEviction, Records!RemovePage, BitmapRecord
<1> QED
  BY <1>8, <1>9, <1>10, <1>11, <1>13 DEF Legal

-----------------------------------------------------------------------------
(* The specification.                                                      *)

\* What tlb_clear_all leaves has the same record as the records it clears.
LEMMA ClearedRecord ==
  ASSUME NEW garbage \in [Slots -> Entry]
  PROVE  LET entries == tlb_clear_all(garbage) IN
         /\ entries \in [Slots -> Entry]
         /\ \A i \in Slots : ~ Valid(entries[i])
         /\ TlbRecord(entries) = Records!tlb_clear_all(TlbRecord(garbage))
<1> DEFINE entries == tlb_clear_all(garbage)
<1>1. ASSUME NEW i \in Slots
      PROVE  /\ entries[i] \in Entry /\ ~ Valid(entries[i])
             /\ EntryRecord(entries[i]) = [EntryRecord(garbage[i]) EXCEPT !.valid = 0]
  <2> DEFINE word == garbage[i].vbit_and_vpage
             new == word \ VBIT_MASK
  <2>1. word \in Word(ENTRY_BITS) /\ garbage[i].mr_pframe \in Word(ENTRY_BITS)
    BY DEF Entry
  <2>2. /\ entries[i] = [vbit_and_vpage |-> new, mr_pframe |-> garbage[i].mr_pframe]
        /\ entries[i].vbit_and_vpage = new /\ entries[i].mr_pframe = garbage[i].mr_pframe
    BY DEF tlb_clear_all, Entry
  <2>3. \A b : b \in new <=> b \in word /\ b # ENTRY_BITS - 1
    BY DEF VBIT_MASK
  <2>4. new \in Word(ENTRY_BITS) /\ ENTRY_BITS - 1 \notin new /\ new \cap VPAGE_MASK = word \cap VPAGE_MASK
    BY <2>1, <2>3, Widths DEF Word, VPAGE_MASK, AllOnes
  <2> HIDE DEF new, word
  <2>5. Pair(new) = Pair(word)
    BY <2>1, <2>4, PairOfEntry
  <2>6. EntryRecord(entries[i]) = [valid |-> 0, vpage |-> Pair(word),
                                   r |-> Bit(garbage[i].mr_pframe, ENTRY_BITS - 2),
                                   m |-> Bit(garbage[i].mr_pframe, ENTRY_BITS - 1),
                                   pframe |-> FrameRecord(garbage[i].mr_pframe)]
    BY <2>2, <2>4, <2>5 DEF EntryRecord, Bit
  <2>7. EntryRecord(entries[i]) = [EntryRecord(garbage[i]) EXCEPT !.valid = 0]
    BY <2>6 DEF EntryRecord, word
  <2> QED
    BY <2>1, <2>2, <2>4, <2>7 DEF Entry, Valid, Has, VBIT_MASK
<1>2. entries = [i \in Slots |-> entries[i]]
  BY DEF tlb_clear_all
<1>3. Records!Slots = Slots
  BY DEF Records!Slots, Slots
<1> HIDE DEF entries
<1>4. TlbRecord(entries) = [i \in Slots |-> [TlbRecord(garbage)[i] EXCEPT !.valid = 0]]
  BY <1>1 DEF TlbRecord
<1>5. entries \in [Slots -> Entry]
  BY <1>1, <1>2
<1> QED
  BY <1>1, <1>3, <1>4, <1>5 DEF Records!tlb_clear_all, entries

\* The invariants hold at the start, which is that of Mmu.
LEMMA InitInv ==
  Init => Legal /\ MappingsAgree /\ Records!mmu_initialize
<1> SUFFICES ASSUME Init PROVE Legal /\ MappingsAgree /\ Records!mmu_initialize
  OBVIOUS
<1>1. PICK garbage \in TlbGarbage : tlb = tlb_clear_all(garbage)
  BY DEF Init
<1>2. /\ garbage \in [Slots -> Entry] /\ tlb \in [Slots -> Entry]
      /\ \A i \in Slots : ~ Valid(tlb[i])
      /\ TlbRecord(tlb) = Records!tlb_clear_all(TlbRecord(garbage))
  BY <1>1, GarbageAssumption, ClearedRecord
<1>3. rbit_bitmap \in Bitmap /\ mbit_bitmap \in Bitmap /\ pageframe_bitmap \in Bitmap
  BY GarbageAssumption DEF Init
<1>4. first_level_page_table = [i1 \in Word(INDEX_1_BITS) |-> NULL] /\ fault = NO_PAGE /\ next_vpage_to_check = 0
  BY DEF Init
<1>5. 0 \in Slots
  BY Widths DEF Slots
<1>6. TypeOK
  BY <1>2, <1>3, <1>4, <1>5 DEF TypeOK
<1>7. \A v \in Word(VPAGE_BITS) : page_fault(v)
  BY <1>4, IndicesOfPage DEF page_fault, Table
<1>8. MappingsAgree /\ FramesInRange /\ FaultAbsent
  BY <1>2, <1>4, <1>7 DEF MappingsAgree, FramesDistinct, TlbAgrees, FaultAbsent, FramesInRange, FramesValid,
                          PresentPages
<1>9. Records!TlbInit
  BY <1>1, <1>2, <1>4 DEF Records!TlbInit
<1>10. Records!BitmapsInit
  <2>1. Records!Bitmap = [Frames -> {0, 1}]
    BY AllMapped DEF Records!Bitmap, Records!Bits
  <2> QED
    BY <1>3, <2>1, BitmapBits DEF Records!BitmapsInit
<1>11. Records!pt_initialize_page_table
  BY <1>4 DEF Records!pt_initialize_page_table, TableRecord
<1> QED
  BY <1>6, <1>8, <1>9, <1>10, <1>11 DEF Legal, Records!mmu_initialize

\* A call of mmu_translate keeps the invariants and is a step of Mmu.
LEMMA TranslateStep ==
  ASSUME Legal, NEW vaddress \in Accessed, NEW op \in {"LOAD", "STORE"}, Translate(vaddress, op)
  PROVE  Legal' /\ RecordStep /\ (MappingsAgree => MappingsAgree')
<1>1. PICK v \in VPages : v = VPageOf(vaddress)
  BY DEF VPages
<1>2. v # NO_PAGE /\ fault = NO_PAGE /\ UNCHANGED <<pageframe_bitmap, first_level_page_table>>
  BY PagesUsed DEF Translate
<1>3. CASE /\ ~ tlb_miss(v) /\ tlb_lookup_vpage(v, op)
           /\ UNCHANGED <<next_vpage_to_check, rbit_bitmap, mbit_bitmap, fault>>
  BY <1>2, <1>3, HitStep DEF RecordStep, RecordAccess
<1>4. CASE /\ tlb_miss(v) /\ ~ page_fault(v)
           /\ tlb_insert_vpage(v, pt_get_pframe_number(v),
                               mmu_get_rbit_in_bitmap_value(pt_get_pframe_number(v)),
                               mmu_get_mbit_in_bitmap_value(pt_get_pframe_number(v)))
           /\ UNCHANGED fault
  BY <1>2, <1>4, MissStep DEF RecordStep, RecordAccess
<1>5. CASE tlb_miss(v) /\ page_fault(v) /\ tlb_write_back_r_m_bits /\ fault' = v /\ UNCHANGED tlbVars
  <2>1. Legal' /\ Records!PageFault(Pair(v)) /\ (MappingsAgree => MappingsAgree')
    BY <1>2, <1>5, FaultStep
  <2>2. PICK w : w = fault'
    OBVIOUS
  <2>3. Records!PageFault(Pair(w))
    BY <1>5, <2>1, <2>2
  <2>4. RecordStep
    BY <1>2, <1>5, <2>2, <2>3 DEF RecordStep
  <2> QED
    BY <2>1, <2>4
<1> QED
  BY <1>1, <1>3, <1>4, <1>5 DEF Translate

\* So does every step.
LEMMA NextStep ==
  ASSUME TablesInRange, Legal, [Next]_vars
  PROVE  /\ Legal' /\ [RecordStep]_vars
         /\ CleanTables /\ MappingsAgree => MappingsAgree'
<1>1. CASE \E vaddress \in Accessed, op \in {"LOAD", "STORE"} : Translate(vaddress, op)
  BY <1>1, TranslateStep
<1>2. CASE mmu_clear_rbits
  <2>1. fault = NO_PAGE /\ fault' = NO_PAGE
    BY <1>2 DEF mmu_clear_rbits
  <2> QED
    BY <1>2, <2>1, ClockStep DEF RecordStep, RecordAccess
<1>3. CASE InstallPage
  <2>1. fault # NO_PAGE /\ fault' = NO_PAGE
    BY <1>3 DEF InstallPage
  <2> QED
    BY <1>3, <2>1, InstallStep DEF RecordStep
<1>4. CASE \E page \in VPages : RemovePage(page)
  <2>1. PICK page \in VPages : RemovePage(page)
    BY <1>4
  <2>2. fault # NO_PAGE /\ fault' = fault
    BY <2>1 DEF RemovePage
  <2> QED
    BY <2>1, <2>2, RemoveStep DEF RecordStep
<1>5. CASE UNCHANGED vars
  <2>1. UNCHANGED <<tlb, next_vpage_to_check, rbit_bitmap, mbit_bitmap, pageframe_bitmap, first_level_page_table, fault>>
    BY <1>5 DEF vars, tlbVars, bitmaps
  <2>2. TypeOK'
    BY <2>1 DEF Legal, TypeOK
  <2>3. FramesInRange' /\ FaultAbsent'
    BY <2>1, SamePages, RangeKept DEF Legal, FaultAbsent
  <2>4. MappingsAgree => MappingsAgree'
    BY <2>1, <2>3, MappingsKept DEF MappingsAgree
  <2> QED
    BY <1>5, <2>2, <2>3, <2>4 DEF Legal
<1> QED
  BY <1>1, <1>2, <1>3, <1>4, <1>5 DEF Next

\* The words keep their widths in every reachable state, whatever the widths are
\* and whatever malloc returned, if it names no frame out of range in an entry
\* that looks present.
THEOREM WordsTypes ==
  ASSUME TablesInRange
  PROVE  Spec => []TypeOK
<1>1. Init => Legal
  BY InitInv
<1>2. Legal /\ [Next]_vars => Legal'
  BY NextStep
<1>3. Legal => TypeOK
  BY DEF Legal
<1> QED
  BY <1>1, <1>2, <1>3, PTL DEF Spec

\* Every step on the words is a step of Mmu on the records they stand for, on
\* new tables as malloc returned them too.
THEOREM WordsImplementRecords ==
  ASSUME TablesInRange
  PROVE  Spec => ImplementsRecords
<1>1. Init => Legal /\ Records!mmu_initialize
  BY InitInv
<1>2. Legal /\ [Next]_vars => Legal' /\ [RecordStep]_vars
  BY NextStep
<1> QED
  BY <1>1, <1>2, PTL DEF Spec, ImplementsRecords

\* Both invariants together, on clean tables.
LEMMA LegalAgree ==
  ASSUME CleanTables
  PROVE  Spec => [](Legal /\ MappingsAgree)
<1>1. Init => Legal /\ MappingsAgree
  BY InitInv
<1>2. Legal /\ MappingsAgree /\ [Next]_vars => (Legal /\ MappingsAgree)'
  BY CleanInRange, NextStep
<1> QED
  BY <1>1, <1>2, PTL DEF Spec

\* On new tables without present bits (page.c:121 does not clear them) a page
\* in memory has a frame of its own that is marked occupied, and a valid TLB
\* entry has the page and frame that the page table has.
THEOREM WordsAgree ==
  ASSUME CleanTables
  PROVE  Spec => []MappingsAgree
<1>1. Legal /\ MappingsAgree => MappingsAgree
  OBVIOUS
<1> QED
  BY <1>1, LegalAgree, PTL

-----------------------------------------------------------------------------
(* Addresses.                                                              *)

\* An address is known by its page and its offset.
LEMMA AddressParts ==
  ASSUME NEW a \in Word(VPAGE_BITS + OFFSET_BITS), NEW b \in Word(VPAGE_BITS + OFFSET_BITS),
         VPageOf(a) = VPageOf(b), a \cap OFFSET_MASK = b \cap OFFSET_MASK
  PROVE  a = b
<1> SUFFICES ASSUME NEW c \in AllOnes(VPAGE_BITS + OFFSET_BITS)
             PROVE  c \in a <=> c \in b
  BY DEF Word
<1>1. CASE c < OFFSET_BITS
  BY <1>1, Widths DEF AllOnes, OFFSET_MASK
<1>2. CASE c >= OFFSET_BITS
  <2>1. PICK d \in AllOnes(VPAGE_BITS) : d = c - OFFSET_BITS /\ d + OFFSET_BITS = c
    BY <1>2, Widths DEF AllOnes
  <2> QED
    BY <2>1, PageOfAddress
<1> QED
  BY <1>1, <1>2, Widths DEF AllOnes

\* The frame and the offset are found again in a physical address.
LEMMA PhysicalParts ==
  ASSUME NEW f \in Frames, NEW a
  PROVE  /\ PhysicalAddress(f, a) \cap OFFSET_MASK = a \cap OFFSET_MASK
         /\ Bits(f) = {b \in AllOnes(FRAME_BITS) : b + OFFSET_BITS \in PhysicalAddress(f, a)}
<1>1. OFFSET_BITS \in Nat /\ Bits(f) \subseteq AllOnes(FRAME_BITS) /\ AllOnes(FRAME_BITS) \subseteq Nat
  BY Widths DEF Bits, AllOnes
<1>2. \A b \in AllOnes(FRAME_BITS) : b + OFFSET_BITS \notin OFFSET_MASK
  BY <1>1 DEF OFFSET_MASK, AllOnes
<1>3. PhysicalAddress(f, a) = {b + OFFSET_BITS : b \in Bits(f)} \cup (a \cap OFFSET_MASK)
  BY DEF PhysicalAddress, ShiftedLeft
<1>4. \A b, c \in AllOnes(FRAME_BITS) : b + OFFSET_BITS = c + OFFSET_BITS => b = c
  BY <1>1
<1> QED
  BY <1>1, <1>2, <1>3, <1>4

\* The TLB answers with the frame of the page table.
LEMMA AnsweredFrame ==
  ASSUME Legal, MappingsAgree, NEW a \in Word(VPAGE_BITS + OFFSET_BITS), ~ page_fault(VPageOf(a))
  PROVE  /\ VPageOf(a) \in PresentPages
         /\ pt_get_pframe_number(VPageOf(a)) \in Frames
         /\ Answer(a) = PhysicalAddress(pt_get_pframe_number(VPageOf(a)), a)
<1>1. PICK v \in Word(VPAGE_BITS) : v = VPageOf(a)
  BY PageOfAddress
<1>2. v \in PresentPages /\ pt_get_pframe_number(v) \in Frames
  BY <1>1 DEF PresentPages, MappingsAgree, FramesDistinct
<1>3. ASSUME ~ tlb_miss(v)
      PROVE  PFrameOf(tlb[Min(HitSlots(v))]) = pt_get_pframe_number(v)
  <2>1. PICK i \in Slots : i = Min(HitSlots(v)) /\ Valid(tlb[i]) /\ Holds(tlb[i], v)
    BY <1>3, HitSlotsAgree DEF Legal, HitSlots
  <2>2. PICK w \in PresentPages : Holds(tlb[i], w) /\ PFrameOf(tlb[i]) = pt_get_pframe_number(w)
    BY <2>1 DEF MappingsAgree, TlbAgrees
  <2>3. w = v
    BY <2>1, <2>2 DEF Holds
  <2> QED
    BY <2>1, <2>2, <2>3
<1> QED
  BY <1>1, <1>2, <1>3 DEF Answer

\* No two addresses of pages in memory are translated to one, and none to
\* another offset, whatever the widths of the fields, on new tables without
\* present bits.
THEOREM WordsDoNotAlias ==
  ASSUME CleanTables
  PROVE  Spec => []NoAliasing
<1> DEFINE mapped == {a \in Word(VPAGE_BITS + OFFSET_BITS) : ~ page_fault(VPageOf(a))}
<1>1. ASSUME Legal, MappingsAgree PROVE NoAliasing
  <2>1. ASSUME NEW a \in mapped
        PROVE  Answer(a) \cap OFFSET_MASK = a \cap OFFSET_MASK
    BY <1>1, AnsweredFrame, PhysicalParts
  <2>2. ASSUME NEW a \in mapped, NEW b \in mapped, Answer(a) = Answer(b)
        PROVE  a = b
    <3>1. PICK f \in Frames : f = pt_get_pframe_number(VPageOf(a)) /\ Answer(a) = PhysicalAddress(f, a)
      BY <1>1, AnsweredFrame
    <3>2. PICK g \in Frames : g = pt_get_pframe_number(VPageOf(b)) /\ Answer(b) = PhysicalAddress(g, b)
      BY <1>1, AnsweredFrame
    <3>3. Bits(f) = Bits(g) /\ a \cap OFFSET_MASK = b \cap OFFSET_MASK
      <4>1. /\ PhysicalAddress(f, a) \cap OFFSET_MASK = a \cap OFFSET_MASK
            /\ Bits(f) = {c \in AllOnes(FRAME_BITS) : c + OFFSET_BITS \in PhysicalAddress(f, a)}
        BY PhysicalParts
      <4>2. /\ PhysicalAddress(g, b) \cap OFFSET_MASK = b \cap OFFSET_MASK
            /\ Bits(g) = {c \in AllOnes(FRAME_BITS) : c + OFFSET_BITS \in PhysicalAddress(g, b)}
        BY PhysicalParts
      <4>3. PhysicalAddress(f, a) = PhysicalAddress(g, b)
        BY <2>2, <3>1, <3>2
      <4> QED
        BY <4>1, <4>2, <4>3
    <3>4. f = g
      BY <3>3, NumberOfBits
    <3>5. VPageOf(a) \in PresentPages /\ VPageOf(b) \in PresentPages
      BY <1>1, AnsweredFrame
    <3>6. VPageOf(a) = VPageOf(b)
      BY <1>1, <3>1, <3>2, <3>4, <3>5 DEF MappingsAgree, FramesDistinct
    <3> QED
      BY <3>3, <3>6, AddressParts
  <2> QED
    BY <2>1, <2>2 DEF NoAliasing
<1> QED
  BY <1>1, LegalAgree, PTL

\* The records meet every assumption of Mmu on its constants.
THEOREM RecordsAreAnMmu ==
  /\ num_page_frames \in Nat \ {0} /\ WORD_BITS \in Nat \ {0} /\ num_tlb_entries \in Nat \ {0}
  /\ NO_FREE_PAGEFRAME \notin Nat
  /\ {Pair(v) : v \in Word(VPAGE_BITS)} \subseteq Records!VPage
  /\ {TlbRecord(garbage) : garbage \in TlbGarbage} \subseteq [Records!Slots -> Records!Entries]
  /\ NULL \notin [Word(INDEX_2_BITS) -> Records!PT_ENTRY]
<1>1. Records!PT_ENTRY = [present : {0, 1}, pframe : Frames]
  BY AllMapped DEF Records!PT_ENTRY, Records!Bits
<1>2. Records!Slots = Slots
  BY DEF Records!Slots, Slots
<1>3. Records!Entries = [valid : {0, 1}, vpage : {Pair(v) : v \in Word(VPAGE_BITS)},
                         r : {0, 1}, m : {0, 1}, pframe : Frames]
  BY AllMapped DEF Records!Entries, Records!Bits
<1>4. ASSUME NEW entry \in Entry PROVE EntryRecord(entry) \in Records!Entries
  <2>1. \A word, b : Bit(word, b) \in {0, 1}
    BY DEF Bit
  <2>2. Pair(entry.vbit_and_vpage) \in {Pair(v) : v \in Word(VPAGE_BITS)}
    BY PairOfEntry DEF Entry
  <2> QED
    BY <1>3, <2>1, <2>2, FrameRecordType DEF EntryRecord
<1>5. \A garbage \in TlbGarbage : TlbRecord(garbage) \in [Slots -> Records!Entries]
  BY <1>4, GarbageAssumption DEF TlbRecord
<1>6. {Pair(v) : v \in Word(VPAGE_BITS)} \subseteq Records!VPage
  BY IndicesOfPage DEF Records!VPage
<1> QED
  BY <1>1, <1>2, <1>5, <1>6, Widths, ValueAssumption

=============================================================================
