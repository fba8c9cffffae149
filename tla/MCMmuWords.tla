----------------------------- MODULE MCMmuWords ------------------------------
(* Small instances of MmuWords for TLC.                                    *)
EXTENDS MmuWords

MCNoFreePageFrame == -1

\* Addresses of three pages.
MCAccessed == {{}, {0, 1}, {0, 1, 2}}

\* Ones and zeroes in turn, or all ones.
MCMixed(bits) == {b \in AllOnes(bits) : b % 2 = 0}

MCTlbGarbage ==
  {[i \in Slots |-> IF i = 0 THEN [vbit_and_vpage |-> {}, mr_pframe |-> MCMixed(ENTRY_BITS)]
                    ELSE [vbit_and_vpage |-> AllOnes(ENTRY_BITS), mr_pframe |-> AllOnes(ENTRY_BITS)]]}

MCBitmapGarbage == {[i \in Words |-> MCMixed(WORD_BITS)]}

\* Zeroes, or ones but for the present bits.
MCCleanTables ==
  {[i2 \in Word(INDEX_2_BITS) |-> {}],
   [i2 \in Word(INDEX_2_BITS) |-> AllOnes(ENTRY_BITS) \ PRES_BIT]}
=============================================================================
