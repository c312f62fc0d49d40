--------------------------- MODULE OamSearch_proofs ---------------------------
(***************************************************************************)
(* What the object search finds, for every OAM, every line, every number   *)
(* of entries and every limit: the first objects of the line, none twice,  *)
(* in the order mode 3 draws them.                                         *)
(***************************************************************************)
EXTENDS OamSearch, TLAPS

\* What the scan has done: every object of the line among the entries looked
\* at is found, once, and nothing else is.
Scanned ==
  /\ \A i \in 1 .. Len(mFoundObjs) : OnLine(mFoundObjs[i]) /\ mFoundObjs[i] < oamPtr
  /\ \A e \in Entries : e < oamPtr /\ OnLine(e) => e \in Found
  /\ \A i, j \in 1 .. Len(mFoundObjs) : i # j => mFoundObjs[i] # mFoundObjs[j]
  /\ pc # "scan" => oamPtr = NumEntries \/ Len(mFoundObjs) = MaxObjs

\* The objects before place k stand before everything behind them.
Settled(k) ==
  \A i, j \in 1 .. Len(mFoundObjs) :
    i < k /\ i < j => Misplaced(mFoundObjs[i], mFoundObjs[j])

\* What the sort has done: the passes finished have settled their places, and
\* the object at idx stands before the ones it has been compared with.
Sorting ==
  /\ pc = "sort" =>
       /\ idx < idx2
       /\ Settled(idx)
       /\ \A j \in 1 .. Len(mFoundObjs) :
            idx < j /\ j < idx2 => Misplaced(mFoundObjs[idx], mFoundObjs[j])
  /\ pc = "done" => Settled(Len(mFoundObjs))

Inv == TypeOK /\ Scanned /\ Sorting

(* An entry's coordinates are numbers.                                     *)
LEMMA EntryBytes ==
  ASSUME TypeOK, NEW e \in Entries
  PROVE  oam[e].x \in Int /\ oam[e].y \in Int
<1>1. oam \in [Entries -> [x : XValues, y : YValues]]
  BY Zenon DEF TypeOK, Oams
<1>2. oam[e] \in [x : XValues, y : YValues]
  BY <1>1
<1>3. oam[e].x \in XValues /\ oam[e].y \in YValues
  BY <1>2
<1>4. XValues \subseteq Int /\ YValues \subseteq Int
  BY BytesAssumption
<1> QED
  BY <1>3, <1>4

(* The comparison of the sort is a strict total order on the entries, for  *)
(* the index decides between two objects at one place.                     *)
LEMMA Order ==
  ASSUME TypeOK, NEW e \in Entries, NEW f \in Entries, NEW g \in Entries
  PROVE  /\ e # f => Misplaced(e, f) \/ Misplaced(f, e)
         /\ Misplaced(e, f) /\ Misplaced(f, g) => Misplaced(e, g)
         /\ Misplaced(e, f) => DrawnBefore(e, f)
<1>1. oam[e].x \in Int /\ oam[f].x \in Int /\ oam[g].x \in Int
  BY EntryBytes
<1>2. e \in Int /\ f \in Int /\ g \in Int
  BY DEF Entries
<1> QED
  BY <1>1, <1>2 DEF Misplaced, DrawnBefore

(* The scan's test finds exactly the objects that show on the line.        *)
LEMMA OnLineShows ==
  ASSUME TypeOK, NEW e \in Entries
  PROVE  OnLine(e) <=> Shows(e)
<1>1. oam[e].y \in Int /\ mLY \in Int
  BY EntryBytes, LinesAssumption DEF TypeOK
<1> QED
  BY <1>1 DEF OnLine, Shows, Height

(* Exchanging two places of a sequence moves nothing else.                 *)
LEMMA Exchange ==
  ASSUME NEW s \in Seq(Entries), NEW a \in 1 .. Len(s), NEW b \in 1 .. Len(s),
         NEW t, t = [s EXCEPT ![a] = s[b], ![b] = s[a]], a # b
  PROVE  /\ t \in Seq(Entries) /\ Len(t) = Len(s)
         /\ t[a] = s[b] /\ t[b] = s[a]
         /\ \A i \in 1 .. Len(s) : i # a /\ i # b => t[i] = s[i]
<1>1. s \in [1 .. Len(s) -> Entries] /\ Len(s) \in Nat
  OBVIOUS
<1>2. t \in [1 .. Len(s) -> Entries]
  BY <1>1
<1>3. t \in Seq(Entries) /\ Len(t) = Len(s)
  BY <1>1, <1>2
<1> QED
  BY <1>1, <1>3

(* A search begins with nothing found and nothing looked at.              *)
LEMMA NothingFound ==
  ASSUME oam \in Oams, mLY \in LineValues, tall \in BOOLEAN, mFoundObjs = <<>>,
         oamPtr = 0, idx \in Nat \ {0}, idx2 \in Nat \ {0}, pc = "scan"
  PROVE  Inv
<1>1. <<>> \in Seq(Entries) /\ Len(<<>>) = 0
  OBVIOUS
<1>2. TypeOK
  BY <1>1, EntriesAssumption DEF TypeOK
<1>3. Scanned
  BY <1>1 DEF Scanned, Entries
<1>4. Sorting
  BY DEF Sorting
<1> QED
  BY <1>2, <1>3, <1>4 DEF Inv

(* The first search begins that way.                                       *)
LEMMA InitInv == Init => Inv
BY NothingFound DEF Init

(* Looking at one more entry, on the line or not, keeps the scan's part.   *)
LEMMA ScanEntryInv ==
  ASSUME Inv, ScanEntry
  PROVE  Inv'
<1> DEFINE f == mFoundObjs
<1>1. /\ pc = "scan" /\ pc' = "scan" /\ oamPtr \in Entries /\ Len(f) < MaxObjs
      /\ oamPtr \in Int /\ Len(f) \in Nat /\ f \in Seq(Entries)
      /\ oamPtr' = oamPtr + 1 /\ UNCHANGED <<oam, mLY, tall, idx, idx2>>
  BY EntriesAssumption DEF Inv, ScanEntry, Room, TypeOK, Entries, input
<1>2. TypeOK'
  <2>1. mFoundObjs' \in Seq(Entries) /\ Len(mFoundObjs') <= MaxObjs
    BY <1>1, EntriesAssumption DEF ScanEntry
  <2>2. oamPtr' \in 0 .. NumEntries
    BY <1>1, EntriesAssumption DEF Entries
  <2>3. oam' \in Oams
    BY <1>1 DEF Inv, TypeOK, Oams, Entries
  <2> QED
    BY <1>1, <2>1, <2>2, <2>3 DEF Inv, TypeOK
<1>3. Sorting'
  BY <1>1 DEF Sorting
<1>4. \A e \in Entries : OnLine(e)' = OnLine(e)
  BY <1>1 DEF OnLine, Height
<1>5. CASE ~OnLine(oamPtr)
  <2>1. mFoundObjs' = f
    BY <1>5 DEF ScanEntry
  <2>2. \A e \in Entries : e < oamPtr' /\ OnLine(e) => e \in Found
    BY <1>1, <1>5 DEF Inv, Scanned, Entries
  <2>3. \A i \in 1 .. Len(f) : f[i] \in Entries /\ OnLine(f[i]) /\ f[i] < oamPtr'
    <3>1. \A i \in 1 .. Len(f) : f[i] \in Entries
      BY <1>1
    <3>2. \A i \in 1 .. Len(f) : OnLine(f[i]) /\ f[i] < oamPtr
      BY DEF Inv, Scanned
    <3> QED
      BY <1>1, <3>1, <3>2 DEF Entries
  <2>4. Scanned'
    BY <1>1, <2>1, <2>2, <2>3 DEF Inv, Scanned, Found, OnLine, Height
  <2> QED
    BY <1>2, <1>3, <2>4 DEF Inv
<1>6. CASE OnLine(oamPtr)
  <2>1. mFoundObjs' = Append(f, oamPtr)
    BY <1>6 DEF ScanEntry
  <2>2. /\ Len(f') = Len(f) + 1 /\ f'[Len(f) + 1] = oamPtr
        /\ \A i \in 1 .. Len(f) : f'[i] = f[i] /\ f[i] \in Entries
    BY <1>1, <2>1
  <2>3. \A i \in 1 .. Len(f') : OnLine(f'[i]) /\ f'[i] < oamPtr'
    <3>1. \A i \in 1 .. Len(f) : OnLine(f[i]) /\ f[i] < oamPtr'
      BY <1>1, <2>2 DEF Inv, Scanned, Entries
    <3> QED
      BY <1>1, <1>6, <2>2, <3>1
  <2>4. \A e \in Entries : e < oamPtr' /\ OnLine(e)' => e \in Found'
    <3> SUFFICES ASSUME NEW e \in Entries, e < oamPtr', OnLine(e)
                 PROVE  \E i \in 1 .. Len(f') : f'[i] = e
      BY <1>4 DEF Found
    <3>1. CASE e = oamPtr
      BY <1>1, <2>2, <3>1
    <3>2. CASE e # oamPtr
      <4>1. e \in Found
        BY <1>1, <3>2 DEF Inv, Scanned, Entries
      <4> QED
        BY <1>1, <2>2, <4>1 DEF Found
    <3> QED
      BY <3>1, <3>2
  <2>5. \A i, j \in 1 .. Len(f') : i # j => f'[i] # f'[j]
    <3>1. \A i \in 1 .. Len(f) : f'[i] < oamPtr
      BY <2>2 DEF Inv, Scanned
    <3>2. \A i, j \in 1 .. Len(f) : i # j => f'[i] # f'[j]
      BY <2>2 DEF Inv, Scanned
    <3> QED
      BY <1>1, <2>2, <3>1, <3>2
  <2>6. Scanned'
    <3>1. \A i \in 1 .. Len(mFoundObjs') : OnLine(mFoundObjs[i])' /\ mFoundObjs'[i] < oamPtr'
      BY <1>1, <2>3 DEF OnLine, Height
    <3> QED
      BY <1>1, <2>4, <2>5, <3>1 DEF Scanned
  <2> QED
    BY <1>2, <1>3, <2>6 DEF Inv
<1> QED
  BY <1>5, <1>6

(* A comparison, with or without an exchange, leaves the settled places    *)
(* alone and puts the earlier of the two objects at idx.                   *)
LEMMA CompareInv ==
  ASSUME Inv, CompareAndExchange
  PROVE  Inv'
<1> DEFINE f == mFoundObjs
           n == Len(mFoundObjs)
<1>1. /\ pc = "sort" /\ pc' = "sort" /\ f \in Seq(Entries) /\ n \in Nat
      /\ idx \in 1 .. n /\ idx2 \in 1 .. n /\ idx < idx2 /\ idx2' = idx2 + 1
      /\ UNCHANGED <<oam, mLY, tall, oamPtr, idx>>
      /\ \A i \in 1 .. n : f[i] \in Entries
  BY DEF Inv, CompareAndExchange, TypeOK, Sorting, input
<1>2. \A d, e \in Entries : /\ OnLine(e)' = OnLine(e)
                            /\ Misplaced(d, e)' = Misplaced(d, e)
  BY <1>1 DEF OnLine, Misplaced, Height
<1>3. /\ Settled(idx)
      /\ \A j \in 1 .. n : idx < j /\ j < idx2 => Misplaced(f[idx], f[j])
  BY <1>1 DEF Inv, Sorting
<1>4. CASE ~Misplaced(f[idx2], f[idx])
  <2>1. f' = f
    BY <1>4 DEF CompareAndExchange
  <2>2. Misplaced(f[idx], f[idx2])
    <3>1. f[idx] # f[idx2]
      BY <1>1 DEF Inv, Scanned
    <3> QED
      BY <1>1, <1>4, <3>1, Order DEF Inv
  <2>3. TypeOK'
    BY <1>1, <2>1 DEF Inv, TypeOK
  <2>4. Scanned'
    BY <1>1, <1>2, <2>1 DEF Inv, Scanned, Found
  <2>5. Settled(idx)'
    BY <1>1, <1>2, <1>3, <2>1 DEF Settled
  <2>6. \A j \in 1 .. n : idx < j /\ j < idx2' => Misplaced(f[idx], f[j])'
    BY <1>1, <1>2, <1>3, <2>1, <2>2
  <2>7. Sorting'
    BY <1>1, <2>1, <2>5, <2>6 DEF Sorting
  <2> QED
    BY <2>3, <2>4, <2>7 DEF Inv
<1>5. CASE Misplaced(f[idx2], f[idx])
  <2>1. f' = [f EXCEPT ![idx] = f[idx2], ![idx2] = f[idx]]
    BY <1>5 DEF CompareAndExchange
  <2>2. /\ f' \in Seq(Entries) /\ Len(f') = n
        /\ f'[idx] = f[idx2] /\ f'[idx2] = f[idx]
        /\ \A i \in 1 .. n : i # idx /\ i # idx2 => f'[i] = f[i]
    BY <1>1, <2>1, Exchange
  <2>3. TypeOK'
    BY <1>1, <2>2 DEF Inv, TypeOK
  <2>4. \A i \in 1 .. n : \E k \in 1 .. n : f'[i] = f[k]
    BY <1>1, <2>2
  <2>5. \A k \in 1 .. n : \E i \in 1 .. n : f'[i] = f[k]
    BY <1>1, <2>2
  <2>6. \A i, j \in 1 .. n : i # j => f'[i] # f'[j]
    <3>1. \A i, j \in 1 .. n : i # j => f[i] # f[j]
      BY DEF Inv, Scanned
    <3> QED
      BY <1>1, <2>2, <3>1
  <2>7. Scanned'
    <3>1. \A i \in 1 .. n : OnLine(f'[i]) /\ f'[i] < oamPtr
      BY <2>4 DEF Inv, Scanned
    <3>2. \A i \in 1 .. n : OnLine(f[i])' /\ f'[i] < oamPtr'
      BY <1>1, <3>1 DEF OnLine, Height
    <3>3. \A e \in Entries : e < oamPtr' /\ OnLine(e)' => e \in Found'
      <4> SUFFICES ASSUME NEW e \in Entries, e < oamPtr, OnLine(e)
                   PROVE  \E i \in 1 .. n : f'[i] = e
        BY <1>1, <1>2, <2>2 DEF Found
      <4>1. PICK k \in 1 .. n : f[k] = e
        BY DEF Inv, Scanned, Found
      <4> QED
        BY <2>5, <4>1
    <3>4. pc' # "scan" => oamPtr' = NumEntries \/ Len(f') = MaxObjs
      BY <1>1, <2>2 DEF Inv, Scanned
    <3> QED
      BY <2>2, <2>6, <3>2, <3>3, <3>4 DEF Scanned
  <2>8. Settled(idx)'
    <3> SUFFICES ASSUME NEW i \in 1 .. n, NEW j \in 1 .. n, i < idx, i < j
                 PROVE  Misplaced(f'[i], f'[j])
      BY <1>1, <1>2, <2>2 DEF Settled
    <3>1. f'[i] = f[i]
      BY <1>1, <2>2
    <3>2. PICK k \in 1 .. n : f'[j] = f[k] /\ i < k
      BY <1>1, <2>2
    <3> QED
      BY <1>1, <1>3, <3>1, <3>2 DEF Settled
  <2>9. \A j \in 1 .. n : idx < j /\ j < idx2' => Misplaced(f'[idx], f'[j])
    <3> SUFFICES ASSUME NEW j \in 1 .. n, idx < j, j < idx2 + 1
                 PROVE  Misplaced(f'[idx], f'[j])
      BY <1>1
    <3>1. CASE j = idx2
      BY <1>5, <2>2, <3>1
    <3>2. CASE j # idx2
      <4>1. Misplaced(f[idx2], f[idx]) /\ Misplaced(f[idx], f[j]) /\ f'[j] = f[j]
        BY <1>1, <1>3, <1>5, <2>2, <3>2
      <4> QED
        BY <1>1, <2>2, <4>1, Order DEF Inv
    <3> QED
      BY <3>1, <3>2
  <2>10. Sorting'
    <3>1. \A j \in 1 .. n : idx < j /\ j < idx2' => Misplaced(f[idx], f[j])'
      BY <1>1, <2>9 DEF Misplaced
    <3> QED
      BY <1>1, <2>2, <2>8, <3>1 DEF Sorting
  <2> QED
    BY <2>3, <2>7, <2>10 DEF Inv
<1> QED
  BY <1>4, <1>5

(* The steps that only move the loops.                                     *)
LEMMA LoopInv ==
  ASSUME Inv, ScanEnds \/ NextPass \/ SortEnds
  PROVE  Inv'
<1>1. /\ UNCHANGED <<oam, mLY, tall, mFoundObjs, oamPtr>>
      /\ Len(mFoundObjs) \in Nat /\ mFoundObjs \in Seq(Entries)
  BY DEF Inv, TypeOK, ScanEnds, NextPass, SortEnds, input
<1>2. TypeOK'
  BY <1>1 DEF Inv, TypeOK, ScanEnds, NextPass, SortEnds
<1>3. \A e \in Entries : OnLine(e)' = OnLine(e)
  BY <1>1 DEF OnLine, Height
<1>4. \A k \in Nat : Settled(k)' = Settled(k)
  BY <1>1 DEF Settled, Misplaced
<1>5. Scanned'
  <2>1. pc' # "scan" => oamPtr = NumEntries \/ Len(mFoundObjs) = MaxObjs
    BY <1>1, EntriesAssumption
    DEF Inv, Scanned, TypeOK, ScanEnds, NextPass, SortEnds, Room
  <2> QED
    BY <1>1, <1>3, <2>1 DEF Inv, Scanned, Found
<1>6. CASE ScanEnds
  BY <1>1, <1>2, <1>4, <1>5, <1>6 DEF Inv, ScanEnds, Sorting, Settled
<1>7. CASE NextPass
  <2>1. Settled(idx + 1)
    BY <1>1, <1>7 DEF Inv, NextPass, Sorting, Settled, TypeOK
  <2> QED
    BY <1>1, <1>2, <1>4, <1>5, <1>7, <2>1 DEF Inv, NextPass, Sorting, TypeOK
<1>8. CASE SortEnds
  <2>1. Settled(Len(mFoundObjs))
    BY <1>1, <1>8 DEF Inv, SortEnds, Sorting, Settled, TypeOK
  <2> QED
    BY <1>1, <1>2, <1>4, <1>5, <1>8, <2>1 DEF Inv, SortEnds, Sorting
<1> QED
  BY <1>6, <1>7, <1>8

(* And so does every later search.                                         *)
LEMMA SearchInv ==
  ASSUME Inv, NextSearch
  PROVE  Inv'
<1>1. oam' \in Oams
  BY DEF Inv, TypeOK, NextSearch, Oams
<1>2. /\ mFoundObjs' = <<>> /\ oamPtr' = 0 /\ pc' = "scan"
      /\ mLY' \in LineValues /\ tall' \in BOOLEAN
      /\ idx' \in Nat \ {0} /\ idx2' \in Nat \ {0}
  BY DEF Inv, TypeOK, NextSearch
<1>3. <<>> \in Seq(Entries) /\ Len(<<>>) = 0
  OBVIOUS
<1>4. TypeOK'
  BY <1>1, <1>2, <1>3, EntriesAssumption DEF TypeOK
<1>5. Scanned'
  BY <1>2, <1>3 DEF Scanned, Entries
<1>6. Sorting'
  BY <1>2 DEF Sorting
<1> QED
  BY <1>4, <1>5, <1>6 DEF Inv

(* The whole invariant, for every number of entries and every limit.       *)
THEOREM Invariance == Spec => []Inv
<1>1. Inv /\ [Next]_vars => Inv'
  <2> SUFFICES ASSUME Inv, [Next]_vars PROVE Inv'
    OBVIOUS
  <2>1. CASE UNCHANGED vars
    <3>1. UNCHANGED <<oam, mLY, tall, mFoundObjs, oamPtr, idx, idx2, pc>>
      BY <2>1 DEF vars, input
    <3>2. TypeOK'
      BY <3>1 DEF Inv, TypeOK
    <3>3. Scanned'
      BY <3>1 DEF Inv, Scanned, Found, OnLine, Height
    <3>4. Sorting'
      BY <3>1 DEF Inv, Sorting, Settled, Misplaced
    <3> QED
      BY <3>2, <3>3, <3>4 DEF Inv
  <2> QED
    BY <2>1, ScanEntryInv, CompareInv, LoopInv, SearchInv DEF Next
<1> QED
  BY <1>1, InitInv, PTL DEF Spec

(* The objects mode 3 draws are sorted, for every OAM.                     *)
THEOREM SortedHolds == Spec => []Sorted
<1>1. Inv => Sorted
  <2> SUFFICES ASSUME Inv, pc = "done", NEW i \in 1 .. Len(mFoundObjs),
                      NEW j \in 1 .. Len(mFoundObjs), i < j
               PROVE  DrawnBefore(mFoundObjs[i], mFoundObjs[j])
    BY DEF Sorted
  <2>1. mFoundObjs[i] \in Entries /\ mFoundObjs[j] \in Entries
    BY DEF Inv, TypeOK
  <2>2. Misplaced(mFoundObjs[i], mFoundObjs[j])
    BY DEF Inv, TypeOK, Sorting, Settled
  <2> QED
    BY <2>1, <2>2, Order DEF Inv
<1> QED
  BY <1>1, Invariance, PTL

(* The objects found are the first of the line, and all unless MaxObjs.    *)
THEOREM SelectionHolds == Spec => []Selection
<1>1. Inv => Selection
  <2> SUFFICES ASSUME Inv, pc = "done" PROVE Selection
    BY DEF Selection
  <2>1. \A i \in 1 .. Len(mFoundObjs) : mFoundObjs[i] \in Entries
    BY DEF Inv, TypeOK
  <2>2. \A e \in Entries : OnLine(e) <=> Shows(e)
    BY OnLineShows DEF Inv
  <2>3. ASSUME NEW e \in Found
        PROVE  Shows(e) /\ \A g \in 0 .. e - 1 : Shows(g) => g \in Found
    <3>1. e \in Entries /\ OnLine(e) /\ e < oamPtr
      BY <2>1, <2>3 DEF Inv, Scanned, Found
    <3>2. \A g \in 0 .. e - 1 : g \in Entries /\ g < oamPtr
      BY <3>1, EntriesAssumption DEF Inv, TypeOK, Entries
    <3> QED
      BY <2>2, <3>1, <3>2 DEF Inv, Scanned
  <2>4. Len(mFoundObjs) < MaxObjs => \A e \in Entries : Shows(e) => e \in Found
    <3> SUFFICES ASSUME Len(mFoundObjs) < MaxObjs, NEW e \in Entries, Shows(e)
                 PROVE  e \in Found
      OBVIOUS
    <3>1. oamPtr = NumEntries
      BY EntriesAssumption DEF Inv, Scanned, TypeOK
    <3> QED
      BY <2>2, <3>1, EntriesAssumption DEF Inv, Scanned, Entries
  <2> QED
    BY <2>3, <2>4 DEF Selection, Inv, Scanned
<1> QED
  BY <1>1, Invariance, PTL
=============================================================================
