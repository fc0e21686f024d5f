---------------------------- MODULE AdmissionProofs ----------------------------
(***************************************************************************)
(* What a node lets in: a frame by its number (ReplayWindow), a peer by    *)
(* its key (TrustStore), an inbound connection by its address (Punch).     *)
(*                                                                         *)
(* For every word size, every number of words and every set of sequence    *)
(* numbers, the bitmap of internal/proto/replay.go implements the set of   *)
(* ReplaySet, and therefore never accepts a number twice.                  *)
(*                                                                         *)
(* For any keys and names: only Verify makes a key verified, whatever the  *)
(* renames, changed keys, failed saves and restarts; what an operation     *)
(* reported as saved is what a restart finds; and the level of trust that  *)
(* a connection was given is the one that is shown for it later.           *)
(* VerifiedByUser is inductive once the file is part of it: Restart puts   *)
(* the file back in memory, so a verified record in the file must have     *)
(* been approved as well.                                                  *)
(*                                                                         *)
(* For any number of punches, addresses and connections: a connection that *)
(* was accepted or dialled is in one place, and a punch returns a          *)
(* connection of its own peer.  A step moves one connection from one place *)
(* to another (OneMoves), makes one (OneMade) or moves none (NothingMoves).*)
(***************************************************************************)
EXTENDS ReplayWindow, TrustStore, Punch, TLAPS

-----------------------------------------------------------------------------
(* Division with remainder, which addresses a bit of the bitmap.           *)

\* A number is its quotient times the divisor plus its remainder.
LEMMA DivMod ==
  ASSUME NEW a \in Nat, NEW B \in Nat \ {0}
  PROVE  /\ a \div B \in Nat
         /\ a % B \in 0 .. B - 1
         /\ a = ((a \div B) * B) + (a % B)
  OBVIOUS

\* Quotient and remainder are determined by the number.
LEMMA DivUnique ==
  ASSUME NEW q \in Int, NEW p \in Int, NEW B \in Nat \ {0},
         NEW r \in 0 .. B - 1, NEW s \in 0 .. B - 1,
         (q * B) + r = (p * B) + s
  PROVE  q = p /\ r = s
<1>1. CASE q < p
  <2>1. p - q >= 1 /\ (p - q) * B >= B BY <1>1
  <2>2. QED BY <2>1
<1>2. CASE q > p
  <2>1. q - p >= 1 /\ (q - p) * B >= B BY <1>2
  <2>2. QED BY <2>1
<1>3. QED BY <1>1, <1>2

\* A number below B * n has a quotient below n: an age inside the window
\* addresses a word of the bitmap (bitIndex never leaves the array).
LEMMA DivBound ==
  ASSUME NEW a \in Nat, NEW B \in Nat \ {0}, NEW n \in Nat, a < B * n
  PROVE  a \div B \in 0 .. n - 1
<1> DEFINE q == a \div B
<1>1. q \in Nat /\ a >= q * B
  BY DivMod
<1> HIDE DEF q
<1>2. q >= n => (q - n) * B >= 0
  BY <1>1
<1>3. q < n
  BY <1>1, <1>2
<1>4. QED BY <1>1, <1>3 DEF q

\* Where the bit of a given age is.
LEMMA Position ==
  ASSUME NEW age \in 0 .. windowSize - 1
  PROVE  /\ age \div WordBits \in 0 .. Words - 1
         /\ age % WordBits \in Bits
         /\ age = ((age \div WordBits) * WordBits) + (age % WordBits)
<1>1. age \in Nat /\ age < WordBits * Words
  BY SizeAssumption DEF windowSize
<1>2. QED BY Zenon, <1>1, SizeAssumption, DivMod, DivBound DEF Bits

\* windowSize is a positive number.
LEMMA WindowPositive == windowSize \in Nat \ {0}
  BY SizeAssumption DEF windowSize

\* The bit at (q, r) is the bit of age q * WordBits + r.
LEMMA SeenAt ==
  ASSUME NEW map, NEW age \in Nat, NEW q \in Int, NEW r \in Bits,
         age = (q * WordBits) + r
  PROVE  Seen(map, age) = map[q][r]
<1>1. age \div WordBits = q /\ age % WordBits = r
  <2>1. WordBits \in Nat \ {0} /\ r \in 0 .. WordBits - 1
    BY Zenon, SizeAssumption DEF Bits
  <2> DEFINE p == age \div WordBits
             s == age % WordBits
  <2>2. p \in Nat /\ s \in 0 .. WordBits - 1 /\ age = (p * WordBits) + s
    BY Zenon, <2>1, DivMod
  <2> HIDE DEF p, s
  <2>3. p = q /\ s = r
    BY <2>1, <2>2, DivUnique
  <2>4. QED BY Zenon, <2>3 DEF p, s
<1>2. QED BY Zenon, <1>1 DEF Seen

-----------------------------------------------------------------------------
Bitmap == [0 .. Words - 1 -> Word]

\* slide moves the bit of every age up by `shift` and clears the new ones.
LEMMA SlideSpec ==
  ASSUME NEW map \in Bitmap, NEW shift \in Nat \ {0}
  PROVE  /\ Slide(map, shift) \in Bitmap
         /\ \A age \in 0 .. windowSize - 1 :
              Seen(Slide(map, shift), age) <=> (age >= shift /\ Seen(map, age - shift))
<1> DEFINE words == shift \div WordBits
           bits  == shift % WordBits
<1>1. words \in Nat /\ bits \in Bits /\ shift = (words * WordBits) + bits
  BY Zenon, SizeAssumption, DivMod DEF Bits
<1>2. CASE shift >= windowSize
  <2>1. Slide(map, shift) = ZeroBitmap
    BY Zenon, <1>2 DEF Slide
  <2>2. ZeroBitmap \in Bitmap
    BY Zenon DEF ZeroBitmap, ZeroWord, Bitmap, Word
  <2>3. \A age \in 0 .. windowSize - 1 : ~Seen(ZeroBitmap, age) /\ ~(age >= shift)
    BY <1>2, Position, WindowPositive DEF Seen, ZeroBitmap, ZeroWord
  <2>4. QED BY Zenon, <2>1, <2>2, <2>3
<1>3. CASE ~(shift >= windowSize)
  <2> HIDE DEF words, bits
  <2>1. Slide(map, shift) = [i \in 0 .. Words - 1 |-> SlidWord(map, words, bits, i)]
    BY Zenon, <1>3 DEF Slide, words, bits
  <2>2. ASSUME NEW i \in 0 .. Words - 1
        PROVE  SlidWord(map, words, bits, i) \in Word
    <3>1. CASE i - words < 0
      BY Zenon, <3>1 DEF SlidWord, ZeroWord, Word
    <3>2. CASE i - words >= 0
      <4>1. i - words \in 0 .. Words - 1
        BY <3>2, <1>1, SizeAssumption
      <4>2. Shl(map[i - words], bits) \in Word
        <5>1. map[i - words] \in Word
          BY Zenon, <4>1 DEF Bitmap
        <5>2. \A b \in Bits : b >= bits => b - bits \in Bits
          BY <1>1, SizeAssumption DEF Bits
        <5>3. QED BY Zenon, <5>1, <5>2 DEF Word, Shl
      <4>3. ASSUME i - words - 1 >= 0
            PROVE  Or(Shl(map[i - words], bits), Shr(map[i - words - 1], WordBits - bits)) \in Word
        <5>1. Shr(map[i - words - 1], WordBits - bits) \in Word
          <6>1. map[i - words - 1] \in Word
            BY <4>1, <4>3, <1>1, SizeAssumption DEF Bitmap
          <6>2. \A b \in Bits : b + (WordBits - bits) < WordBits => b + (WordBits - bits) \in Bits
            BY <1>1, SizeAssumption DEF Bits
          <6>3. QED BY Zenon, <6>1, <6>2 DEF Word, Shr
        <5>2. QED BY Zenon, <4>2, <5>1 DEF Or, Word
      <4>4. QED
        BY <3>2, <4>2, <4>3, <1>1, SizeAssumption DEF SlidWord
    <3>3. QED BY <3>1, <3>2, <1>1, SizeAssumption
  <2>3. Slide(map, shift) \in Bitmap
    BY Zenon, <2>1, <2>2 DEF Bitmap
  <2>4. ASSUME NEW age \in 0 .. windowSize - 1
        PROVE  Seen(Slide(map, shift), age) <=> (age >= shift /\ Seen(map, age - shift))
    <3> DEFINE i == age \div WordBits
               b == age % WordBits
    <3>1. i \in 0 .. Words - 1 /\ b \in Bits /\ age = (i * WordBits) + b
      BY Zenon, Position
    <3> HIDE DEF i, b
    <3>2. Seen(Slide(map, shift), age) = SlidWord(map, words, bits, i)[b]
      BY Zenon, <2>1, <3>1 DEF Seen, i, b
    <3>3. age - shift = ((i - words) * WordBits) + (b - bits)
      BY <1>1, <3>1, SizeAssumption DEF Bits
    <3>4. CASE i < words
      <4>1. (words - i) * WordBits >= WordBits
        BY <1>1, <3>1, <3>4, SizeAssumption
      <4>2. age < shift
        BY <1>1, <3>1, <4>1, SizeAssumption DEF Bits
      <4>3. ~SlidWord(map, words, bits, i)[b]
        BY <1>1, <3>1, <3>4 DEF SlidWord, ZeroWord
      <4>4. QED BY <3>2, <4>2, <4>3, <1>1, <2>4, WindowPositive
    <3>5. CASE i >= words /\ b >= bits
      <4>1. b - bits \in Bits /\ i - words \in 0 .. Words - 1
        BY <1>1, <3>1, <3>5, SizeAssumption DEF Bits
      <4>2. (i - words) * WordBits >= 0
        BY <4>1, SizeAssumption
      <4>3. age - shift \in Nat
        BY <3>3, <4>1, <4>2, SizeAssumption DEF Bits
      <4>4. Seen(map, age - shift) = map[i - words][b - bits]
        BY <3>3, <4>1, <4>3, SeenAt
      <4>5. SlidWord(map, words, bits, i)[b] = map[i - words][b - bits]
        <5>1. CASE bits # 0 /\ i - words - 1 >= 0
          <6>1. b + (WordBits - bits) >= WordBits
            BY <3>5, <1>1, <3>1, SizeAssumption DEF Bits
          <6>2. map[i - words] \in Word
            BY Zenon, <4>1 DEF Bitmap
          <6>3. QED
            BY <5>1, <6>1, <6>2, <3>5, <1>1, <3>1, <4>1, SizeAssumption
            DEF SlidWord, Or, Shl, Shr, Bits, Word
        <5>2. CASE ~(bits # 0 /\ i - words - 1 >= 0)
          BY <5>2, <3>5, <1>1, <3>1, <4>1, SizeAssumption DEF SlidWord, Shl, Bits
        <5>3. QED BY Zenon, <5>1, <5>2
      <4>6. QED BY <3>2, <4>3, <4>4, <4>5, <1>1, <2>4, WindowPositive
    <3>6. CASE i >= words /\ b < bits
      <4>0. bits # 0 /\ (b - bits) + WordBits \in Bits
        BY <1>1, <3>1, <3>6, SizeAssumption DEF Bits
      <4>1. age - shift = ((i - words - 1) * WordBits) + ((b - bits) + WordBits)
        BY <3>3, <1>1, <3>1, SizeAssumption DEF Bits
      <4>2. CASE i = words
        <5>1. age < shift
          BY <4>2, <3>3, <3>6, <1>1, <3>1, SizeAssumption DEF Bits
        <5>2. ~SlidWord(map, words, bits, i)[b]
          <6>1. i - words = 0 /\ ~(0 - 1 >= 0) /\ ~(b >= bits)
            BY <4>2, <3>6, <1>1, <3>1, SizeAssumption DEF Bits
          <6>2. SlidWord(map, words, bits, i) = Shl(map[0], bits)
            BY <6>1 DEF SlidWord
          <6>3. QED BY Zenon, <6>1, <6>2, <3>1 DEF Shl
        <5>3. QED BY <3>2, <5>1, <5>2, <1>1, <2>4, WindowPositive
      <4>3. CASE i > words
        <5>1. i - words - 1 \in 0 .. Words - 1 /\ (i - words - 1) * WordBits >= 0
          BY <4>3, <1>1, <3>1, SizeAssumption
        <5>2. age - shift \in Nat
          BY <4>0, <4>1, <5>1, SizeAssumption DEF Bits
        <5>3. Seen(map, age - shift) = map[i - words - 1][(b - bits) + WordBits]
          BY <4>0, <4>1, <5>1, <5>2, SeenAt
        <5>4. SlidWord(map, words, bits, i)[b] = map[i - words - 1][(b - bits) + WordBits]
          <6>1. map[i - words - 1] \in Word
            BY Zenon, <5>1 DEF Bitmap
          <6>2. QED
            BY <6>1, <4>0, <4>3, <5>1, <3>6, <1>1, <3>1, SizeAssumption
            DEF SlidWord, Or, Shl, Shr, Bits, Word
        <5>5. QED BY <3>2, <5>2, <5>3, <5>4, <1>1, <2>4, WindowPositive
      <4>4. QED BY <4>2, <4>3, <3>6, <1>1, <3>1
    <3>7. QED BY <3>4, <3>5, <3>6, <1>1, <3>1, SizeAssumption DEF Bits
  <2>5. QED BY Zenon, <2>3, <2>4
<1>4. QED BY Zenon, <1>2, <1>3

\* mark sets the bit of one age and no other.
LEMMA MarkSpec ==
  ASSUME NEW map \in Bitmap, NEW k \in 0 .. windowSize - 1
  PROVE  /\ Mark(map, k) \in Bitmap
         /\ \A age \in 0 .. windowSize - 1 :
              Seen(Mark(map, k), age) <=> (age = k \/ Seen(map, age))
<1>1. k \div WordBits \in 0 .. Words - 1 /\ k % WordBits \in Bits
  BY Zenon, Position
<1>2. Mark(map, k) \in Bitmap
  BY Zenon, <1>1 DEF Mark, Bitmap, Word
<1>3. ASSUME NEW age \in 0 .. windowSize - 1
      PROVE  Seen(Mark(map, k), age) <=> (age = k \/ Seen(map, age))
  <2>1. age \div WordBits \in 0 .. Words - 1 /\ age % WordBits \in Bits
    BY Zenon, Position
  <2>2. (age \div WordBits = k \div WordBits /\ age % WordBits = k % WordBits) <=> age = k
    <3>1. /\ age = ((age \div WordBits) * WordBits) + (age % WordBits)
          /\ k = ((k \div WordBits) * WordBits) + (k % WordBits)
      BY Zenon, Position
    <3>2. QED BY Zenon, <3>1
  <2>3. QED
    BY Zenon, <1>1, <2>1, <2>2 DEF Seen, Mark, Bitmap, Word
<1>4. QED BY Zenon, <1>2, <1>3

-----------------------------------------------------------------------------
(* The inductive invariant adds to BitmapMeansAccepted that `highest` is   *)
(* the greatest number accepted: without it nothing relates the numbers    *)
(* that have left the window to the ones that are still in it.             *)

HighestIsGreatest ==
  IF started THEN highest \in accepted /\ \A a \in accepted : a <= highest
             ELSE accepted = {}

IInv == TypeOK /\ BitmapMeansAccepted /\ HighestIsGreatest

\* The zero value of replayWindow satisfies the inductive invariant.
LEMMA InitIInv == Init => IInv
<1> SUFFICES ASSUME Init PROVE IInv
  BY Zenon
<1>1. ZeroBitmap \in [0 .. Words - 1 -> Word]
  BY Zenon DEF ZeroBitmap, ZeroWord, Word
<1>2. TypeOK
  BY Zenon, <1>1 DEF Init, TypeOK
<1>3. BitmapMeansAccepted
  BY Zenon, Position DEF Init, BitmapMeansAccepted, Seen, ZeroBitmap, ZeroWord
<1>4. HighestIsGreatest
  BY Zenon DEF Init, HighestIsGreatest
<1>5. QED BY Zenon, <1>2, <1>3, <1>4 DEF IInv

\* check() keeps the invariant: one case per branch of its switch.
LEMMA CheckKeepsIInv ==
  ASSUME IInv, NEW seq \in Seqs, check(seq)
  PROVE  IInv'
<1>1. seq \in Nat /\ bitmap \in Bitmap /\ highest \in Nat
  BY Zenon, SizeAssumption DEF IInv, TypeOK, Bitmap
<1>2. 0 \in 0 .. windowSize - 1
  BY WindowPositive
<1> USE DEF IInv
<1>3. CASE CheckFirst(seq)
  <2>1. bitmap' \in Bitmap
    BY Zenon, <1>1, <1>2, <1>3, MarkSpec DEF CheckFirst
  <2>2. TypeOK'
    BY Zenon, <2>1, <1>1, <1>3 DEF CheckFirst, Answer, TypeOK, Bitmap
  <2>3. HighestIsGreatest'
    BY <1>1, <1>3 DEF CheckFirst, Answer, HighestIsGreatest
  <2>4. ASSUME NEW age \in 0 .. windowSize - 1
        PROVE  Seen(bitmap', age) <=> (started' /\ highest' - age \in accepted')
    <3>1. Seen(bitmap', age) <=> (age = 0 \/ Seen(bitmap, age))
      BY Zenon, <1>1, <1>2, <1>3, MarkSpec DEF CheckFirst
    <3>2. ~Seen(bitmap, age)
      BY Zenon, <1>3 DEF CheckFirst, BitmapMeansAccepted
    <3>3. highest' - age \in accepted' <=> age = 0
      BY <1>1, <1>3, WindowPositive DEF CheckFirst, Answer, HighestIsGreatest
    <3>4. QED BY Zenon, <3>1, <3>2, <3>3, <1>3 DEF CheckFirst
  <2>5. QED BY Zenon, <2>2, <2>3, <2>4 DEF BitmapMeansAccepted
<1>4. CASE CheckAhead(seq)
  <2> DEFINE shift == seq - highest
             slid  == Slide(bitmap, shift)
  <2>1. shift \in Nat \ {0}
    BY <1>1, <1>4 DEF CheckAhead
  <2>2. slid \in Bitmap
    BY Zenon, <1>1, <2>1, SlideSpec
  <2>3. bitmap' = Mark(slid, 0)
    BY Zenon, <1>4 DEF CheckAhead
  <2>4. bitmap' \in Bitmap
    BY Zenon, <1>2, <2>2, <2>3, MarkSpec
  <2>5. TypeOK'
    BY Zenon, <2>4, <1>1, <1>4 DEF CheckAhead, Answer, TypeOK, Bitmap
  <2>6. HighestIsGreatest'
    BY <1>1, <1>4 DEF CheckAhead, Answer, HighestIsGreatest, TypeOK
  <2>7. ASSUME NEW age \in 0 .. windowSize - 1
        PROVE  Seen(bitmap', age) <=> (started' /\ highest' - age \in accepted')
    <3>1. Seen(bitmap', age) <=> (age = 0 \/ Seen(slid, age))
      BY Zenon, <1>2, <2>2, <2>3, MarkSpec
    <3>2. Seen(slid, age) <=> (age >= shift /\ Seen(bitmap, age - shift))
      BY Zenon, <1>1, <2>1, SlideSpec
    <3>3. started /\ started' /\ highest' = seq /\ accepted' = accepted \cup {seq}
      BY Zenon, <1>4 DEF CheckAhead, Answer
    <3>4. CASE age >= shift
      <4>1. age - shift \in 0 .. windowSize - 1
        BY <3>4, <1>1, <2>1, WindowPositive
      <4>2. Seen(bitmap, age - shift) <=> highest - (age - shift) \in accepted
        BY Zenon, <4>1, <3>3 DEF BitmapMeansAccepted
      <4>3. highest - (age - shift) = seq - age /\ age # 0 /\ seq - age # seq
        BY <3>4, <1>1, <2>1, WindowPositive
      <4>4. QED BY Zenon, <3>1, <3>2, <3>3, <3>4, <4>2, <4>3
    <3>5. CASE ~(age >= shift)
      <4>1. seq - age > highest
        BY <3>5, <1>1, <2>1, WindowPositive
      <4>2. seq - age \notin accepted
        BY <4>1, <3>3, <1>1 DEF HighestIsGreatest, TypeOK
      <4>3. seq - age = seq <=> age = 0
        BY <1>1, WindowPositive
      <4>4. QED BY Zenon, <3>1, <3>2, <3>3, <3>5, <4>2, <4>3
    <3>6. QED BY Zenon, <3>4, <3>5
  <2>8. QED BY <2>5, <2>6, <2>7 DEF BitmapMeansAccepted
<1>5. CASE CheckLate(seq)
  <2> DEFINE k == highest - seq
  <2>1. k \in 0 .. windowSize - 1
    BY <1>1, <1>5, WindowPositive DEF CheckLate, Unseen
  <2>2. bitmap' = Mark(bitmap, k)
    BY Zenon, <1>5 DEF CheckLate
  <2>3. bitmap' \in Bitmap
    BY Zenon, <1>1, <2>1, <2>2, MarkSpec
  <2>4. TypeOK'
    BY Zenon, <2>3, <1>1, <1>5 DEF CheckLate, Answer, TypeOK, Bitmap
  <2>5. HighestIsGreatest'
    BY Zenon, <1>1, <1>5 DEF CheckLate, Answer, HighestIsGreatest
  <2>6. ASSUME NEW age \in 0 .. windowSize - 1
        PROVE  Seen(bitmap', age) <=> (started' /\ highest' - age \in accepted')
    <3>1. Seen(bitmap', age) <=> (age = k \/ Seen(bitmap, age))
      BY Zenon, <1>1, <2>1, <2>2, MarkSpec
    <3>2. Seen(bitmap, age) <=> (started /\ highest - age \in accepted)
      BY Zenon DEF BitmapMeansAccepted
    <3>3. age = k <=> highest - age = seq
      BY <1>1, WindowPositive
    <3>4. started /\ started' /\ highest' = highest /\ accepted' = accepted \cup {seq}
      BY Zenon, <1>5 DEF CheckLate, Answer
    <3>5. QED BY Zenon, <3>1, <3>2, <3>3, <3>4
  <2>7. QED BY <2>4, <2>5, <2>6 DEF BitmapMeansAccepted
<1>6. CASE CheckRefused(seq)
  <2>1. TypeOK'
    BY Zenon, <1>1, <1>6 DEF CheckRefused, Answer, TypeOK
  <2>2. BitmapMeansAccepted' /\ HighestIsGreatest'
    BY Zenon, <1>6 DEF CheckRefused, Answer, BitmapMeansAccepted, HighestIsGreatest, Seen
  <2>3. QED BY Zenon, <2>1, <2>2
<1>7. QED BY Zenon, <1>3, <1>4, <1>5, <1>6 DEF check

\* The inductive invariant holds in every reachable state.
LEMMA InvariantHolds == Spec => []IInv
<1>1. IInv /\ [Next]_vars => IInv'
  <2> SUFFICES ASSUME IInv, [Next]_vars PROVE IInv'
    BY Zenon
  <2>1. CASE Next
    BY Zenon, <2>1, CheckKeepsIInv DEF Next
  <2>2. CASE UNCHANGED vars
    BY Zenon, <2>2 DEF vars, IInv, TypeOK, BitmapMeansAccepted, HighestIsGreatest, Seen
  <2>3. QED BY Zenon, <2>1, <2>2
<1>2. QED BY InitIInv, <1>1, PTL DEF Spec

\* The fields keep their types, and the bitmap remembers exactly the accepted
\* numbers of the last windowSize, in every reachable state.
THEOREM BitmapCorrect == Spec => [](TypeOK /\ BitmapMeansAccepted)
<1>1. IInv => TypeOK /\ BitmapMeansAccepted
  BY Zenon DEF IInv
<1>2. QED BY InvariantHolds, <1>1, PTL

\* In a state of the invariant, check() answers as the set does.
LEMMA CheckAnswersAsSet ==
  ASSUME IInv, NEW seq \in Seqs, check(seq)
  PROVE  Abstract!check(seq)
<1>1. /\ seq \in Nat /\ highest \in Nat /\ windowSize \in Nat \ {0}
      /\ accepted \subseteq Nat
  BY Zenon, SizeAssumption, WindowPositive DEF IInv, TypeOK
<1> USE DEF IInv
<1>2. CASE CheckFirst(seq)
  BY Zenon, <1>1, <1>2 DEF CheckFirst, Answer, HighestIsGreatest, Abstract!check, Abstract!Fresh
<1>3. CASE CheckAhead(seq)
  <2>1. Abstract!Fresh(seq)
    BY <1>1, <1>3 DEF CheckAhead, HighestIsGreatest, Abstract!Fresh
  <2>2. QED BY Zenon, <1>3, <2>1 DEF CheckAhead, Answer, Abstract!check
<1>4. CASE CheckLate(seq)
  <2>1. highest - seq \in 0 .. windowSize - 1 /\ highest - (highest - seq) = seq
    BY <1>1, <1>4 DEF CheckLate, Unseen
  <2>2. seq \notin accepted
    BY Zenon, <1>4, <2>1 DEF CheckLate, Unseen, BitmapMeansAccepted
  <2>3. Abstract!Fresh(seq)
    BY <1>1, <1>4, <2>1, <2>2 DEF CheckLate, HighestIsGreatest, Abstract!Fresh
  <2>4. QED BY Zenon, <1>4, <2>3 DEF CheckLate, Answer, Abstract!check
<1>5. CASE CheckRefused(seq)
  <2>1. started /\ seq <= highest /\ highest \in accepted
    BY Zenon, <1>5 DEF CheckRefused, HighestIsGreatest
  <2>2. CASE highest - seq >= windowSize
    <3>1. Abstract!Fresh(seq) = FALSE
      BY <1>1, <2>1, <2>2 DEF Abstract!Fresh
    <3>2. QED BY Zenon, <1>5, <3>1 DEF CheckRefused, Answer, Abstract!check
  <2>3. CASE highest - seq < windowSize
    <3>1. highest - seq \in 0 .. windowSize - 1 /\ highest - (highest - seq) = seq
      BY <1>1, <2>1, <2>3
    <3>2. seq \in accepted
      BY Zenon, <1>5, <2>1, <2>3, <3>1 DEF CheckRefused, Unseen, BitmapMeansAccepted
    <3>3. QED BY Zenon, <1>5, <3>2 DEF CheckRefused, Answer, Abstract!check, Abstract!Fresh
  <2>4. QED BY <1>1, <2>2, <2>3
<1>6. QED BY Zenon, <1>2, <1>3, <1>4, <1>5 DEF check

\* The word-level window implements the set-based specification.
THEOREM WindowImplementsSet == Spec => ImplementsReplaySet
<1>1. Init => Abstract!Init
  BY Zenon DEF Init, Abstract!Init, Abstract!NoAnswer
<1>2. IInv /\ [Next]_vars => [Abstract!Next]_(Abstract!vars)
  <2> SUFFICES ASSUME IInv, [Next]_vars PROVE [Abstract!Next]_(Abstract!vars)
    BY Zenon
  <2>1. CASE Next
    BY Zenon, <2>1, CheckAnswersAsSet DEF Next, Abstract!Next
  <2>2. CASE UNCHANGED vars
    BY Zenon, <2>2 DEF vars, Abstract!vars
  <2>3. QED BY Zenon, <2>1, <2>2
<1>3. QED BY InvariantHolds, <1>1, <1>2, PTL DEF Spec, ImplementsReplaySet, Abstract!Spec

\* No sequence number is accepted twice.
THEOREM AcceptedAtMostOnce == Spec => NeverAcceptedTwice
<1>1. IInv /\ [Next]_vars => [last'.ok => last'.seq \notin accepted]_vars
  <2> SUFFICES ASSUME IInv, Next PROVE last'.ok => last'.seq \notin accepted
    BY Zenon
  <2>1. PICK seq \in Seqs : Abstract!check(seq)
    BY Zenon, CheckAnswersAsSet DEF Next
  <2>2. QED BY Zenon, <2>1 DEF Abstract!check, Abstract!Fresh
<1>2. QED BY InvariantHolds, <1>1, PTL DEF Spec, NeverAcceptedTwice

-----------------------------------------------------------------------------
(* The trust store.                                                        *)

\* The store is well formed in the initial state.
LEMMA TrustInitially == TrustInit => TrustTypeOK
BY DEF TrustInit, TrustTypeOK, Stores, Record, Levels

\* Observe, in its three cases, keeps the store well formed.
LEMMA ObserveTypeOK ==
  ASSUME TrustTypeOK, NEW n \in Names, NEW k \in Keys, NEW saved \in BOOLEAN, Observe(n, k, saved)
  PROVE  TrustTypeOK'
<1> USE StoreAssumption DEF TrustTypeOK, Stores, Record, Levels, Known, Named, saveLocked, Connected, Did
<1>1. CASE ObserveSameKey(n, k, saved)
  <2>1. k \in Known(peers) /\ peers[k] \in Record
    BY Zenon, <1>1 DEF ObserveSameKey
  <2>2. peers' = [peers EXCEPT ![k] = [peers[k] EXCEPT !.name = n, !.pending = None]]
    BY Zenon, <1>1, <2>1 DEF ObserveSameKey
  <2>3. peers' \in Stores
    BY Zenon, <2>1, <2>2
  <2> QED BY Zenon, <1>1, <2>3 DEF ObserveSameKey
<1>2. CASE ObserveChanged(n, k, saved)
  <2>1. PICK j \in Named(peers, n) : peers' = [peers EXCEPT ![j].pending = k]
    BY Zenon, <1>2 DEF ObserveChanged
  <2>2. peers' \in Stores
    BY <2>1
  <2> QED BY Zenon, <1>2, <2>2 DEF ObserveChanged
<1>3. CASE ObserveNew(n, k, saved)
  <2>1. peers' \in Stores
    BY Zenon, <1>3 DEF ObserveNew
  <2> QED BY Zenon, <1>3, <2>1 DEF ObserveNew
<1> QED BY Zenon, <1>1, <1>2, <1>3 DEF Observe

\* The key that Verify settles on, for a record kept under j.
Adopts(j) == IF peers[j].pending # None THEN peers[j].pending ELSE j

\* What Verify makes of the store: the record is verified under the key that it
\* adopts, and no other key becomes verified.
LEMMA VerifiedStore ==
  ASSUME TrustTypeOK, NEW j \in Known(peers)
  PROVE  /\ Verified(j) \in Stores
         /\ Adopts(j) \in Keys
         /\ \A i \in Keys \ {Adopts(j)} : Verified(j)[i] \in {None, peers[i]}
<1>1. peers[j] \in Record /\ Adopts(j) \in Keys
  BY Zenon, StoreAssumption DEF TrustTypeOK, Stores, Record, Known, Adopts
<1>2. [peers[j] EXCEPT !.verified = TRUE, !.pending = None] \in Record
  BY Zenon, <1>1 DEF Record
<1>3. \A i \in Keys : Verified(j)[i] = CASE i = Adopts(j) -> [peers[j] EXCEPT !.verified = TRUE, !.pending = None]
                                         [] i = j /\ i # Adopts(j) -> None
                                         [] OTHER -> peers[i]
  BY Zenon DEF Verified, Adopts
<1>4. \A i \in Keys : Verified(j)[i] \in Record \cup {None}
  BY Zenon, <1>2, <1>3 DEF TrustTypeOK, Stores
<1>5. Verified(j) \in Stores
  BY Zenon, <1>4 DEF Verified, Stores
<1> QED BY Zenon, <1>1, <1>3, <1>5

\* Every step keeps the store well formed.
LEMMA TrustTypesStep == TrustTypeOK /\ [TrustNext]_trustVars => TrustTypeOK'
<1> SUFFICES ASSUME TrustTypeOK, [TrustNext]_trustVars PROVE TrustTypeOK'
  OBVIOUS
<1>1. ASSUME NEW n \in Names, NEW k \in Keys, NEW saved \in BOOLEAN, Observe(n, k, saved)
      PROVE  TrustTypeOK'
  BY Zenon, <1>1, ObserveTypeOK
<1>2. ASSUME NEW n \in Names, NEW saved \in BOOLEAN, Verify(n, saved) PROVE TrustTypeOK'
  <2>1. PICK j \in Named(peers, n) :
          /\ peers' = Verified(j)
          /\ saveLocked(saved)
          /\ approved' = approved \cup {Adopts(j)}
          /\ Did("verify", n, Adopts(j), "verified", saved)
          /\ UNCHANGED connTrust
    BY Zenon, <1>2 DEF Verify, Adopts
  <2>2. Verified(j) \in Stores /\ Adopts(j) \in Keys
    BY Zenon, VerifiedStore DEF Named
  <2> QED BY Zenon, <2>1, <2>2 DEF TrustTypeOK, saveLocked, Did, Levels
<1>3. ASSUME NEW n \in Names, NEW saved \in BOOLEAN, Reject(n, saved) PROVE TrustTypeOK'
  <2>1. PICK j \in Named(peers, n) : peers' = [peers EXCEPT ![j].pending = None]
    BY Zenon, <1>3 DEF Reject
  <2>2. peers' \in Stores
    BY <2>1 DEF TrustTypeOK, Stores, Record, Known, Named
  <2> QED BY Zenon, <1>3, <2>2 DEF Reject, TrustTypeOK, saveLocked, Did, Levels
<1>4. CASE Restart
  BY Zenon, <1>4 DEF Restart, TrustTypeOK, Did, Levels
<1>5. CASE UNCHANGED trustVars
  BY Zenon, <1>5 DEF trustVars, TrustTypeOK
<1> QED BY Zenon, <1>1, <1>2, <1>3, <1>4, <1>5 DEF TrustNext

\* Every step keeps the verified keys among the approved ones.
LEMMA NextVerifiedByUser == TrustTypeOK /\ VerifiedByUser /\ [TrustNext]_trustVars => VerifiedByUser'
<1> SUFFICES ASSUME TrustTypeOK, VerifiedByUser, [TrustNext]_trustVars PROVE VerifiedByUser'
  BY Zenon
<1> USE StoreAssumption
<1>1. ASSUME NEW n \in Names, NEW k \in Keys, NEW saved \in BOOLEAN, Observe(n, k, saved)
      PROVE  VerifiedByUser'
  <2> USE DEF TrustTypeOK, Stores, Record, Known, Named, saveLocked, Connected, VerifiedByUser
  <2>1. CASE ObserveSameKey(n, k, saved)
    <3>1. k \in Known(peers) /\ peers[k] \in Record
      BY Zenon, <2>1 DEF ObserveSameKey
    <3>2. peers' = [peers EXCEPT ![k] = [peers[k] EXCEPT !.name = n, !.pending = None]]
      BY Zenon, <2>1, <3>1 DEF ObserveSameKey
    <3>3. \A i \in Known(peers)' : peers'[i].verified => i \in approved
      BY Zenon, <3>1, <3>2
    <3>4. approved' = approved /\ disk' \in {disk, peers'}
      BY Zenon, <2>1 DEF ObserveSameKey
    <3>5. \A i \in Keys : connTrust'[i] = "verified" => i \in approved
      BY Zenon, <2>1, <3>1 DEF ObserveSameKey
    <3> QED BY Zenon, <3>3, <3>4, <3>5
  <2>2. CASE ObserveChanged(n, k, saved)
    <3>1. PICK j \in Named(peers, n) : peers' = [peers EXCEPT ![j].pending = k]
      BY Zenon, <2>2 DEF ObserveChanged
    <3>2. \A i \in Known(peers)' : peers'[i].verified => i \in approved
      BY <3>1
    <3>3. approved' = approved /\ disk' \in {disk, peers'}
      BY Zenon, <2>2 DEF ObserveChanged
    <3>4. \A i \in Keys : connTrust'[i] = "verified" => i \in approved
      BY Zenon, <2>2 DEF ObserveChanged
    <3> QED BY Zenon, <3>2, <3>3, <3>4
  <2>3. CASE ObserveNew(n, k, saved)
    <3>1. \A i \in Known(peers)' : peers'[i].verified => i \in approved
      BY Zenon, <2>3 DEF ObserveNew
    <3>2. approved' = approved /\ disk' \in {disk, peers'}
      BY Zenon, <2>3 DEF ObserveNew
    <3>3. \A i \in Keys : connTrust'[i] = "verified" => i \in approved
      BY Zenon, <2>3 DEF ObserveNew
    <3> QED BY <3>1, <3>2, <3>3
  <2> QED BY Zenon, <1>1, <2>1, <2>2, <2>3 DEF Observe
<1>2. ASSUME NEW n \in Names, NEW saved \in BOOLEAN, Verify(n, saved) PROVE VerifiedByUser'
  <2>1. PICK j \in Named(peers, n) :
          /\ peers' = Verified(j)
          /\ saveLocked(saved)
          /\ approved' = approved \cup {Adopts(j)}
          /\ connTrust' = connTrust
    BY Zenon, <1>2 DEF Verify, Adopts
  <2>2. \A i \in Keys \ {Adopts(j)} : peers'[i] \in {None, peers[i]}
    BY Zenon, <2>1, VerifiedStore DEF Named
  <2>3. \A i \in Known(peers)' : peers'[i].verified => i \in approved'
    BY Zenon, <2>1, <2>2 DEF VerifiedByUser, Known
  <2> QED BY Zenon, <2>1, <2>3 DEF VerifiedByUser, Known, saveLocked
<1>3. ASSUME NEW n \in Names, NEW saved \in BOOLEAN, Reject(n, saved) PROVE VerifiedByUser'
  <2>1. PICK j \in Named(peers, n) : peers' = [peers EXCEPT ![j].pending = None]
    BY Zenon, <1>3 DEF Reject
  <2>2. \A i \in Known(peers)' : peers'[i].verified => i \in approved
    BY <2>1 DEF TrustTypeOK, Stores, Record, Known, Named, VerifiedByUser
  <2> QED BY Zenon, <1>3, <2>2 DEF Reject, VerifiedByUser, Known, saveLocked
<1>4. CASE Restart
  BY Zenon, <1>4 DEF Restart, VerifiedByUser, Known, Levels
<1>5. CASE UNCHANGED trustVars
  BY Zenon, <1>5 DEF trustVars, VerifiedByUser, Known
<1> QED BY Zenon, <1>1, <1>2, <1>3, <1>4, <1>5 DEF TrustNext

\* For any keys and names, a key counts as verified, in memory, in the file and
\* for a connection, only if a Verify made it so.
THEOREM OnlyTheUserVerifies == TrustSpec => []VerifiedByUser
<1>1. TrustInit => TrustTypeOK /\ VerifiedByUser
  BY Zenon, TrustInitially, StoreAssumption DEF TrustInit, VerifiedByUser, Known, Levels
<1>2. TrustTypeOK /\ VerifiedByUser /\ [TrustNext]_trustVars => (TrustTypeOK /\ VerifiedByUser)'
  BY Zenon, TrustTypesStep, NextVerifiedByUser
<1> QED BY <1>1, <1>2, PTL DEF TrustSpec

\* Whatever operations failed to save before, one that returned no error left
\* the file equal to memory.
THEOREM Durable == TrustSpec => []SavedIsDurable
<1>1. TrustInit => SavedIsDurable
  BY Zenon DEF TrustInit, SavedIsDurable
<1>2. SavedIsDurable /\ [TrustNext]_trustVars => SavedIsDurable'
  <2> SUFFICES ASSUME SavedIsDurable, [TrustNext]_trustVars PROVE SavedIsDurable'
    OBVIOUS
  <2> USE DEF SavedIsDurable, saveLocked, Did
  <2>1. ASSUME NEW n \in Names, NEW k \in Keys, NEW saved \in BOOLEAN, Observe(n, k, saved)
        PROVE  SavedIsDurable'
    BY <2>1 DEF Observe, ObserveSameKey, ObserveChanged, ObserveNew
  <2>2. ASSUME NEW n \in Names, NEW saved \in BOOLEAN, Verify(n, saved) \/ Reject(n, saved)
        PROVE  SavedIsDurable'
    BY <2>2 DEF Verify, Reject
  <2>3. CASE Restart
    BY Zenon, <2>3 DEF Restart
  <2>4. CASE UNCHANGED trustVars
    BY Zenon, <2>4 DEF trustVars
  <2> QED BY Zenon, <2>1, <2>2, <2>3, <2>4 DEF TrustNext
<1> QED BY <1>1, <1>2, PTL DEF TrustSpec

\* While the process runs, a recorded key goes, and a record's verification
\* changes, by Verify only: Observe of a changed key and Reject leave both alone.
THEOREM ReplacedByVerify == TrustSpec => OnlyVerifyReplaces
<1> DEFINE Keeps == lastOp'.op # "open" =>
                      \A k \in Known(peers) :
                        (k \notin Known(peers') \/ (peers'[k].verified # peers[k].verified)) => lastOp'.op = "verify"
<1>1. ASSUME TrustTypeOK, TrustNext PROVE Keeps
  <2> USE StoreAssumption DEF TrustTypeOK, Stores, Record, Known, Named
  <2>1. ASSUME NEW n \in Names, NEW k \in Keys, NEW saved \in BOOLEAN, Observe(n, k, saved)
        PROVE  Keeps
    <3>1. CASE ObserveSameKey(n, k, saved)
      <4>1. peers' = [peers EXCEPT ![k] = [peers[k] EXCEPT !.name = n, !.pending = None]] /\ peers[k] \in Record
        BY Zenon, <1>1, <3>1 DEF ObserveSameKey
      <4>2. \A i \in Known(peers) : peers'[i] \in Record /\ peers'[i].verified = peers[i].verified
        BY Zenon, <1>1, <4>1
      <4> QED BY Zenon, <4>2
    <3>2. CASE ObserveChanged(n, k, saved)
      <4>1. PICK j \in Named(peers, n) : peers' = [peers EXCEPT ![j].pending = k]
        BY Zenon, <3>2 DEF ObserveChanged
      <4>2. \A i \in Known(peers) : peers'[i] \in Record /\ peers'[i].verified = peers[i].verified
        BY <1>1, <4>1
      <4> QED BY Zenon, <4>2
    <3>3. CASE ObserveNew(n, k, saved)
      <4>1. \A i \in Known(peers) : peers'[i] = peers[i]
        BY Zenon, <1>1, <3>3 DEF ObserveNew
      <4> QED BY Zenon, <4>1
    <3> QED BY Zenon, <2>1, <3>1, <3>2, <3>3 DEF Observe
  <2>2. ASSUME NEW n \in Names, NEW saved \in BOOLEAN, Verify(n, saved) PROVE Keeps
    <3>1. lastOp'.op = "verify"
      BY <2>2 DEF Verify, Did
    <3> QED BY Zenon, <3>1
  <2>3. ASSUME NEW n \in Names, NEW saved \in BOOLEAN, Reject(n, saved) PROVE Keeps
    <3>1. PICK j \in Named(peers, n) : peers' = [peers EXCEPT ![j].pending = None]
      BY Zenon, <2>3 DEF Reject
    <3>2. \A i \in Known(peers) : peers'[i] \in Record /\ peers'[i].verified = peers[i].verified
      BY <1>1, <3>1
    <3> QED BY Zenon, <3>2
  <2>4. CASE Restart
    <3>1. lastOp'.op = "open"
      BY Zenon, <2>4 DEF Restart, Did
    <3> QED BY Zenon, <3>1
  <2> QED BY <1>1, <2>1, <2>2, <2>3, <2>4 DEF TrustNext
<1>2. TrustTypeOK /\ [TrustNext]_trustVars => [Keeps]_trustVars
  BY Zenon, <1>1
<1>3. TrustSpec => []TrustTypeOK
  BY TrustInitially, TrustTypesStep, PTL DEF TrustSpec
<1> QED BY <1>2, <1>3, PTL DEF TrustSpec, OnlyVerifyReplaces

\* After Observe, TrustOf, which a user is shown later, gives the level that the
\* connection was given: the change of the store that Observe makes never turns
\* one of its answers into another, except that a new peer is known from then on.
THEOREM TrustLevelsAgree == TrustSpec => []TrustOfAgrees
<1>1. TrustInit => TrustOfAgrees
  BY DEF TrustInit, TrustOfAgrees
<1>2. TrustTypeOK /\ TrustOfAgrees /\ [TrustNext]_trustVars => TrustOfAgrees'
  <2> SUFFICES ASSUME TrustTypeOK, TrustOfAgrees, [TrustNext]_trustVars PROVE TrustOfAgrees'
    OBVIOUS
  <2>1. ASSUME NEW n \in Names, NEW k \in Keys, NEW saved \in BOOLEAN, Observe(n, k, saved)
        PROVE  TrustOfAgrees'
    <3>1. lastOp'.name = n /\ lastOp'.key = k
      BY <2>1 DEF Observe, ObserveSameKey, ObserveChanged, ObserveNew, Did
    <3>2. CASE ObserveSameKey(n, k, saved)
      <4>1. peers[k] \in Record /\ peers' = [peers EXCEPT ![k] = [peers[k] EXCEPT !.name = n, !.pending = None]]
        BY Zenon, <3>2 DEF ObserveSameKey, TrustTypeOK, Stores, Known
      <4>2. peers'[k] \in Record /\ peers'[k].verified = peers[k].verified
        BY Zenon, <4>1 DEF TrustTypeOK, Stores, Record
      <4>3. lastOp'.level = IF peers[k].verified THEN "verified" ELSE "unverified"
        BY Zenon, <3>2 DEF ObserveSameKey, Did
      <4>4. peers'[k] # None
        BY Zenon, <4>2, StoreAssumption
      <4> QED
        BY Zenon, <3>1, <4>2, <4>3, <4>4 DEF TrustOfAgrees, TrustOf, Known
    <3>3. CASE ObserveChanged(n, k, saved)
      <4>1. PICK j \in Named(peers, n) : peers' = [peers EXCEPT ![j].pending = k]
        BY Zenon, <3>3 DEF ObserveChanged
      <4>2. j \in Keys /\ peers[j] \in Record /\ peers[j].name = n /\ j # k /\ peers[k] = None
        BY Zenon, <3>3, <4>1 DEF ObserveChanged, TrustTypeOK, Stores, Known, Named
      <4>3. peers' = [peers EXCEPT ![j] = [peers[j] EXCEPT !.pending = k]]
        BY Zenon, <4>1, <4>2 DEF TrustTypeOK, Stores
      <4>4. peers'[k] = None /\ peers'[j] \in Record /\ peers'[j].name = n
        BY Zenon, <4>2, <4>3 DEF TrustTypeOK, Stores, Record
      <4>5. k \notin Known(peers') /\ j \in Named(peers', n)
        BY Zenon, <4>2, <4>4, StoreAssumption DEF Known, Named
      <4>6. lastOp'.level = "changed"
        BY Zenon, <3>3 DEF ObserveChanged, Did
      <4>7. TrustOf(n, k)' = "changed"
        BY Zenon, <4>5 DEF TrustOf
      <4> QED
        BY Zenon, <3>1, <4>6, <4>7 DEF TrustOfAgrees, TrustOf
    <3>4. CASE ObserveNew(n, k, saved)
      <4>1. peers'[k] = [name |-> n, verified |-> FALSE, pending |-> None] /\ lastOp'.level = "unknown"
        BY Zenon, <3>4 DEF ObserveNew, Did, TrustTypeOK, Stores
      <4>2. peers'[k] \in Record /\ ~peers'[k].verified
        BY <4>1 DEF Record
      <4>3. peers'[k] # None
        BY Zenon, <4>2, StoreAssumption
      <4> QED
        BY Zenon, <3>1, <4>1, <4>2, <4>3 DEF TrustOfAgrees, TrustOf, Known
    <3> QED BY Zenon, <2>1, <3>2, <3>3, <3>4 DEF Observe
  <2>2. ASSUME NEW n \in Names, NEW saved \in BOOLEAN, Verify(n, saved) \/ Reject(n, saved)
        PROVE  TrustOfAgrees'
    <3>1. lastOp'.op # "observe"
      BY <2>2 DEF Verify, Reject, Did
    <3> QED BY Zenon, <3>1 DEF TrustOfAgrees
  <2>3. CASE Restart
    BY Zenon, <2>3 DEF Restart, Did, TrustOfAgrees
  <2>4. CASE UNCHANGED trustVars
    BY Zenon, <2>4 DEF trustVars, TrustOfAgrees, TrustOf, Known, Named
  <2> QED BY Zenon, <2>1, <2>2, <2>3, <2>4 DEF TrustNext
<1>3. TrustSpec => []TrustTypeOK
  BY TrustInitially, TrustTypesStep, PTL DEF TrustSpec
<1> QED BY <1>1, <1>2, <1>3, PTL DEF TrustSpec

-----------------------------------------------------------------------------
(* Hole punching.                                                          *)

\* Each punch dials in one loop, which offers once, and returns once.
Once(p) ==
  /\ pc[p] \in {"idle", "delay"} => dialing[p] = "off" /\ dialed[p] = nil
  /\ dialing[p] # "off" => dialed[p] = nil
  /\ pc[p] \notin {"leaving", "returned"} => result[p] = nil

\* Every connection that a punch has, or is about to be given, has its address.
FromTarget ==
  /\ \A p \in Punches : \A c \in {inbound[p], dialed[p], dialing[p], result[p]} \cap Conns :
       source[c] = target[p]
  /\ \A a \in Addrs : waiters[a] # nil => target[waiters[a]] = a
  /\ routing # nil /\ routing.to # nil => source[routing.conn] = target[routing.to]

\* Where a connection is: with its holder, or left behind.
Places(c) == Holders(c) \cup Stranded(c)

\* A connection that was made is in exactly one place, a fresh one in none.
Held == \A c \in Conns : IF c \in fresh THEN Places(c) = {} ELSE \E h : Places(c) = {h}

\* The inductive invariant of the listener and its punches.
PunchInv == PunchTypeOK /\ (\A p \in Punches : Once(p)) /\ FromTarget /\ Held /\ RouteFindsLive

\* The places of a connection, one by one.
Holds(h, c) ==
  \/ \E p \in Punches : \/ h = <<"inbound", p>> /\ inbound[p] = c
                        \/ h = <<"dialed", p>> /\ dialed[p] = c
                        \/ h = <<"result", p>> /\ result[p] = c
                        \/ h = <<"dialing", p>> /\ dialing[p] = c
  \/ h = <<"fallback", nil>> /\ c \in fallback
  \/ h = <<"closed", nil>> /\ c \in closed
  \/ h = <<"routing", nil>> /\ routing # nil /\ routing.conn = c

\* Places collects exactly those, before a step and after it.
LEMMA PlacesAre ==
  \A c, h : (h \in Places(c) <=> Holds(h, c)) /\ (h \in Places(c)' <=> Holds(h, c)')
<1>1. Done \subseteq Punches /\ Done' \subseteq Punches
  BY Zenon DEF Done
<1>2. ASSUME NEW c, NEW h PROVE h \in Places(c) <=> Holds(h, c)
  BY Zenon, <1>1 DEF Places, Holders, Stranded, Channels, Holds
<1>3. ASSUME NEW c, NEW h PROVE h \in Places(c)' <=> Holds(h, c)'
  BY Zenon, <1>1 DEF Places, Holders, Stranded, Channels, Holds
<1> QED
  BY Zenon, <1>2, <1>3

\* A step that touches no connection.
LEMMA NothingMoves ==
  ASSUME Held, UNCHANGED fresh, \A c \in Conns : \A h : Holds(h, c)' <=> Holds(h, c)
  PROVE  Held'
<1>1. \A c \in Conns : Places(c)' = Places(c)
  BY PlacesAre, Zenon
<1> QED
  BY <1>1, Zenon DEF Held

\* The connection c goes from one place to another, and no other one moves.
Moves(c, from, to) ==
  \A d \in Conns : \A h : Holds(h, d)' <=>
    (d = c /\ h = to) \/ (Holds(h, d) /\ ~(d = c /\ h = from))

\* A step that takes a connection from its one place and puts it in another.
LEMMA OneMoves ==
  ASSUME Held, NEW c \in Conns, NEW from, NEW to, Holds(from, c), UNCHANGED fresh, Moves(c, from, to)
  PROVE  Held'
<1>1. ASSUME NEW d \in Conns \ {c} PROVE Places(d)' = Places(d)
  <2>1. \A h : Holds(h, d)' <=> Holds(h, d)
    BY Zenon DEF Moves
  <2>2. \A h : h \in Places(d)' <=> h \in Places(d)
    BY <2>1, PlacesAre, Zenon
  <2> QED
    BY <2>2, Zenon
<1>2. Places(c)' = (Places(c) \ {from}) \cup {to}
  <2>1. \A h : Holds(h, c)' <=> h = to \/ (Holds(h, c) /\ h # from)
    BY Zenon DEF Moves
  <2> QED
    BY <2>1, PlacesAre, Zenon
<1>3. from \in Places(c)
  BY Zenon, PlacesAre
<1>4. c \notin fresh /\ Places(c) = {from}
  BY <1>3, Zenon DEF Held
<1>5. Places(c)' = {to} /\ c \notin fresh'
  BY <1>2, <1>4, Zenon
<1> QED
  BY <1>1, <1>5, Zenon DEF Held

\* Moves as it looks at one place h: whether d was there, and is there now.
At(c, from, to, d, h, was, is) == is <=> (d = c /\ h = to) \/ (was /\ ~(d = c /\ h = from))

\* Moves at the places of a punch, and at the others.
AtPunch(c, from, to, d, p) ==
  /\ At(c, from, to, d, <<"inbound", p>>, inbound[p] = d, inbound'[p] = d)
  /\ At(c, from, to, d, <<"dialed", p>>, dialed[p] = d, dialed'[p] = d)
  /\ At(c, from, to, d, <<"result", p>>, result[p] = d, result'[p] = d)
  /\ At(c, from, to, d, <<"dialing", p>>, dialing[p] = d, dialing'[p] = d)
Elsewhere(c, from, to, d) ==
  /\ At(c, from, to, d, <<"fallback", nil>>, d \in fallback, d \in fallback')
  /\ At(c, from, to, d, <<"closed", nil>>, d \in closed, d \in closed')
  /\ At(c, from, to, d, <<"routing", nil>>, routing # nil /\ routing.conn = d, routing' # nil /\ routing'.conn = d)

\* The places there are.
Place(h) ==
  \/ \E p \in Punches : h = <<"inbound", p>> \/ h = <<"dialed", p>> \/ h = <<"result", p>> \/ h = <<"dialing", p>>
  \/ h = <<"fallback", nil>> \/ h = <<"closed", nil>> \/ h = <<"routing", nil>>

\* A connection moves if it does so place by place.
LEMMA MovesByPlace ==
  ASSUME NEW c, NEW from, NEW to, Place(to),
         \A d \in Conns : Elsewhere(c, from, to, d) /\ \A p \in Punches : AtPunch(c, from, to, d, p)
  PROVE  Moves(c, from, to)
<1> SUFFICES ASSUME NEW d \in Conns, NEW h
             PROVE  Holds(h, d)' <=> (d = c /\ h = to) \/ (Holds(h, d) /\ ~(d = c /\ h = from))
  BY Zenon DEF Moves
<1>1. ASSUME Holds(h, d)' PROVE (d = c /\ h = to) \/ (Holds(h, d) /\ ~(d = c /\ h = from))
  BY ZenonT(60), <1>1 DEF Holds, Elsewhere, AtPunch, At
<1>2. ASSUME d = c, h = to PROVE Holds(h, d)'
  BY Zenon, <1>2 DEF Holds, Elsewhere, AtPunch, At, Place
<1>3. ASSUME Holds(h, d), ~(d = c /\ h = from) PROVE Holds(h, d)'
  BY Zenon, <1>3 DEF Holds, Elsewhere, AtPunch, At
<1> QED
  BY Zenon, <1>1, <1>2, <1>3

\* Places are told apart by their names and their punches.
LEMMA PlacesDiffer ==
  /\ \A p, q : /\ (<<"inbound", p>> = <<"inbound", q>>) <=> p = q
               /\ (<<"dialed", p>> = <<"dialed", q>>) <=> p = q
               /\ (<<"result", p>> = <<"result", q>>) <=> p = q
               /\ (<<"dialing", p>> = <<"dialing", q>>) <=> p = q
  /\ \A p, q : /\ <<"inbound", p>> \notin {<<"dialed", q>>, <<"result", q>>, <<"dialing", q>>}
               /\ <<"dialed", p>> \notin {<<"inbound", q>>, <<"result", q>>, <<"dialing", q>>}
               /\ <<"result", p>> \notin {<<"inbound", q>>, <<"dialed", q>>, <<"dialing", q>>}
               /\ <<"dialing", p>> \notin {<<"inbound", q>>, <<"dialed", q>>, <<"result", q>>}
               /\ {<<"inbound", p>>, <<"dialed", p>>, <<"result", p>>, <<"dialing", p>>}
                   \cap {<<"fallback", q>>, <<"closed", q>>, <<"routing", q>>} = {}
  /\ \A p : <<"fallback", p>> # <<"closed", p>> /\ <<"fallback", p>> # <<"routing", p>> /\ <<"closed", p>> # <<"routing", p>>
OBVIOUS

\* Nothing moves if it does not place by place.
LEMMA StaysByPlace ==
  ASSUME UNCHANGED <<inbound, dialed, fallback, closed, routing>>,
         \A d \in Conns : \A p \in Punches :
           ((result'[p] = d) <=> (result[p] = d)) /\ ((dialing'[p] = d) <=> (dialing[p] = d))
  PROVE  \A d \in Conns : \A h : Holds(h, d)' <=> Holds(h, d)
<1> SUFFICES ASSUME NEW d \in Conns, NEW h PROVE Holds(h, d)' <=> Holds(h, d)
  BY Zenon
<1>1. inbound' = inbound /\ dialed' = dialed /\ fallback' = fallback /\ closed' = closed /\ routing' = routing
  BY Zenon
<1>2. ASSUME Holds(h, d)' PROVE Holds(h, d)
  BY Zenon, <1>1, <1>2 DEF Holds
<1>3. ASSUME Holds(h, d) PROVE Holds(h, d)'
  BY Zenon, <1>1, <1>3 DEF Holds
<1> QED
  BY Zenon, <1>2, <1>3

\* The connection c comes to its first place, and no other one moves.
Appears(c, to) == Moves(c, to, to)

\* A step that makes a connection and puts it in its first place.
LEMMA OneMade ==
  ASSUME Held, NEW c \in Conns, NEW to, c \in fresh, fresh' = fresh \ {c}, Appears(c, to)
  PROVE  Held'
<1>1. ASSUME NEW d \in Conns \ {c} PROVE Places(d)' = Places(d) /\ (d \in fresh' <=> d \in fresh)
  <2>1. \A h : Holds(h, d)' <=> Holds(h, d)
    BY Zenon DEF Appears, Moves
  <2>2. \A h : h \in Places(d)' <=> h \in Places(d)
    BY <2>1, PlacesAre, Zenon
  <2> QED
    BY <2>2, Zenon
<1>2. Places(c)' = Places(c) \cup {to} /\ c \notin fresh'
  <2>1. \A h : Holds(h, c)' <=> Holds(h, c) \/ h = to
    BY Zenon DEF Appears, Moves
  <2> QED
    BY <2>1, PlacesAre, Zenon
<1>3. Places(c) = {}
  BY Zenon DEF Held
<1>4. Places(c)' = {to}
  BY <1>2, <1>3, Zenon
<1> QED
  BY <1>1, <1>2, <1>4, Zenon DEF Held

-----------------------------------------------------------------------------
(* One lemma per conjunct, one case per action. *)

\* The types.
LEMMA PunchTypesStep == PunchTypeOK /\ [PunchNext]_punchVars => PunchTypeOK'
<1> SUFFICES ASSUME PunchTypeOK, [PunchNext]_punchVars PROVE PunchTypeOK'
  OBVIOUS
<1>a. nil \notin Conns /\ target \in [Punches -> Addrs] /\ source \in [Conns -> Addrs]
  BY Zenon, PunchAssumption
<1>1. ASSUME NEW c \in Conns, Accept(c) PROVE PunchTypeOK'
  BY <1>a, <1>1 DEF Accept, PunchTypeOK
<1>2. CASE RoutedToPunch
  BY Zenon, <1>a, <1>2 DEF RoutedToPunch, PunchTypeOK
<1>3. CASE RoutedAside
  BY <1>a, <1>3 DEF RoutedAside, PunchTypeOK
<1>4. CASE Close
  BY Zenon, <1>4 DEF Close, PunchTypeOK
<1>5. ASSUME NEW p \in Punches, register(p) PROVE PunchTypeOK'
  BY Zenon, <1>a, <1>5 DEF register, PunchTypeOK, Running
<1>6. ASSUME NEW p \in Punches, DelayOver(p) PROVE PunchTypeOK'
  BY Zenon, <1>6 DEF DelayOver, PunchTypeOK, Running
<1>7. ASSUME NEW p \in Punches, TakesInbound(p) PROVE PunchTypeOK'
  BY Zenon, <1>7 DEF TakesInbound, PunchTypeOK, Running
<1>8. ASSUME NEW p \in Punches, TakesDialed(p) PROVE PunchTypeOK'
  BY Zenon, <1>8 DEF TakesDialed, PunchTypeOK, Running
<1>9. ASSUME NEW p \in Punches, ContextDone(p) PROVE PunchTypeOK'
  BY Zenon, <1>9 DEF ContextDone, PunchTypeOK, Running
<1>10. ASSUME NEW p \in Punches, GivesUp(p) PROVE PunchTypeOK'
  BY Zenon, <1>10 DEF GivesUp, PunchTypeOK, Running
<1>11. ASSUME NEW p \in Punches, unregister(p) PROVE PunchTypeOK'
  BY Zenon, <1>a, <1>11 DEF unregister, PunchTypeOK, Running
<1>12. ASSUME NEW p \in Punches, NEW c \in Conns, DialSucceeds(p, c) PROVE PunchTypeOK'
  BY Zenon, <1>12 DEF DialSucceeds, PunchTypeOK
<1>13. ASSUME NEW p \in Punches, DialOffers(p) PROVE PunchTypeOK'
  BY Zenon, <1>13 DEF DialOffers, PunchTypeOK
<1>14. ASSUME NEW p \in Punches, DialStops(p) PROVE PunchTypeOK'
  BY Zenon, <1>14 DEF DialStops, PunchTypeOK
<1>15. CASE UNCHANGED punchVars
  BY Zenon, <1>15 DEF punchVars, PunchTypeOK
<1> QED
  BY Zenon, <1>1, <1>2, <1>3, <1>4, <1>5, <1>6, <1>7, <1>8, <1>9, <1>10, <1>11, <1>12, <1>13, <1>14, <1>15
     DEF PunchNext, PunchCall, dialLoop

\* A punch's loop, offer and result come once.
LEMMA OnceStep ==
  PunchTypeOK /\ (\A p \in Punches : Once(p)) /\ [PunchNext]_punchVars => (\A p \in Punches : Once(p))'
<1> SUFFICES ASSUME PunchTypeOK, \A p \in Punches : Once(p), [PunchNext]_punchVars,
                    NEW q \in Punches
             PROVE  Once(q)'
  BY Zenon
<1>a. {nil, "on", "off", "failed"} \cap Conns = {} /\ Once(q)
  BY Zenon, PunchAssumption
<1>1. CASE UNCHANGED <<pc, dialing, dialed, result>>
  BY Zenon, <1>1, <1>a DEF Once
<1>2. ASSUME NEW p \in Punches, register(p) PROVE Once(q)'
  BY Zenon, <1>a, <1>2 DEF register, PunchTypeOK, Once
<1>3. ASSUME NEW p \in Punches, DelayOver(p) PROVE Once(q)'
  BY Zenon, <1>a, <1>3 DEF DelayOver, PunchTypeOK, Once
<1>4. ASSUME NEW p \in Punches, TakesInbound(p) PROVE Once(q)'
  BY Zenon, <1>a, <1>4 DEF TakesInbound, PunchTypeOK, Once, Running
<1>5. ASSUME NEW p \in Punches, TakesDialed(p) PROVE Once(q)'
  BY Zenon, <1>a, <1>5 DEF TakesDialed, PunchTypeOK, Once
<1>6. ASSUME NEW p \in Punches, ContextDone(p) PROVE Once(q)'
  BY Zenon, <1>a, <1>6 DEF ContextDone, PunchTypeOK, Once, Running
<1>7. ASSUME NEW p \in Punches, GivesUp(p) PROVE Once(q)'
  BY Zenon, <1>a, <1>7 DEF GivesUp, PunchTypeOK, Once
<1>8. ASSUME NEW p \in Punches, unregister(p) PROVE Once(q)'
  BY Zenon, <1>a, <1>8 DEF unregister, PunchTypeOK, Once
<1>9. ASSUME NEW p \in Punches, NEW c \in Conns, DialSucceeds(p, c) PROVE Once(q)'
  BY Zenon, <1>a, <1>9 DEF DialSucceeds, PunchTypeOK, Once
<1>10. ASSUME NEW p \in Punches, DialOffers(p) PROVE Once(q)'
  BY Zenon, <1>a, <1>10 DEF DialOffers, PunchTypeOK, Once
<1>11. ASSUME NEW p \in Punches, DialStops(p) PROVE Once(q)'
  BY Zenon, <1>a, <1>11 DEF DialStops, PunchTypeOK, Once
<1> QED
  BY Zenon, <1>1, <1>2, <1>3, <1>4, <1>5, <1>6, <1>7, <1>8, <1>9, <1>10, <1>11
     DEF PunchNext, PunchCall, dialLoop, Accept, RoutedToPunch, RoutedAside, Close, punchVars

\* An entry goes with the punch that made it, or before.
LEMMA RouteStep ==
  PunchTypeOK /\ RouteFindsLive /\ [PunchNext]_punchVars => RouteFindsLive'
<1> SUFFICES ASSUME PunchTypeOK, RouteFindsLive, [PunchNext]_punchVars
             PROVE  RouteFindsLive'
  BY Zenon
<1>a. target \in [Punches -> Addrs] /\ nil \notin Punches
  BY Zenon, PunchAssumption
<1>b. \A a \in Addrs : waiters[a] # nil =>
        waiters[a] \in Punches /\ target[waiters[a]] = a /\ pc[waiters[a]] \notin {"idle", "returned"}
  <2>1. \A a \in Addrs : waiters[a] \in Punches \cup {nil}
    BY Zenon DEF PunchTypeOK
  <2> QED
    BY Zenon, <2>1 DEF RouteFindsLive
<1>1. CASE UNCHANGED <<waiters, pc>>
  BY Zenon, <1>1 DEF RouteFindsLive
<1>2. ASSUME NEW p \in Punches, UNCHANGED waiters,
             NEW to \in {"racing", "draining", "leaving"}, pc[p] \in Running \cup {"draining"},
             pc' = [pc EXCEPT ![p] = to], to \in Running => pc[p] \in Running
      PROVE  RouteFindsLive'
  <2>1. \A q \in Punches : pc'[q] = IF q = p THEN to ELSE pc[q]
    BY Zenon, <1>2 DEF PunchTypeOK
  <2>2. to \notin {"idle", "returned"} /\ pc[p] \notin {"idle", "returned"}
    BY Zenon, <1>2 DEF Running
  <2>3. ASSUME NEW a \in Addrs, waiters'[a] # nil
        PROVE  target[waiters'[a]] = a /\ pc'[waiters'[a]] \notin {"idle", "returned"}
    <3>1. waiters'[a] = waiters[a] /\ waiters[a] # nil
      BY Zenon, <1>2, <2>3
    <3>2. waiters[a] \in Punches /\ target[waiters[a]] = a /\ pc[waiters[a]] \notin {"idle", "returned"}
      BY Zenon, <1>b, <3>1
    <3>3. pc'[waiters[a]] \in {to, pc[waiters[a]]}
      BY Zenon, <2>1, <3>2
    <3>4. pc'[waiters[a]] \notin {"idle", "returned"}
      BY Zenon, <2>2, <3>2, <3>3
    <3> QED
      BY Zenon, <3>1, <3>2, <3>4
  <2>4. ASSUME NEW q \in Punches, pc'[q] \in Running, waiters'[target[q]] = nil
        PROVE  \E w \in Punches : target[w] = target[q] /\ pc'[w] = "returned"
    <3>1. pc[q] \in Running /\ waiters[target[q]] = nil
      BY Zenon, <1>2, <2>1, <2>4
    <3>2. PICK w \in Punches : target[w] = target[q] /\ pc[w] = "returned"
      BY Zenon, <3>1 DEF RouteFindsLive
    <3> QED
      BY Zenon, <2>1, <2>2, <3>2
  <2> QED
    BY Zenon, <2>3, <2>4 DEF RouteFindsLive
<1>3. ASSUME NEW p \in Punches,
             DelayOver(p) \/ TakesInbound(p) \/ TakesDialed(p) \/ ContextDone(p) \/ GivesUp(p)
      PROVE  RouteFindsLive'
  <2>1. \E to \in {"racing", "draining", "leaving"} :
          /\ pc' = [pc EXCEPT ![p] = to] /\ pc[p] \in Running \cup {"draining"}
          /\ to \in Running => pc[p] \in Running
    BY Zenon, <1>3 DEF DelayOver, TakesInbound, TakesDialed, ContextDone, GivesUp, Running
  <2>2. UNCHANGED waiters
    BY Zenon, <1>3 DEF DelayOver, TakesInbound, TakesDialed, ContextDone, GivesUp
  <2> QED
    BY Zenon, <1>2, <2>1, <2>2
<1>4. ASSUME NEW p \in Punches, register(p)
      PROVE  RouteFindsLive'
  <2>1. /\ \A q \in Punches : pc'[q] = IF q = p THEN "delay" ELSE pc[q]
        /\ \A a \in Addrs : waiters'[a] = IF a = target[p] THEN p ELSE waiters[a]
        /\ pc[p] = "idle"
    BY Zenon, <1>4, <1>a DEF register, PunchTypeOK
  <2>2. ASSUME NEW a \in Addrs, waiters'[a] # nil
        PROVE  target[waiters'[a]] = a /\ pc'[waiters'[a]] \notin {"idle", "returned"}
    <3>1. CASE a = target[p]
      BY Zenon, <2>1, <3>1
    <3>2. CASE a # target[p]
      BY Zenon, <1>b, <2>1, <2>2, <3>2
    <3> QED
      BY Zenon, <3>1, <3>2
  <2>3. ASSUME NEW q \in Punches, pc'[q] \in Running, waiters'[target[q]] = nil
        PROVE  \E w \in Punches : target[w] = target[q] /\ pc'[w] = "returned"
    <3>1. target[q] # target[p] /\ target[q] \in Addrs
      BY Zenon, <1>a, <2>1, <2>3
    <3>2. PICK w \in Punches : target[w] = target[q] /\ pc[w] = "returned"
      BY Zenon, <2>1, <2>3, <3>1 DEF RouteFindsLive
    <3> QED
      BY Zenon, <2>1, <3>2
  <2> QED
    BY Zenon, <2>2, <2>3 DEF RouteFindsLive
<1>5. ASSUME NEW p \in Punches, unregister(p)
      PROVE  RouteFindsLive'
  <2>1. /\ \A q \in Punches : pc'[q] = IF q = p THEN "returned" ELSE pc[q]
        /\ \A a \in Addrs : waiters'[a] = IF a = target[p] THEN nil ELSE waiters[a]
    BY Zenon, <1>5, <1>a DEF unregister, PunchTypeOK
  <2>2. ASSUME NEW a \in Addrs, waiters'[a] # nil
        PROVE  target[waiters'[a]] = a /\ pc'[waiters'[a]] \notin {"idle", "returned"}
    <3>1. a # target[p] /\ waiters'[a] = waiters[a]
      BY Zenon, <2>1, <2>2
    <3>2. waiters[a] \in Punches /\ target[waiters[a]] = a /\ pc[waiters[a]] \notin {"idle", "returned"}
      BY Zenon, <1>b, <2>2, <3>1
    <3> QED
      BY Zenon, <2>1, <3>1, <3>2
  <2>3. ASSUME NEW q \in Punches, pc'[q] \in Running, waiters'[target[q]] = nil
        PROVE  \E w \in Punches : target[w] = target[q] /\ pc'[w] = "returned"
    <3>1. CASE target[q] = target[p]
      BY Zenon, <2>1, <3>1
    <3>2. CASE target[q] # target[p]
      <4>1. pc[q] \in Running /\ waiters[target[q]] = nil
        BY Zenon, <1>a, <2>1, <2>3, <3>2 DEF Running
      <4>2. PICK w \in Punches : target[w] = target[q] /\ pc[w] = "returned"
        BY Zenon, <4>1 DEF RouteFindsLive
      <4> QED
        BY Zenon, <2>1, <4>2
    <3> QED
      BY Zenon, <3>1, <3>2
  <2> QED
    BY Zenon, <2>2, <2>3 DEF RouteFindsLive
<1> QED
  BY Zenon, <1>1, <1>3, <1>4, <1>5
     DEF PunchNext, PunchCall, dialLoop, Accept, RoutedToPunch, RoutedAside, Close, punchVars,
         DialSucceeds, DialOffers, DialStops

\* Connections stay with punches of their address.
LEMMA FromStep ==
  PunchTypeOK /\ FromTarget /\ [PunchNext]_punchVars => FromTarget'
<1> SUFFICES ASSUME PunchTypeOK, FromTarget, [PunchNext]_punchVars PROVE FromTarget'
  OBVIOUS
<1> DEFINE Mine(p, c) == c \in Conns => source[c] = target[p]
           Theirs == \A p \in Punches : /\ Mine(p, inbound[p]) /\ Mine(p, dialed[p])
                                        /\ Mine(p, dialing[p]) /\ Mine(p, result[p])
           Awaits == \A a \in Addrs : waiters[a] # nil => target[waiters[a]] = a
           Routed == routing # nil /\ routing.to # nil => source[routing.conn] = target[routing.to]
<1>a. /\ {nil, "on", "off", "failed"} \cap Conns = {} /\ nil \notin Punches
      /\ nil \notin [conn : Conns, to : Punches \cup {nil}]
      /\ target \in [Punches -> Addrs] /\ source \in [Conns -> Addrs]
  BY Zenon, PunchAssumption
<1>b. Theirs /\ Awaits /\ Routed
  BY Zenon DEF FromTarget
<1>c. Theirs' /\ Awaits' /\ Routed' => FromTarget'
  BY DEF FromTarget
<1>1. ASSUME NEW c \in Conns, Accept(c) PROVE Theirs' /\ Awaits' /\ Routed'
  BY Zenon, <1>a, <1>b, <1>1 DEF Accept, PunchTypeOK
<1>2. ASSUME RoutedToPunch PROVE Theirs' /\ Awaits' /\ Routed'
  BY <1>a, <1>b, <1>2 DEF RoutedToPunch, PunchTypeOK
<1>3. ASSUME RoutedAside PROVE Theirs' /\ Awaits' /\ Routed'
  BY Zenon, <1>a, <1>b, <1>3 DEF RoutedAside, PunchTypeOK
<1>5. ASSUME NEW p \in Punches, register(p) PROVE Theirs' /\ Awaits' /\ Routed'
  BY <1>a, <1>b, <1>5 DEF register, PunchTypeOK
<1>6. ASSUME NEW p \in Punches, DelayOver(p) PROVE Theirs' /\ Awaits' /\ Routed'
  BY <1>a, <1>b, <1>6 DEF DelayOver, PunchTypeOK
<1>7. ASSUME NEW p \in Punches, TakesInbound(p) PROVE Theirs' /\ Awaits' /\ Routed'
  BY <1>a, <1>b, <1>7 DEF TakesInbound, PunchTypeOK
<1>8. ASSUME NEW p \in Punches, TakesDialed(p) PROVE Theirs' /\ Awaits' /\ Routed'
  BY <1>a, <1>b, <1>8 DEF TakesDialed, PunchTypeOK
<1>10. ASSUME NEW p \in Punches, GivesUp(p) PROVE Theirs' /\ Awaits' /\ Routed'
  BY <1>a, <1>b, <1>10 DEF GivesUp, PunchTypeOK
<1>11. ASSUME NEW p \in Punches, unregister(p) PROVE Theirs' /\ Awaits' /\ Routed'
  BY Zenon, <1>a, <1>b, <1>11 DEF unregister, PunchTypeOK
<1>12. ASSUME NEW p \in Punches, NEW c \in Conns, DialSucceeds(p, c) PROVE Theirs' /\ Awaits' /\ Routed'
  BY Zenon, <1>a, <1>b, <1>12 DEF DialSucceeds, PunchTypeOK
<1>13. ASSUME NEW p \in Punches, DialOffers(p) PROVE Theirs' /\ Awaits' /\ Routed'
  BY <1>a, <1>b, <1>13 DEF DialOffers, PunchTypeOK
<1>14. ASSUME NEW p \in Punches, DialStops(p) PROVE Theirs' /\ Awaits' /\ Routed'
  BY <1>a, <1>b, <1>14 DEF DialStops, PunchTypeOK
<1>15. ASSUME UNCHANGED <<waiters, inbound, dialed, dialing, result, routing>>
       PROVE  Theirs' /\ Awaits' /\ Routed'
  BY Zenon, <1>15, <1>b
<1>16. Theirs' /\ Awaits' /\ Routed'
  <2> HIDE DEF Theirs, Awaits, Routed
  <2> QED
    BY Zenon, <1>1, <1>2, <1>3, <1>5, <1>6, <1>7, <1>8, <1>10, <1>11, <1>12, <1>13, <1>14, <1>15
       DEF PunchNext, PunchCall, dialLoop, Close, ContextDone, punchVars
<1> QED
  BY Zenon, <1>c, <1>16

\* A connection moves from one place to another, or does not move.
LEMMA HeldStep ==
  PunchTypeOK /\ (\A p \in Punches : Once(p)) /\ Held /\ [PunchNext]_punchVars => Held'
<1> SUFFICES ASSUME PunchTypeOK, \A p \in Punches : Once(p), Held, [PunchNext]_punchVars PROVE Held'
  BY Zenon
<1>a. /\ {nil, "on", "off", "failed"} \cap Conns = {} /\ nil \notin Punches
      /\ nil \notin [conn : Conns, to : Punches \cup {nil}]
  BY Zenon, PunchAssumption
<1>1. ASSUME NEW c \in Conns, Accept(c) PROVE Held'
  <2>1. waiters[source[c]] \in Punches \cup {nil}
    BY Zenon, PunchAssumption DEF PunchTypeOK
  <2>2. routing = nil /\ routing' # nil /\ routing'.conn = c
    BY <1>a, <1>1, <2>1 DEF Accept
  <2>3. Appears(c, <<"routing", nil>>)
    <3>1. Place(<<"routing", nil>>)
      BY Zenon DEF Place
    <3>2. \A d \in Conns : Elsewhere(c, <<"routing", nil>>, <<"routing", nil>>, d)
      BY Zenon, <1>a, <1>1, <2>2, PlacesDiffer DEF Accept, Elsewhere, At
    <3>3. \A d \in Conns : \A q \in Punches : AtPunch(c, <<"routing", nil>>, <<"routing", nil>>, d, q)
      BY Zenon, <1>a, <1>1, <2>2, PlacesDiffer DEF Accept, AtPunch, At
    <3> QED
      BY Zenon, <3>1, <3>2, <3>3, MovesByPlace DEF Appears
  <2>4. c \in fresh /\ fresh' = fresh \ {c}
    BY Zenon, <1>1 DEF Accept
  <2> QED
    BY Zenon, <2>3, <2>4, OneMade
<1>2. CASE RoutedToPunch
  <2> DEFINE c == routing.conn  p == routing.to
  <2>1. c \in Conns /\ p \in Punches /\ Holds(<<"routing", nil>>, c) /\ UNCHANGED fresh
    BY Zenon, <1>2 DEF RoutedToPunch, PunchTypeOK, Holds
  <2>2. routing' = nil /\ \A q \in Punches : inbound'[q] = IF q = p THEN c ELSE inbound[q]
    BY Zenon, <1>2 DEF RoutedToPunch, PunchTypeOK
  <2>3. Moves(c, <<"routing", nil>>, <<"inbound", p>>)
    <3>1. Place(<<"inbound", p>>)
      BY Zenon, <2>1 DEF Place
    <3>2. \A d \in Conns : Elsewhere(c, <<"routing", nil>>, <<"inbound", p>>, d)
      BY Zenon, <1>a, <1>2, <2>1, <2>2, PlacesDiffer DEF RoutedToPunch, Elsewhere, At
    <3>3. \A d \in Conns : \A q \in Punches : AtPunch(c, <<"routing", nil>>, <<"inbound", p>>, d, q)
      BY <1>a, <1>2, <2>1, <2>2, PlacesDiffer DEF RoutedToPunch, AtPunch, At
    <3> QED
      BY Zenon, <3>1, <3>2, <3>3, MovesByPlace
  <2> HIDE DEF c, p
  <2> QED
    BY Zenon, <2>1, <2>3, OneMoves
<1>3. CASE RoutedAside
  <2> DEFINE c == routing.conn  to == <<IF HasFallback THEN "fallback" ELSE "closed", nil>>
  <2>1. c \in Conns /\ Holds(<<"routing", nil>>, c) /\ UNCHANGED fresh
    BY Zenon, <1>3 DEF RoutedAside, PunchTypeOK, Holds
  <2>2. Moves(c, <<"routing", nil>>, to)
    <3>1. Place(to)
      BY Zenon DEF Place
    <3>2. \A d \in Conns : Elsewhere(c, <<"routing", nil>>, to, d)
      BY Zenon, <1>a, <1>3, <2>1, PlacesDiffer DEF RoutedAside, Elsewhere, At
    <3>3. \A d \in Conns : \A q \in Punches : AtPunch(c, <<"routing", nil>>, to, d, q)
      BY Zenon, <1>a, <1>3, <2>1, PlacesDiffer DEF RoutedAside, AtPunch, At
    <3> QED
      BY Zenon, <3>1, <3>2, <3>3, MovesByPlace
  <2> HIDE DEF c, to
  <2> QED
    BY Zenon, <2>1, <2>2, OneMoves
<1>4. CASE UNCHANGED <<inbound, dialed, dialing, result, routing, fallback, closed, fresh>>
  BY <1>4, NothingMoves DEF Holds
<1>6. ASSUME NEW p \in Punches, DelayOver(p) PROVE Held'
  <2>0. \A q \in Punches : \A d \in Conns : (dialing'[q] = d) <=> (dialing[q] = d)
    BY Zenon, <1>a, <1>6 DEF DelayOver, PunchTypeOK, Once
  <2>1. \A d \in Conns : \A h : Holds(h, d)' <=> Holds(h, d)
    BY Zenon, <1>6, <2>0, StaysByPlace DEF DelayOver
  <2> QED
    BY Zenon, <2>1, <1>6, NothingMoves DEF DelayOver
<1>7. ASSUME NEW p \in Punches, TakesInbound(p) PROVE Held'
  <2> DEFINE c == inbound[p]
  <2>1. c \in Conns /\ Holds(<<"inbound", p>>, c) /\ UNCHANGED fresh /\ result[p] = nil
    BY Zenon, <1>7 DEF TakesInbound, PunchTypeOK, Holds, Once, Running
  <2>2. \A q \in Punches : /\ inbound'[q] = IF q = p THEN nil ELSE inbound[q]
                           /\ result'[q] = IF q = p THEN c ELSE result[q]
    BY Zenon, <1>7 DEF TakesInbound, PunchTypeOK
  <2>3. Moves(c, <<"inbound", p>>, <<"result", p>>)
    <3>1. Place(<<"result", p>>)
      BY Zenon DEF Place
    <3>2. \A d \in Conns : Elsewhere(c, <<"inbound", p>>, <<"result", p>>, d)
      BY Zenon, <1>a, <1>7, <2>1, <2>2, PlacesDiffer DEF TakesInbound, Elsewhere, At
    <3>3. \A d \in Conns : \A q \in Punches : AtPunch(c, <<"inbound", p>>, <<"result", p>>, d, q)
      BY <1>a, <1>7, <2>1, <2>2, PlacesDiffer DEF TakesInbound, AtPunch, At
    <3> QED
      BY Zenon, <3>1, <3>2, <3>3, MovesByPlace
  <2> HIDE DEF c
  <2> QED
    BY Zenon, <2>1, <2>3, OneMoves
<1>8. ASSUME NEW p \in Punches, TakesDialed(p) PROVE Held'
  <2> DEFINE c == dialed[p]
  <2>1. c \in Conns /\ Holds(<<"dialed", p>>, c) /\ UNCHANGED fresh /\ result[p] = nil
    BY Zenon, <1>8 DEF TakesDialed, PunchTypeOK, Holds, Once
  <2>2. \A q \in Punches : /\ dialed'[q] = IF q = p THEN nil ELSE dialed[q]
                           /\ result'[q] = IF q = p THEN c ELSE result[q]
    BY Zenon, <1>8 DEF TakesDialed, PunchTypeOK
  <2>3. Moves(c, <<"dialed", p>>, <<"result", p>>)
    <3>1. Place(<<"result", p>>)
      BY Zenon DEF Place
    <3>2. \A d \in Conns : Elsewhere(c, <<"dialed", p>>, <<"result", p>>, d)
      BY Zenon, <1>a, <1>8, <2>1, <2>2, PlacesDiffer DEF TakesDialed, Elsewhere, At
    <3>3. \A d \in Conns : \A q \in Punches : AtPunch(c, <<"dialed", p>>, <<"result", p>>, d, q)
      BY <1>a, <1>8, <2>1, <2>2, PlacesDiffer DEF TakesDialed, AtPunch, At
    <3> QED
      BY Zenon, <3>1, <3>2, <3>3, MovesByPlace
  <2> HIDE DEF c
  <2> QED
    BY Zenon, <2>1, <2>3, OneMoves
<1>10. ASSUME NEW p \in Punches, GivesUp(p) PROVE Held'
  <2>0. \A q \in Punches : \A d \in Conns : (result'[q] = d) <=> (result[q] = d)
    BY Zenon, <1>a, <1>10 DEF GivesUp, PunchTypeOK, Once
  <2>1. \A d \in Conns : \A h : Holds(h, d)' <=> Holds(h, d)
    BY Zenon, <1>10, <2>0, StaysByPlace DEF GivesUp
  <2> QED
    BY Zenon, <2>1, <1>10, NothingMoves DEF GivesUp
<1>12. ASSUME NEW p \in Punches, NEW c \in Conns, DialSucceeds(p, c) PROVE Held'
  <2>0. \A q \in Punches : dialing'[q] = IF q = p THEN c ELSE dialing[q]
    BY Zenon, <1>12 DEF DialSucceeds, PunchTypeOK
  <2>1. Appears(c, <<"dialing", p>>)
    <3>1. Place(<<"dialing", p>>)
      BY Zenon DEF Place
    <3>2. \A d \in Conns : Elsewhere(c, <<"dialing", p>>, <<"dialing", p>>, d)
      BY Zenon, <1>a, <1>12, <2>0, PlacesDiffer DEF DialSucceeds, Elsewhere, At
    <3>3. \A d \in Conns : \A q \in Punches : AtPunch(c, <<"dialing", p>>, <<"dialing", p>>, d, q)
      BY <1>a, <1>12, <2>0, PlacesDiffer DEF DialSucceeds, AtPunch, At
    <3> QED
      BY Zenon, <3>1, <3>2, <3>3, MovesByPlace DEF Appears
  <2>2. c \in fresh /\ fresh' = fresh \ {c}
    BY Zenon, <1>12 DEF DialSucceeds
  <2> QED
    BY Zenon, <2>1, <2>2, OneMade
<1>13. ASSUME NEW p \in Punches, DialOffers(p) PROVE Held'
  <2> DEFINE c == dialing[p]
  <2>1. c \in Conns /\ Holds(<<"dialing", p>>, c) /\ UNCHANGED fresh /\ dialed[p] = nil
    BY Zenon, <1>a, <1>13 DEF DialOffers, PunchTypeOK, Holds, Once
  <2>2. \A q \in Punches : /\ dialed'[q] = IF q = p THEN c ELSE dialed[q]
                           /\ dialing'[q] = IF q = p THEN "off" ELSE dialing[q]
    BY Zenon, <1>13 DEF DialOffers, PunchTypeOK
  <2>3. Moves(c, <<"dialing", p>>, <<"dialed", p>>)
    <3>1. Place(<<"dialed", p>>)
      BY Zenon DEF Place
    <3>2. \A d \in Conns : Elsewhere(c, <<"dialing", p>>, <<"dialed", p>>, d)
      BY Zenon, <1>a, <1>13, <2>1, <2>2, PlacesDiffer DEF DialOffers, Elsewhere, At
    <3>3. \A d \in Conns : \A q \in Punches : AtPunch(c, <<"dialing", p>>, <<"dialed", p>>, d, q)
      BY <1>a, <1>13, <2>1, <2>2, PlacesDiffer DEF DialOffers, AtPunch, At
    <3> QED
      BY Zenon, <3>1, <3>2, <3>3, MovesByPlace
  <2> HIDE DEF c
  <2> QED
    BY Zenon, <2>1, <2>3, OneMoves
<1>14. ASSUME NEW p \in Punches, DialStops(p) PROVE Held'
  <2>0. \A q \in Punches : \A d \in Conns : (dialing'[q] = d) <=> (dialing[q] = d)
    BY Zenon, <1>a, <1>14 DEF DialStops, PunchTypeOK
  <2>1. \A d \in Conns : \A h : Holds(h, d)' <=> Holds(h, d)
    BY Zenon, <1>14, <2>0, StaysByPlace DEF DialStops
  <2> QED
    BY Zenon, <2>1, <1>14, NothingMoves DEF DialStops
<1> QED
  BY Zenon, <1>1, <1>2, <1>3, <1>4, <1>6, <1>7, <1>8, <1>10, <1>12, <1>13, <1>14
     DEF PunchNext, PunchCall, dialLoop, Close, register, unregister, ContextDone, punchVars

-----------------------------------------------------------------------------
\* The initial state.
LEMMA PunchInitially == PunchInit => PunchInv
<1> SUFFICES ASSUME PunchInit PROVE PunchInv
  OBVIOUS
<1>a. {nil, "on", "off", "failed"} \cap Conns = {}
  BY Zenon, PunchAssumption
<1>1. PunchTypeOK
  BY Zenon DEF PunchInit, PunchTypeOK
<1>2. \A p \in Punches : Once(p)
  BY Zenon DEF PunchInit, Once
<1>3. FromTarget
  BY Zenon, <1>a DEF PunchInit, FromTarget
<1>4. Held
  <2>1. \A c \in Conns : \A h : ~Holds(h, c)
    BY Zenon, <1>a DEF PunchInit, Holds
  <2>2. \A c \in Conns : Places(c) = {} /\ c \in fresh
    BY Zenon, <2>1, PlacesAre DEF PunchInit
  <2> QED
    BY <2>2, Zenon DEF Held
<1>5. RouteFindsLive
  BY Zenon DEF PunchInit, RouteFindsLive, Running
<1> QED
  BY Zenon, <1>1, <1>2, <1>3, <1>4, <1>5 DEF PunchInv

\* PunchInv is inductive.
LEMMA PunchInductive == PunchSpec => []PunchInv
<1>1. PunchInv /\ [PunchNext]_punchVars => PunchInv'
  BY Zenon, PunchTypesStep, OnceStep, FromStep, HeldStep, RouteStep DEF PunchInv
<1> QED
  BY <1>1, PunchInitially, PTL DEF PunchSpec

\* punch.go's channels, registrations and results keep their types.
THEOREM PunchTypeCorrect == PunchSpec => []PunchTypeOK
<1>1. PunchInv => PunchTypeOK
  BY Zenon DEF PunchInv
<1> QED
  BY <1>1, PunchInductive, PTL

\* No connection is given to two by route, Punch or dialLoop, and none is lost but
\* in a channel of a punch that was done.
THEOREM HeldOnceOrLeftBehind == PunchSpec => []OneHolder
<1>1. PunchInv => OneHolder
  BY Zenon DEF PunchInv, Held, OneHolder, Places
<1> QED
  BY <1>1, PunchInductive, PTL

\* Punch returns a connection of the address it was asked for.
THEOREM PunchedTheRightPeer == PunchSpec => []ResultIsFromTarget
<1>1. PunchInv => ResultIsFromTarget
  BY Zenon DEF PunchInv, FromTarget, ResultIsFromTarget
<1> QED
  BY <1>1, PunchInductive, PTL

\* route never finds a punch that has returned, and finds one that is running unless
\* another punch of the same address took the entry away.
THEOREM RouteFindsARunningPunch == PunchSpec => []RouteFindsLive
<1>1. PunchInv => RouteFindsLive
  BY Zenon DEF PunchInv
<1> QED
  BY <1>1, PunchInductive, PTL
================================================================================
