----------------------------- MODULE ReplayWindow -----------------------------
(***************************************************************************)
(* The sliding replay window of internal/proto/replay.go at the level of   *)
(* its words and bits.  A word is the function from bit positions to       *)
(* BOOLEAN that a uint64 stands for; the bitmap is an array of words.      *)
(* Bit 0 of word 0 is the highest sequence number, and the number `age`    *)
(* below it lives at bit age % WordBits of word age \div WordBits.         *)
(*                                                                         *)
(* The code has WordBits = 64 and Words = 16 (windowSize = 1024).          *)
(***************************************************************************)
EXTENDS Integers

CONSTANTS
  WordBits,     \* bits of a word (64 in the code)
  Words,        \* words of the bitmap (windowSize / 64 = 16 in the code)
  Seqs          \* the sequence numbers that frames may carry

ASSUME SizeAssumption ==
  /\ WordBits \in Nat \ {0}
  /\ Words \in Nat \ {0}
  /\ Seqs \subseteq Nat

VARIABLES
  highest,      \* replayWindow.highest
  started,      \* replayWindow.started
  bitmap,       \* replayWindow.bitmap
  accepted,     \* history: every sequence number check() returned true for
  last          \* history: the latest argument of check() and its result

vars == <<highest, started, bitmap, accepted, last>>

windowSize == WordBits * Words
Bits == 0 .. WordBits - 1
Word == [Bits -> BOOLEAN]
ZeroWord == [b \in Bits |-> FALSE]
ZeroBitmap == [i \in 0 .. Words - 1 |-> ZeroWord]

\* v << n, v >> n and v | w on words; n may be WordBits, as in Go.
Shl(v, n) == [b \in Bits |-> IF b >= n THEN v[b - n] ELSE FALSE]
Shr(v, n) == [b \in Bits |-> IF b + n < WordBits THEN v[b + n] ELSE FALSE]
Or(v, w) == [b \in Bits |-> v[b] \/ w[b]]

-----------------------------------------------------------------------------
\* Mutation: the bits that cross from one word to the next are forgotten.
SlidWordNoCarry(map, words, bits, i) ==
  IF i - words < 0 THEN ZeroWord ELSE Shl(map[i - words], bits)

\* slide: the new word i after the window moved by `shift` positions.  The
\* loop runs from the top word down, so every word it reads is an old one.
SlidWord(map, words, bits, i) ==
  LET src == i - words IN
  IF src < 0 THEN ZeroWord
  ELSE IF bits # 0 /\ src - 1 >= 0
       THEN Or(Shl(map[src], bits), Shr(map[src - 1], WordBits - bits))
       ELSE Shl(map[src], bits)

Slide(map, shift) ==
  IF shift >= windowSize THEN ZeroBitmap
  ELSE [i \in 0 .. Words - 1 |->
          SlidWord(map, shift \div WordBits, shift % WordBits, i)]

\* mark and seen address the bit of the number `age` below the highest.
Mark(map, age) ==
  [map EXCEPT ![age \div WordBits][age % WordBits] = TRUE]

Seen(map, age) == map[age \div WordBits][age % WordBits]

-----------------------------------------------------------------------------
Answer(seq, ok) ==
  /\ last' = [seq |-> seq, ok |-> ok]
  /\ accepted' = IF ok THEN accepted \cup {seq} ELSE accepted

CheckFirst(seq) ==
  /\ ~started
  /\ started' = TRUE
  /\ highest' = seq
  /\ bitmap' = Mark(bitmap, 0)
  /\ Answer(seq, TRUE)

CheckAhead(seq) ==
  /\ started
  /\ seq > highest
  /\ highest' = seq
  /\ bitmap' = Mark(Slide(bitmap, seq - highest), 0)
  /\ Answer(seq, TRUE)
  /\ UNCHANGED started

\* Mutations: the bit is not consulted; the window is one number too short.
UnseenNoBitTest(seq) ==
  /\ seq # highest
  /\ highest - seq < windowSize

UnseenShort(seq) ==
  /\ seq # highest
  /\ highest - seq < windowSize - 1
  /\ ~Seen(bitmap, highest - seq)

\* Not a duplicate of the highest, not fallen out of the window, and its bit
\* is not set.
Unseen(seq) ==
  /\ seq # highest
  /\ highest - seq < windowSize
  /\ ~Seen(bitmap, highest - seq)

CheckLate(seq) ==
  /\ started
  /\ seq <= highest
  /\ Unseen(seq)
  /\ bitmap' = Mark(bitmap, highest - seq)
  /\ Answer(seq, TRUE)
  /\ UNCHANGED <<highest, started>>

CheckRefused(seq) ==
  /\ started
  /\ seq <= highest
  /\ ~Unseen(seq)
  /\ Answer(seq, FALSE)
  /\ UNCHANGED <<highest, started, bitmap>>

check(seq) ==
  \/ CheckFirst(seq)
  \/ CheckAhead(seq)
  \/ CheckLate(seq)
  \/ CheckRefused(seq)

Init ==
  /\ highest = 0
  /\ started = FALSE
  /\ bitmap = ZeroBitmap
  /\ accepted = {}
  /\ last = [seq |-> -1, ok |-> FALSE]

Next == \E seq \in Seqs : check(seq)

Spec == Init /\ [][Next]_vars

-----------------------------------------------------------------------------
\* The fields of the window have the types the struct gives them.
TypeOK ==
  /\ highest \in Nat
  /\ started \in BOOLEAN
  /\ bitmap \in [0 .. Words - 1 -> Word]
  /\ accepted \in SUBSET Nat
  /\ last \in [seq : Nat \cup {-1}, ok : BOOLEAN]

\* The bitmap remembers exactly the numbers check() accepted among the last
\* windowSize ones: a set bit is an accepted number and an accepted number
\* that is still in range has its bit set, however the window slid since.
BitmapMeansAccepted ==
  \A age \in 0 .. windowSize - 1 :
    Seen(bitmap, age) <=> (started /\ highest - age \in accepted)

\* check() never returns true twice for the same sequence number, whatever
\* the order, the gaps and the repetitions in which the numbers arrive.
NeverAcceptedTwice == [][last'.ok => last'.seq \notin accepted]_vars

\* The specification without a bitmap, over the same numbers.
Abstract == INSTANCE ReplaySet

\* check() over words and bits answers every question as the set-based
\* specification does: accepted iff unseen and inside the window.
ImplementsReplaySet == Abstract!Spec
==============================================================================
