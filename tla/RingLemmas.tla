----------------------------- MODULE RingLemmas -----------------------------
(***************************************************************************)
(* Facts about ring buffers, whatever is kept in them: where one comes on  *)
(* going round, and what the occupied part of a ring holds, oldest first,  *)
(* when something is stored behind it or taken from its front.             *)
(***************************************************************************)
EXTENDS Integers, Sequences, SequenceTheorems, TLAPS

(* The slot one comes to k steps on from slot h in a ring of n. *)
Slot(n, h, k) == (h + k) % n

(* Division of what is less than the divisor. *)
LEMMA Small == ASSUME NEW n \in Nat \ {0}, NEW x \in 0 .. n - 1 PROVE x % n = x
OBVIOUS

(* Division of what is less than twice the divisor. *)
LEMMA Wrapped == ASSUME NEW n \in Nat \ {0}, NEW x \in n .. 2 * n - 1 PROVE x % n = x - n
OBVIOUS

(* Up to once round. *)
LEMMA SlotIs ==
  ASSUME NEW n, NEW h, NEW k,
         n \in Nat \ {0}, h \in 0 .. n - 1, k \in 0 .. n
  PROVE  Slot(n, h, k) = IF h + k < n THEN h + k ELSE h + k - n
<1>1. CASE h + k < n
  BY <1>1, h + k \in 0 .. n - 1, Small DEF Slot
<1>2. CASE h + k >= n
  BY <1>2, h + k \in n .. 2 * n - 1, Wrapped DEF Slot
<1> QED BY <1>1, <1>2

(* A slot is one of the ring. *)
LEMMA SlotRange ==
  ASSUME NEW n, NEW h, NEW k,
         n \in Nat \ {0}, h \in Int, k \in Int
  PROVE  Slot(n, h, k) \in 0 .. n - 1
BY DEF Slot

(* No step, and once round. *)
LEMMA SlotNowhere ==
  ASSUME NEW n, NEW h,
         n \in Nat \ {0}, h \in 0 .. n - 1
  PROVE  Slot(n, h, 0) = h /\ Slot(n, h, n) = h
BY SlotIs

(* Going on from there. *)
LEMMA SlotsAdd ==
  ASSUME NEW n, NEW h, NEW k, NEW i,
         n \in Nat \ {0}, h \in 0 .. n - 1, k \in Nat, i \in Nat, k + i <= n
  PROVE  Slot(n, Slot(n, h, k), i) = Slot(n, h, k + i)
<1>1. Slot(n, h, k) = IF h + k < n THEN h + k ELSE h + k - n
  BY SlotIs
<1>2. Slot(n, h, k) \in 0 .. n - 1
  BY <1>1
<1>3. Slot(n, h, k + i) = IF h + (k + i) < n THEN h + (k + i) ELSE h + (k + i) - n
  BY SlotIs
<1>4. Slot(n, Slot(n, h, k), i) = IF Slot(n, h, k) + i < n THEN Slot(n, h, k) + i ELSE Slot(n, h, k) + i - n
  BY <1>2, SlotIs
<1> QED BY <1>1, <1>2, <1>3, <1>4

(* Different places of the ring are different slots. *)
LEMMA SlotsDiffer ==
  ASSUME NEW n, NEW h, NEW i, NEW j,
         n \in Nat \ {0}, h \in 0 .. n - 1, i \in 0 .. n - 1, j \in 0 .. n - 1,
         Slot(n, h, i) = Slot(n, h, j)
  PROVE  i = j
<1>1. ASSUME NEW k, k \in 0 .. n - 1
      PROVE  \/ h + k < n /\ Slot(n, h, k) = h + k
             \/ h + k >= n /\ Slot(n, h, k) = h + k - n
  BY <1>1, SlotIs
<1> QED BY <1>1

-----------------------------------------------------------------------------
(* What is in the c slots from h on, oldest first. *)
Held(buf, n, h, c) == [i \in 1 .. c |-> buf[(h + i - 1) % n]]

(* The i-th oldest. *)
LEMMA HeldAt ==
  ASSUME NEW buf, NEW n, NEW h, NEW c, NEW i,
         h \in Int, c \in Nat, i \in 1 .. c
  PROVE  Held(buf, n, h, c)[i] = buf[Slot(n, h, i - 1)]
BY h + i - 1 = h + (i - 1) DEF Held, Slot

(* What is there is of a set. *)
Keeps(buf, n, h, c, S) ==
  /\ DOMAIN buf = 0 .. n - 1
  /\ \A i \in 0 .. c - 1 : buf[Slot(n, h, i)] \in S

(* What is held is a sequence of that set, of the right length. *)
LEMMA HeldSeq ==
  ASSUME NEW S, NEW buf, NEW n, NEW h, NEW c,
         n \in Nat \ {0}, h \in 0 .. n - 1, c \in Nat, Keeps(buf, n, h, c, S)
  PROVE  Held(buf, n, h, c) \in Seq(S) /\ Len(Held(buf, n, h, c)) = c
<1>1. ASSUME NEW i \in 1 .. c PROVE Held(buf, n, h, c)[i] \in S
  BY HeldAt DEF Keeps
<1>2. Held(buf, n, h, c) \in [1 .. c -> S]
  BY <1>1 DEF Held
<1> QED BY <1>2

(* Something is stored behind what is held. *)
LEMMA HeldPut ==
  ASSUME NEW S, NEW buf, NEW n, NEW h, NEW c, NEW e,
         n \in Nat \ {0}, h \in 0 .. n - 1, c \in 0 .. n - 1, e \in S,
         Keeps(buf, n, h, c, S)
  PROVE  LET b == [buf EXCEPT ![Slot(n, h, c)] = e]
         IN  /\ Held(b, n, h, c + 1) = Append(Held(buf, n, h, c), e)
             /\ Keeps(b, n, h, c + 1, S)
<1> DEFINE b == [buf EXCEPT ![Slot(n, h, c)] = e]
           s == Held(buf, n, h, c)
           s2 == Held(b, n, h, c + 1)
<1>0. c \in Nat /\ c + 1 \in Nat
  OBVIOUS
<1>1. Slot(n, h, c) \in 0 .. n - 1
  BY SlotRange
<1>2. b[Slot(n, h, c)] = e /\ DOMAIN b = 0 .. n - 1
  BY <1>1 DEF Keeps
<1>3. ASSUME NEW i \in 0 .. c - 1
      PROVE  b[Slot(n, h, i)] = buf[Slot(n, h, i)]
  <2>1. Slot(n, h, i) # Slot(n, h, c)
    BY SlotsDiffer
  <2>2. Slot(n, h, i) \in 0 .. n - 1
    BY SlotRange
  <2> QED BY <2>1, <2>2 DEF Keeps
<1> HIDE DEF b
<1>4. Keeps(b, n, h, c + 1, S)
  BY <1>2, <1>3 DEF Keeps
<1>5. s \in Seq(S) /\ Len(s) = c
  BY <1>0, HeldSeq
<1>6. s2 \in Seq(S) /\ Len(s2) = c + 1
  BY <1>0, <1>4, HeldSeq
<1>7. \A i \in 1 .. c : s[i] = buf[Slot(n, h, i - 1)]
  BY <1>0, HeldAt
<1>8. \A i \in 1 .. c + 1 : s2[i] = b[Slot(n, h, i - 1)]
  BY <1>0, HeldAt
<1> HIDE DEF s, s2
<1>9. /\ Append(s, e) \in Seq(S)
      /\ Len(Append(s, e)) = c + 1
      /\ \A i \in 1 .. c : Append(s, e)[i] = s[i]
      /\ Append(s, e)[c + 1] = e
  BY <1>5, AppendProperties
<1>10. ASSUME NEW i \in 1 .. c + 1
       PROVE  s2[i] = Append(s, e)[i]
  <2>1. CASE i = c + 1
    BY <1>2, <1>8, <1>9, <2>1
  <2>2. CASE i # c + 1
    <3>1. i \in 1 .. c
      BY <1>0, <2>2
    <3> QED BY <1>3, <1>7, <1>8, <1>9, <3>1
  <2> QED BY <2>1, <2>2
<1>11. s2 = Append(s, e)
  BY <1>6, <1>9, <1>10, SeqEqual
<1> QED BY <1>4, <1>11 DEF b, s, s2

(* The k oldest are taken. *)
LEMMA HeldTake ==
  ASSUME NEW S, NEW buf, NEW n, NEW h, NEW c, NEW k,
         n \in Nat \ {0}, h \in 0 .. n - 1, c \in 0 .. n, k \in 0 .. c,
         Keeps(buf, n, h, c, S)
  PROVE  LET s == Held(buf, n, h, c)
         IN  /\ Held(buf, n, Slot(n, h, k), c - k) = SubSeq(s, k + 1, Len(s))
             /\ Keeps(buf, n, Slot(n, h, k), c - k, S)
<1> DEFINE s == Held(buf, n, h, c)
           h2 == Slot(n, h, k)
           s2 == Held(buf, n, h2, c - k)
<1>0. c \in Nat /\ c - k \in Nat
  OBVIOUS
<1>1. s \in Seq(S) /\ Len(s) = c
  BY <1>0, HeldSeq
<1>2. h2 \in 0 .. n - 1
  BY SlotRange
<1>3. \A i \in 0 .. c - k : Slot(n, h2, i) = Slot(n, h, k + i)
  BY SlotsAdd
<1>4. \A i \in 1 .. c : s[i] = buf[Slot(n, h, i - 1)]
  BY <1>0, HeldAt
<1> HIDE DEF s, h2
<1>5. Keeps(buf, n, h2, c - k, S)
  BY <1>3 DEF Keeps
<1>6. s2 \in Seq(S) /\ Len(s2) = c - k
  BY <1>0, <1>2, <1>5, HeldSeq
<1>7. \A i \in 1 .. c - k : s2[i] = buf[Slot(n, h2, i - 1)]
  BY <1>0, <1>2, HeldAt
<1> HIDE DEF s2
<1>8. \A i \in k + 1 .. c : s[i] \in S
  BY <1>1
<1>9. /\ SubSeq(s, k + 1, c) \in Seq(S)
      /\ Len(SubSeq(s, k + 1, c)) = c - k
      /\ \A i \in 1 .. c - k : SubSeq(s, k + 1, c)[i] = s[k + i]
  BY <1>8, SubSeqProperties
<1>10. ASSUME NEW i \in 1 .. c - k
       PROVE  s2[i] = SubSeq(s, k + 1, c)[i]
  <2>1. Slot(n, h2, i - 1) = Slot(n, h, k + i - 1)
    BY <1>3, k + (i - 1) = k + i - 1
  <2> QED BY <1>4, <1>7, <1>9, <2>1
<1>11. s2 = SubSeq(s, k + 1, c)
  BY <1>6, <1>9, <1>10, SeqEqual
<1> QED BY <1>1, <1>5, <1>11 DEF s, s2, h2
=============================================================================
