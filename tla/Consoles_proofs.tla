----------------------------- MODULE Consoles_proofs -----------------------------
(***************************************************************************)
(* The two consoles, for every size of their rings and FIFOs, every        *)
(* program and every number of bytes.                                      *)
(***************************************************************************)
EXTENDS MCHal, SequenceTheorems, FiniteSetTheorems, TLAPS

(***************************************************************************)
(* Rings of N slots.                                                       *)
(***************************************************************************)
Slots(N) == 0..(N - 1)

Held(N, out, in) == (N + in - out) % N

(* The slot of a place that may be one round ahead.                        *)
Slot(N, x) == x % N

LEMMA WrapAround ==
    ASSUME NEW N \in Nat \ {0, 1}, NEW x \in Nat, x < N + N
    PROVE  Slot(N, x) = IF x < N THEN x ELSE x - N
  BY DEF Slot

(* What a ring holds once n bytes were put into it, or taken out of it.    *)
LEMMA HeldIsShort ==
    ASSUME NEW N \in Nat \ {0, 1}, NEW out \in Slots(N), NEW in \in Slots(N)
    PROVE  /\ Held(N, out, in) \in 0..(N - 1)
           /\ Held(N, out, in) = IF in >= out THEN in - out ELSE N + in - out
<1>1. N \in Nat /\ N > 1
  OBVIOUS
<1>2. N + in - out \in Nat /\ N + in - out < N + N
  BY <1>1 DEF Slots
<1>3. Held(N, out, in) = IF N + in - out < N THEN N + in - out ELSE N + in - out - N
  <2>1. Slot(N, N + in - out) = IF N + in - out < N THEN N + in - out ELSE N + in - out - N
    BY <1>1, <1>2, WrapAround DEF Slots
  <2> QED
    BY <2>1 DEF Slot, Held
<1> QED
  BY <1>1, <1>2, <1>3 DEF Slots

LEMMA PutBytes ==
    ASSUME NEW N \in Nat \ {0, 1}, NEW out \in Slots(N), NEW in \in Slots(N), NEW n \in Nat, Held(N, out, in) + n < N
    PROVE  /\ Slot(N, in + n) \in Slots(N)
           /\ Held(N, out, Slot(N, in + n)) = Held(N, out, in) + n
           /\ Slot(N, out + Held(N, out, in)) = in
<1>1. N \in Nat /\ N > 1
  OBVIOUS
<1>2. /\ Held(N, out, in) \in 0..(N - 1)
      /\ Held(N, out, in) = IF in >= out THEN in - out ELSE N + in - out
  BY HeldIsShort
<1>3. /\ in + n \in Nat /\ in + n < N + N
      /\ out + Held(N, out, in) \in Nat /\ out + Held(N, out, in) < N + N
  BY <1>1, <1>2 DEF Slots
<1>4. Slot(N, in + n) = IF in + n < N THEN in + n ELSE in + n - N
  <2>1. Slot(N, in + n) = IF in + n < N THEN in + n ELSE in + n - N
    BY <1>1, <1>3, WrapAround DEF Slots
  <2> QED
    BY <2>1 DEF Slot
<1>5. Slot(N, in + n) \in Slots(N)
  BY <1>1, <1>3, <1>4 DEF Slots
<1>6. Held(N, out, Slot(N, in + n)) = Held(N, out, in) + n
  <2>1. Held(N, out, Slot(N, in + n)) = IF Slot(N, in + n) >= out THEN (Slot(N, in + n)) - out
                                     ELSE N + (Slot(N, in + n)) - out
    BY <1>5, HeldIsShort
  <2> QED
    BY <1>1, <1>2, <1>4, <2>1 DEF Slots
<1>7. Slot(N, out + Held(N, out, in)) = in
  BY <1>1, <1>2, <1>3, WrapAround DEF Slots
<1> QED
  BY <1>5, <1>6, <1>7

LEMMA TakeBytes ==
    ASSUME NEW N \in Nat \ {0, 1}, NEW out \in Slots(N), NEW in \in Slots(N), NEW n \in 0..Held(N, out, in)
    PROVE  /\ Slot(N, out + n) \in Slots(N)
           /\ Held(N, Slot(N, out + n), in) = Held(N, out, in) - n
           /\ \A k \in 0..(Held(N, out, in) - n - 1) :
                 Slot(N, (Slot(N, out + n)) + k) = Slot(N, out + (n + k))
<1>1. N \in Nat /\ N > 1
  OBVIOUS
<1>2. /\ Held(N, out, in) \in 0..(N - 1)
      /\ Held(N, out, in) = IF in >= out THEN in - out ELSE N + in - out
  BY HeldIsShort
<1>3. out + n \in Nat /\ out + n < N + N
  BY <1>1, <1>2 DEF Slots
<1>4. Slot(N, out + n) = IF out + n < N THEN out + n ELSE out + n - N
  <2>1. Slot(N, out + n) = IF out + n < N THEN out + n ELSE out + n - N
    BY <1>1, <1>3, WrapAround DEF Slots
  <2> QED
    BY <2>1 DEF Slot
<1>5. Slot(N, out + n) \in Slots(N)
  BY <1>1, <1>3, <1>4 DEF Slots
<1>6. Held(N, Slot(N, out + n), in) = Held(N, out, in) - n
  <2>1. Held(N, Slot(N, out + n), in) = IF in >= Slot(N, out + n) THEN in - (Slot(N, out + n))
                                     ELSE N + in - (Slot(N, out + n))
    BY <1>5, HeldIsShort
  <2> QED
    BY <1>1, <1>2, <1>4, <2>1 DEF Slots
<1>7. ASSUME NEW k \in 0..(Held(N, out, in) - n - 1)
      PROVE  Slot(N, (Slot(N, out + n)) + k) = Slot(N, out + (n + k))
  <2>1. /\ (Slot(N, out + n)) + k \in Nat /\ (Slot(N, out + n)) + k < N + N
        /\ out + (n + k) \in Nat /\ out + (n + k) < N + N
    BY <1>1, <1>2, <1>5 DEF Slots
  <2>2. Slot(N, (Slot(N, out + n)) + k) =
          IF (Slot(N, out + n)) + k < N THEN (Slot(N, out + n)) + k
          ELSE (Slot(N, out + n)) + k - N
    <3>1. Slot(N, (Slot(N, out + n)) + k) = IF (Slot(N, out + n)) + k < N THEN (Slot(N, out + n)) + k ELSE (Slot(N, out + n)) + k - N
      BY <1>1, <2>1, WrapAround DEF Slots
    <3> QED
      BY <3>1 DEF Slot
  <2>3. Slot(N, out + (n + k)) =
          IF out + (n + k) < N THEN out + (n + k) ELSE out + (n + k) - N
    <3>1. Slot(N, out + (n + k)) = IF out + (n + k) < N THEN out + (n + k) ELSE out + (n + k) - N
      BY <1>1, <2>1, WrapAround DEF Slots
    <3> QED
      BY <3>1 DEF Slot
  <2> QED
    BY <1>1, <1>2, <1>4, <2>2, <2>3 DEF Slots
<1> QED
  BY <1>5, <1>6, <1>7

(* Two places less than a ring apart are two slots, and no place that is   *)
(* held is the slot behind the last one.                                   *)
LEMMA PlacesDiffer ==
    ASSUME NEW N \in Nat \ {0, 1}, NEW out \in Slots(N), NEW in \in Slots(N), NEW k \in 0..(Held(N, out, in) - 1)
    PROVE  /\ Slot(N, out + k) \in Slots(N)
           /\ Slot(N, out + k) # in
           /\ \A n \in Nat : Held(N, out, in) + n < N /\ in + n <= N
                 => Slot(N, out + k) \notin in..(in + n - 1)
<1>1. N \in Nat /\ N > 1
  OBVIOUS
<1>2. /\ Held(N, out, in) \in 0..(N - 1)
      /\ Held(N, out, in) = IF in >= out THEN in - out ELSE N + in - out
  BY HeldIsShort
<1>3. out + k \in Nat /\ out + k < N + N
  BY <1>1, <1>2 DEF Slots
<1>4. Slot(N, out + k) = IF out + k < N THEN out + k ELSE out + k - N
  <2>1. Slot(N, out + k) = IF out + k < N THEN out + k ELSE out + k - N
    BY <1>1, <1>3, WrapAround DEF Slots
  <2> QED
    BY <2>1 DEF Slot
<1> QED
  BY <1>1, <1>2, <1>4 DEF Slots

(* Beyond the last byte are the slots that follow the end.                 *)
LEMMA BehindLast ==
    ASSUME NEW N \in Nat \ {0, 1}, NEW out \in Slots(N), NEW in \in Slots(N), NEW k \in Nat, in + k < N
    PROVE  Slot(N, out + (Held(N, out, in) + k)) = in + k
<1>1. N \in Nat /\ N > 1
  OBVIOUS
<1>2. /\ Held(N, out, in) \in 0..(N - 1)
      /\ Held(N, out, in) = IF in >= out THEN in - out ELSE N + in - out
  BY HeldIsShort
<1>3. out + (Held(N, out, in) + k) \in Nat /\ out + (Held(N, out, in) + k) < N + N
  BY <1>1, <1>2 DEF Slots
<1>4. Slot(N, out + (Held(N, out, in) + k)) = in + k
  BY <1>1, <1>2, <1>3, WrapAround DEF Slots
<1> QED
  BY <1>4 DEF Slot

(* There is room for one more unless the next slot is the start.           *)
LEMMA NotFull ==
    ASSUME NEW N \in Nat \ {0, 1}, NEW out \in Slots(N), NEW in \in Slots(N), Slot(N, in + 1) # out
    PROVE  Held(N, out, in) + 1 < N
<1>1. N \in Nat /\ N > 1
  OBVIOUS
<1>2. /\ Held(N, out, in) \in 0..(N - 1)
      /\ Held(N, out, in) = IF in >= out THEN in - out ELSE N + in - out
  BY HeldIsShort
<1>3. Slot(N, in + 1) = IF in + 1 < N THEN in + 1 ELSE in + 1 - N
  BY <1>1, WrapAround DEF Slots
<1>4. Slot(N, in + 1) # out
  BY DEF Slot
<1> QED
  BY <1>1, <1>2, <1>3, <1>4 DEF Slots

(* What a ring holds, in order.                                            *)
RingOf(N, buf, out, in) == [i \in 1..Held(N, out, in) |-> buf[Slot(N, out + i - 1)]]

LEMMA RingIsSequence ==
    ASSUME NEW N \in Nat \ {0, 1}, NEW out \in Slots(N), NEW in \in Slots(N),
           NEW buf \in [Slots(N) -> Nat]
    PROVE  /\ RingOf(N, buf, out, in) \in Seq(Nat)
           /\ Len(RingOf(N, buf, out, in)) = Held(N, out, in)
           /\ \A i \in 1..Held(N, out, in) : RingOf(N, buf, out, in)[i] = buf[Slot(N, out + (i - 1))]
<1>1. Held(N, out, in) \in Nat
  BY HeldIsShort
<1>2. ASSUME NEW i \in 1..Held(N, out, in)
      PROVE  /\ RingOf(N, buf, out, in)[i] = buf[Slot(N, out + (i - 1))]
             /\ RingOf(N, buf, out, in)[i] \in Nat
  <2>1. i - 1 \in 0..(Held(N, out, in) - 1)
    BY <1>1
  <2>2. Slot(N, out + (i - 1)) \in Slots(N)
    BY <2>1, PlacesDiffer
  <2>3. out + (i - 1) = out + i - 1
    BY <1>1 DEF Slots
  <2> QED
    BY <2>2, <2>3 DEF RingOf
<1>3. RingOf(N, buf, out, in) = [i \in 1..Held(N, out, in) |-> RingOf(N, buf, out, in)[i]]
  BY DEF RingOf
<1>4. RingOf(N, buf, out, in) \in [1..Held(N, out, in) -> Nat]
  BY <1>2, <1>3
<1> HIDE DEF RingOf
<1> QED
  BY <1>1, <1>2, <1>4

(* Bytes that are taken out leave the others.                              *)
LEMMA RingWithout ==
    ASSUME NEW N \in Nat \ {0, 1}, NEW out \in Slots(N), NEW in \in Slots(N),
           NEW buf \in [Slots(N) -> Nat], NEW n \in 0..Held(N, out, in)
    PROVE  RingOf(N, buf, Slot(N, out + n), in)
             = SubSeq(RingOf(N, buf, out, in), n + 1, Held(N, out, in))
<1> DEFINE later == Slot(N, out + n)
           old  == RingOf(N, buf, out, in)
           new  == RingOf(N, buf, later, in)
           h    == Held(N, out, in)
<1>1. /\ later \in Slots(N) /\ Held(N, later, in) = h - n
      /\ \A k \in 0..(h - n - 1) : Slot(N, later + k) = Slot(N, out + (n + k))
  BY TakeBytes
<1> HIDE DEF later
<1>2. h \in Nat /\ n \in Nat /\ n <= h
  BY HeldIsShort
<1>3. /\ old \in Seq(Nat) /\ Len(old) = h
      /\ \A i \in 1..h : old[i] = buf[Slot(N, out + (i - 1))]
  BY RingIsSequence
<1>4. /\ new \in Seq(Nat) /\ Len(new) = h - n
      /\ \A i \in 1..(h - n) : new[i] = buf[Slot(N, later + (i - 1))]
  BY <1>1, RingIsSequence
<1> HIDE DEF old, new, h
<1>5. /\ SubSeq(old, n + 1, h) \in Seq(Nat) /\ Len(SubSeq(old, n + 1, h)) = h - n
      /\ \A i \in 1..(h - n) : SubSeq(old, n + 1, h)[i] = old[n + i]
  BY <1>2, <1>3
<1>6. ASSUME NEW i \in 1..(h - n) PROVE new[i] = SubSeq(old, n + 1, h)[i]
  <2>1. i - 1 \in 0..(h - n - 1) /\ n + i \in 1..h /\ n + i - 1 = n + (i - 1)
    BY <1>2
  <2>2. new[i] = buf[Slot(N, out + (n + (i - 1)))]
    BY <1>1, <1>4, <2>1
  <2>3. old[n + i] = buf[Slot(N, out + (n + (i - 1)))]
    BY SMTT(30), <1>3, <2>1
  <2> QED
    BY <1>5, <2>2, <2>3
<1>7. new = SubSeq(old, n + 1, h)
  BY <1>4, <1>5, <1>6, SeqEqual
<1> QED
  BY <1>7 DEF new, old, later, h

(* Bytes that are written behind the end are not in the ring, until the    *)
(* end moves.                                                              *)
LEMMA RingUntouched ==
    ASSUME NEW N \in Nat \ {0, 1}, NEW out \in Slots(N), NEW in \in Slots(N),
           NEW buf \in [Slots(N) -> Nat], NEW filled \in [Slots(N) -> Nat],
           NEW n \in Nat, Held(N, out, in) + n < N, in + n <= N,
           \A i \in Slots(N) : i \notin in..(in + n - 1) => filled[i] = buf[i]
    PROVE  RingOf(N, filled, out, in) = RingOf(N, buf, out, in)
<1> DEFINE old == RingOf(N, buf, out, in)
           new == RingOf(N, filled, out, in)
           h   == Held(N, out, in)
<1>1. /\ old \in Seq(Nat) /\ Len(old) = h
      /\ \A i \in 1..h : old[i] = buf[Slot(N, out + (i - 1))]
  BY RingIsSequence
<1>2. /\ new \in Seq(Nat) /\ Len(new) = h
      /\ \A i \in 1..h : new[i] = filled[Slot(N, out + (i - 1))]
  BY RingIsSequence
<1>3. ASSUME NEW i \in 1..h PROVE new[i] = old[i]
  <2>1. i - 1 \in 0..(h - 1)
    BY HeldIsShort
  <2>2. /\ Slot(N, out + (i - 1)) \in Slots(N)
        /\ Slot(N, out + (i - 1)) \notin in..(in + n - 1)
    BY <2>1, PlacesDiffer
  <2> HIDE DEF old, new, h
  <2> QED
    BY <1>1, <1>2, <2>2
<1> HIDE DEF old, new, h
<1>4. new = old
  BY <1>1, <1>2, <1>3, SeqEqual
<1> QED
  BY <1>4 DEF old, new

(* A stretch of slots that does not wrap.                                  *)
Stretch(buf, in, n) == [i \in 1..n |-> buf[in + i - 1]]

LEMMA RingWith ==
    ASSUME NEW N \in Nat \ {0, 1}, NEW out \in Slots(N), NEW in \in Slots(N),
           NEW buf \in [Slots(N) -> Nat], NEW n \in Nat, Held(N, out, in) + n < N, in + n <= N
    PROVE  RingOf(N, buf, out, Slot(N, in + n))
             = RingOf(N, buf, out, in) \o Stretch(buf, in, n)
<1> DEFINE end  == Slot(N, in + n)
           old  == RingOf(N, buf, out, in)
           new  == RingOf(N, buf, out, end)
           h    == Held(N, out, in)
           more == Stretch(buf, in, n)
<1>1. end \in Slots(N) /\ Held(N, out, end) = h + n
  BY PutBytes
<1> HIDE DEF end
<1>2. /\ old \in Seq(Nat) /\ Len(old) = h
      /\ \A i \in 1..h : old[i] = buf[Slot(N, out + (i - 1))]
  BY RingIsSequence
<1>3. /\ new \in Seq(Nat) /\ Len(new) = h + n
      /\ \A i \in 1..(h + n) : new[i] = buf[Slot(N, out + (i - 1))]
  BY <1>1, RingIsSequence
<1>4. ASSUME NEW i \in 1..n PROVE in + i - 1 \in Slots(N) /\ in + (i - 1) = in + i - 1
  BY DEF Slots
<1>5. more \in Seq(Nat) /\ Len(more) = n /\ \A i \in 1..n : more[i] = buf[in + i - 1]
  BY <1>4 DEF Stretch
<1>6. h \in Nat
  BY HeldIsShort
<1> HIDE DEF old, new, more, h
<1>7. /\ old \o more \in Seq(Nat) /\ Len(old \o more) = h + n
      /\ \A i \in 1..(h + n) : (old \o more)[i] = IF i <= h THEN old[i] ELSE more[i - h]
  <2>1. /\ old \o more \in Seq(Nat) /\ Len(old \o more) = Len(old) + Len(more)
        /\ \A i \in 1..(Len(old) + Len(more)) :
              (old \o more)[i] = IF i <= Len(old) THEN old[i] ELSE more[i - Len(old)]
    <3>1. old \in Seq(Nat) /\ more \in Seq(Nat)
      BY <1>2, <1>5
    <3> QED
      BY <3>1, ConcatProperties
  <2>2. Len(old) = h /\ Len(more) = n
    BY <1>2, <1>5
  <2> QED
    BY <2>1, <2>2
<1>8. ASSUME NEW i \in 1..(h + n) PROVE new[i] = (old \o more)[i]
  <2>1. CASE i \in 1..h
    <3>1. new[i] = buf[Slot(N, out + (i - 1))]
      BY <1>3
    <3>2. old[i] = buf[Slot(N, out + (i - 1))]
      BY <2>1, <1>2
    <3>3. (old \o more)[i] = old[i]
      BY <2>1, <1>6, <1>7
    <3> QED
      BY <3>1, <3>2, <3>3
  <2>2. CASE i > h
    <3> DEFINE k == i - h - 1
    <3>1. k \in Nat /\ in + k < N /\ i - h \in 1..n /\ i - 1 = h + k /\ i - h - 1 = k
      BY <2>2, <1>6 DEF Slots
    <3>2. Slot(N, out + (h + k)) = in + k
      BY <3>1, BehindLast DEF h
    <3>3. new[i] = buf[in + k]
      BY <1>3, <3>1, <3>2
    <3>4. more[i - h] = buf[in + k]
      BY <1>4, <1>5, <3>1
    <3> QED
      BY <2>2, <1>6, <1>7, <3>3, <3>4
  <2>3. i \in 1..h \/ i > h
    BY <1>6
  <2> QED
    BY <2>1, <2>2, <2>3
<1>9. new = old \o more
  BY <1>3, <1>7, <1>8, SeqEqual
<1> QED
  BY <1>9 DEF new, old, more, end

(* One byte that is put into a slot, and then counted.                     *)
LEMMA RingPut ==
    ASSUME NEW N \in Nat \ {0, 1}, NEW out \in Slots(N), NEW in \in Slots(N),
           NEW buf \in [Slots(N) -> Nat], NEW byte \in Nat, Held(N, out, in) + 1 < N
    PROVE  /\ RingOf(N, [buf EXCEPT ![in] = byte], out, in) = RingOf(N, buf, out, in)
           /\ [buf EXCEPT ![in] = byte] \in [Slots(N) -> Nat]
           /\ [buf EXCEPT ![in] = byte][in] = byte
<1> DEFINE n    == 1
           filled == [buf EXCEPT ![in] = byte]
<1>1. n \in Nat /\ Held(N, out, in) + n < N /\ in + n <= N
  BY DEF Slots
<1>2. filled \in [Slots(N) -> Nat] /\ filled[in] = byte
  OBVIOUS
<1>3. in \in in..(in + n - 1)
  BY DEF Slots
<1>4. \A i \in Slots(N) : i \notin in..(in + n - 1) => filled[i] = buf[i]
  BY <1>3
<1> HIDE DEF n, filled
<1>5. RingOf(N, filled, out, in) = RingOf(N, buf, out, in)
  BY <1>1, <1>2, <1>4, RingUntouched
<1> QED
  BY <1>2, <1>5 DEF filled

LEMMA RingWithOne ==
    ASSUME NEW N \in Nat \ {0, 1}, NEW out \in Slots(N), NEW in \in Slots(N),
           NEW buf \in [Slots(N) -> Nat], Held(N, out, in) + 1 < N
    PROVE  RingOf(N, buf, out, Slot(N, in + 1)) = RingOf(N, buf, out, in) \o <<buf[in]>>
<1> DEFINE n    == 1
           more == Stretch(buf, in, n)
<1>1. n \in Nat /\ Held(N, out, in) + n < N /\ in + n <= N
  BY DEF Slots
<1>2. more = <<buf[in]>>
  <2>1. in + 1 - 1 = in
    BY DEF Slots
  <2> QED
    BY <2>1 DEF Stretch
<1> HIDE DEF n
<1>3. RingOf(N, buf, out, Slot(N, in + n)) = RingOf(N, buf, out, in) \o more
  BY <1>1, RingWith
<1> HIDE DEF more
<1> QED
  BY <1>2, <1>3 DEF n

(***************************************************************************)
(* Bytes with consecutive numbers.                                         *)
(***************************************************************************)
Numbered(s, first) == \A i \in 1..Len(s) : s[i] = first + i

LEMMA NumberedConcat ==
    ASSUME NEW s \in Seq(Nat), NEW t \in Seq(Nat), NEW a \in Nat,
           Numbered(s, a), Numbered(t, a + Len(s))
    PROVE  Numbered(s \o t, a) /\ s \o t \in Seq(Nat) /\ Len(s \o t) = Len(s) + Len(t)
<1>1. /\ s \o t \in Seq(Nat) /\ Len(s \o t) = Len(s) + Len(t)
      /\ \A i \in 1..(Len(s) + Len(t)) : (s \o t)[i] = IF i <= Len(s) THEN s[i] ELSE t[i - Len(s)]
  BY ConcatProperties
<1>2. Len(s) \in Nat /\ Len(t) \in Nat
  OBVIOUS
<1>3. ASSUME NEW i \in 1..(Len(s) + Len(t)) PROVE (s \o t)[i] = a + i
  <2>1. CASE i <= Len(s)
    <3>1. i \in 1..Len(s)
      BY <2>1, <1>2
    <3> QED
      BY <2>1, <3>1, <1>1 DEF Numbered
  <2>2. CASE i > Len(s)
    <3>1. i - Len(s) \in 1..Len(t)
      BY <2>2, <1>2
    <3>2. t[i - Len(s)] = a + Len(s) + (i - Len(s))
      BY <3>1 DEF Numbered
    <3>3. (s \o t)[i] = t[i - Len(s)]
      BY <2>2, <1>1, <1>2
    <3> QED
      BY <3>2, <3>3, <1>2
  <2> QED
    BY <2>1, <2>2, <1>2
<1> QED
  BY <1>1, <1>3 DEF Numbered

LEMMA NumberedParts ==
    ASSUME NEW s \in Seq(Nat), NEW a \in Nat, Numbered(s, a), NEW n \in 0..Len(s)
    PROVE  /\ SubSeq(s, 1, n) \in Seq(Nat) /\ Len(SubSeq(s, 1, n)) = n
           /\ Numbered(SubSeq(s, 1, n), a)
           /\ SubSeq(s, n + 1, Len(s)) \in Seq(Nat) /\ Len(SubSeq(s, n + 1, Len(s))) = Len(s) - n
           /\ Numbered(SubSeq(s, n + 1, Len(s)), a + n)
<1>1. Len(s) \in Nat /\ n \in Nat /\ n <= Len(s)
  OBVIOUS
<1>2. /\ SubSeq(s, 1, n) \in Seq(Nat) /\ Len(SubSeq(s, 1, n)) = n
      /\ \A i \in 1..n : SubSeq(s, 1, n)[i] = s[i]
  BY <1>1
<1>3. /\ SubSeq(s, n + 1, Len(s)) \in Seq(Nat) /\ Len(SubSeq(s, n + 1, Len(s))) = Len(s) - n
      /\ \A i \in 1..(Len(s) - n) : SubSeq(s, n + 1, Len(s))[i] = s[n + i]
  BY <1>1
<1>4. ASSUME NEW i \in 1..n PROVE s[i] = a + i
  BY <1>1 DEF Numbered
<1>5. ASSUME NEW i \in 1..(Len(s) - n) PROVE s[n + i] = a + n + i
  <2>1. n + i \in 1..Len(s)
    BY <1>1
  <2>2. s[n + i] = a + (n + i)
    BY <2>1 DEF Numbered
  <2> QED
    BY <2>2, <1>1
<1> QED
  BY <1>2, <1>3, <1>4, <1>5 DEF Numbered

LEMMA NumberedTail ==
    ASSUME NEW s \in Seq(Nat), s # <<>>, NEW a \in Nat, Numbered(s, a)
    PROVE  /\ Head(s) = a + 1 /\ Numbered(Tail(s), a + 1)
           /\ Tail(s) \in Seq(Nat) /\ Len(Tail(s)) = Len(s) - 1 /\ Len(s) \in Nat \ {0}
<1>1. /\ Tail(s) \in Seq(Nat) /\ Len(Tail(s)) = Len(s) - 1 /\ Len(s) \in Nat \ {0}
      /\ Head(s) = s[1] /\ \A i \in 1..Len(Tail(s)) : Tail(s)[i] = s[i + 1]
  BY HeadTailProperties, EmptySeq
<1>2. ASSUME NEW i \in 1..Len(Tail(s)) PROVE Tail(s)[i] = a + 1 + i
  <2>1. i + 1 \in 1..Len(s)
    BY <1>1
  <2>2. s[i + 1] = a + (i + 1)
    BY <2>1 DEF Numbered
  <2>3. Tail(s)[i] = s[i + 1]
    BY <1>1
  <2> QED
    BY <2>2, <2>3
<1>3. s[1] = a + 1
  BY <1>1 DEF Numbered
<1> QED
  BY <1>1, <1>2, <1>3 DEF Numbered

LEMMA NumberedAppend ==
    ASSUME NEW s \in Seq(Nat), NEW a \in Nat, Numbered(s, a)
    PROVE  /\ Numbered(Append(s, a + Len(s) + 1), a)
           /\ Append(s, a + Len(s) + 1) \in Seq(Nat)
           /\ Len(Append(s, a + Len(s) + 1)) = Len(s) + 1
<1> DEFINE b == a + Len(s) + 1
           t == Append(s, b)
<1>1. b \in Nat /\ Len(s) \in Nat
  OBVIOUS
<1>2. /\ t \in Seq(Nat) /\ Len(t) = Len(s) + 1
      /\ \A i \in 1..Len(s) : t[i] = s[i]
      /\ t[Len(s) + 1] = b
  BY <1>1, AppendProperties
<1> HIDE DEF t
<1>3. ASSUME NEW i \in 1..(Len(s) + 1) PROVE t[i] = a + i
  <2>1. CASE i = Len(s) + 1
    BY <2>1, <1>1, <1>2
  <2>2. CASE i # Len(s) + 1
    <3>1. i \in 1..Len(s)
      BY <2>2, <1>1
    <3> QED
      BY <3>1, <1>2 DEF Numbered
  <2> QED
    BY <2>1, <2>2
<1>4. Numbered(t, a)
  BY <1>2, <1>3 DEF Numbered
<1> QED
  BY <1>2, <1>4 DEF t

(* They are all the numbers from 1 on.                                     *)
LEMMA NumberedIsCounting ==
    ASSUME NEW s \in Seq(Nat), Numbered(s, 0), NEW n \in Nat, Len(s) = n
    PROVE  s = Counting(n)
<1>1. Counting(n) \in Seq(Nat) /\ Len(Counting(n)) = n /\ \A i \in 1..n : Counting(n)[i] = i
  BY DEF Counting
<1>2. \A i \in 1..n : s[i] = i
  BY DEF Numbered
<1> HIDE DEF Counting
<1> QED
  BY <1>1, <1>2, SeqEqual

--------------------------------------------------------------------------------
(***************************************************************************)
(* The JTAG UART.                                                          *)
(***************************************************************************)
RingCalls  == JtagCalls({"write", "read", "close"})
SmallCalls == JtagCalls(JtagSmallOps)

JtagTypeOK ==
    /\ jtag \in [wfifo : Seq(Nat), rfifo : Seq(Nat), ien : SUBSET {"RE", "WE"},
                 pause : BOOLEAN, ac : BOOLEAN]
    /\ js \in [irq_enable : SUBSET {"RE", "WE"}, alarm : BOOLEAN,
               rx_in : Slots(JtagBufLen), rx_out : Slots(JtagBufLen), tx_in : Slots(JtagBufLen), tx_out : Slots(JtagBufLen),
               rx_buf : [Slots(JtagBufLen) -> Nat], tx_buf : [Slots(JtagBufLen) -> Nat], host_inactive : Nat]
    /\ jisr \in {"none", "control", "rx", "tx"}
    /\ jseen \in [RI : BOOLEAN, WI : BOOLEAN, space : Int, ravail : BOOLEAN]
    /\ jv \in [in : Nat, out : Nat, n : Nat, left : Int, got : Nat]
    /\ jhist \in [taken : Seq(Nat), sent : Nat, written : Nat, received : Seq(Nat)]

(* The rings and the interrupts belong to one driver, the polls to the     *)
(* other.                                                                  *)
JtagOneDriver ==
    \/ /\ jcalls \in Seq(RingCalls) /\ jv.left \in Nat
       /\ jpc \in {"idle", "write", "copy", "publish", "kick", "wait", "read", "spin", "reenable",
                   "close", "return"}
    \/ /\ jcalls \in Seq(SmallCalls) /\ jpc \in {"idle", "return"} \cup JtagSmallOps
       /\ jtag.ien = {} /\ js.irq_enable = {} /\ ~js.alarm /\ jisr = "none"
       /\ js.tx_in = js.tx_out /\ js.rx_in = js.rx_out

JtagDriver ==
    /\ jpc # "idle" => jcalls # <<>>
    /\ JtagOneDriver

TakenCount    == Len(jhist.taken)
ReceivedCount == Len(jhist.received)
WfifoCount    == Len(jtag.wfifo)
RfifoCount    == Len(jtag.rfifo)

TxCount == Held(JtagBufLen, js.tx_out, js.tx_in)
RxCount == Held(JtagBufLen, js.rx_out, js.rx_in)

(* The bytes on their way out have the numbers that follow one another,    *)
(* and so have those on their way in.                                      *)
TxRing == JRing(js.tx_buf, js.tx_out, js.tx_in)
RxRing == JRing(js.rx_buf, js.rx_out, js.rx_in)

JtagOut ==
    /\ Numbered(jhist.taken, 0)
    /\ Numbered(jtag.wfifo, TakenCount)
    /\ Numbered(TxRing, TakenCount + WfifoCount)
    /\ TakenCount + WfifoCount + TxCount = jhist.written

JtagIn ==
    /\ Numbered(jhist.received, 0)
    /\ Numbered(RxRing, ReceivedCount)
    /\ Numbered(jtag.rfifo, ReceivedCount + RxCount)
    /\ ReceivedCount + RxCount + RfifoCount = jhist.sent

(* The room that the handler has seen in the FIFO is still there.          *)
JtagRoom ==
    /\ WfifoCount <= FifoDepth
    /\ jisr \in {"rx", "tx"} => jseen.space >= 0 /\ WfifoCount + jseen.space <= FifoDepth

(* The slots that write() is about to fill are free.                       *)
JtagCopy ==
    /\ jpc \in {"copy", "publish"} =>
          /\ jv.in = js.tx_in /\ jv.n <= jv.left
          /\ jv.in + jv.n <= JtagBufLen /\ TxCount + jv.n < JtagBufLen
    /\ jpc = "publish" =>
          \A i \in 0..(jv.n - 1) : js.tx_buf[jv.in + i] = jhist.written + 1 + i

JtagInv == JtagTypeOK /\ JtagDriver /\ JtagOut /\ JtagIn /\ JtagRoom /\ JtagCopy
--------------------------------------------------------------------------------
LEMMA JtagRings ==
    ASSUME JtagTypeOK
    PROVE  /\ JtagBufLen \in Nat \ {0, 1} /\ FifoDepth \in Nat
           /\ js.tx_in \in Slots(JtagBufLen) /\ js.tx_out \in Slots(JtagBufLen)
           /\ js.rx_in \in Slots(JtagBufLen) /\ js.rx_out \in Slots(JtagBufLen)
           /\ js.tx_buf \in [Slots(JtagBufLen) -> Nat] /\ js.rx_buf \in [Slots(JtagBufLen) -> Nat]
           /\ TxCount \in Nat /\ TxCount < JtagBufLen /\ RxCount \in Nat /\ RxCount < JtagBufLen
           /\ TxRing \in Seq(Nat) /\ Len(TxRing) = TxCount
           /\ RxRing \in Seq(Nat) /\ Len(RxRing) = RxCount
           /\ TxRing = RingOf(JtagBufLen, js.tx_buf, js.tx_out, js.tx_in)
           /\ RxRing = RingOf(JtagBufLen, js.rx_buf, js.rx_out, js.rx_in)
<1>1. JtagBufLen \in Nat \ {0, 1} /\ FifoDepth \in Nat
  BY JtagAssumption
<1>2. /\ js.tx_in \in Slots(JtagBufLen) /\ js.tx_out \in Slots(JtagBufLen)
      /\ js.rx_in \in Slots(JtagBufLen) /\ js.rx_out \in Slots(JtagBufLen)
      /\ js.tx_buf \in [Slots(JtagBufLen) -> Nat] /\ js.rx_buf \in [Slots(JtagBufLen) -> Nat]
  BY DEF JtagTypeOK
<1>3. TxCount \in Nat /\ TxCount < JtagBufLen /\ RxCount \in Nat /\ RxCount < JtagBufLen
  BY <1>1, <1>2, HeldIsShort DEF TxCount, RxCount
<1>4. /\ TxRing = RingOf(JtagBufLen, js.tx_buf, js.tx_out, js.tx_in)
      /\ RxRing = RingOf(JtagBufLen, js.rx_buf, js.rx_out, js.rx_in)
  BY DEF TxRing, RxRing, JRing, RingOf, Held, Slot
<1>5. TxRing \in Seq(Nat) /\ Len(TxRing) = TxCount
  <2> DEFINE out == js.tx_out
             in  == js.tx_in
             buf == js.tx_buf
  <2>1. out \in Slots(JtagBufLen) /\ in \in Slots(JtagBufLen) /\ buf \in [Slots(JtagBufLen) -> Nat]
    BY <1>2
  <2> HIDE DEF out, in, buf
  <2>2. /\ RingOf(JtagBufLen, buf, out, in) \in Seq(Nat)
        /\ Len(RingOf(JtagBufLen, buf, out, in)) = Held(JtagBufLen, out, in)
    BY <1>1, <2>1, RingIsSequence
  <2> QED
    BY <1>4, <2>2 DEF TxCount, out, in, buf
<1>6. RxRing \in Seq(Nat) /\ Len(RxRing) = RxCount
  <2> DEFINE out == js.rx_out
             in  == js.rx_in
             buf == js.rx_buf
  <2>1. out \in Slots(JtagBufLen) /\ in \in Slots(JtagBufLen) /\ buf \in [Slots(JtagBufLen) -> Nat]
    BY <1>2
  <2> HIDE DEF out, in, buf
  <2>2. /\ RingOf(JtagBufLen, buf, out, in) \in Seq(Nat)
        /\ Len(RingOf(JtagBufLen, buf, out, in)) = Held(JtagBufLen, out, in)
    BY <1>1, <2>1, RingIsSequence
  <2> QED
    BY <1>4, <2>2 DEF RxCount, out, in, buf
<1> QED
  BY <1>1, <1>2, <1>3, <1>4, <1>5, <1>6

LEMMA JtagFields ==
    ASSUME JtagTypeOK
    PROVE  /\ jtag.wfifo \in Seq(Nat) /\ WfifoCount \in Nat
           /\ jtag.rfifo \in Seq(Nat) /\ RfifoCount \in Nat
           /\ jhist.taken \in Seq(Nat) /\ TakenCount \in Nat
           /\ jhist.received \in Seq(Nat) /\ ReceivedCount \in Nat
           /\ jhist.sent \in Nat /\ jhist.written \in Nat
           /\ jv.in \in Nat /\ jv.out \in Nat /\ jv.n \in Nat /\ jv.left \in Int /\ jv.got \in Nat
           /\ jseen.space \in Int
<1>1. /\ jtag.wfifo \in Seq(Nat) /\ jtag.rfifo \in Seq(Nat)
      /\ jhist.taken \in Seq(Nat) /\ jhist.received \in Seq(Nat)
      /\ jhist.sent \in Nat /\ jhist.written \in Nat
      /\ jv.in \in Nat /\ jv.out \in Nat /\ jv.n \in Nat /\ jv.left \in Int /\ jv.got \in Nat
      /\ jseen.space \in Int
  <2>1. jtag.wfifo \in Seq(Nat) /\ jtag.rfifo \in Seq(Nat)
    BY DEF JtagTypeOK
  <2>2. jhist.taken \in Seq(Nat) /\ jhist.received \in Seq(Nat)
    BY DEF JtagTypeOK
  <2>3. jhist.sent \in Nat /\ jhist.written \in Nat
    BY DEF JtagTypeOK
  <2>4. jv.in \in Nat /\ jv.out \in Nat /\ jv.n \in Nat
    BY DEF JtagTypeOK
  <2>5. jv.left \in Int /\ jv.got \in Nat
    BY DEF JtagTypeOK
  <2>6. jseen.space \in Int
    BY DEF JtagTypeOK
  <2> QED
    BY <2>1, <2>2, <2>3, <2>4, <2>5, <2>6
<1>2. TakenCount \in Nat /\ ReceivedCount \in Nat /\ WfifoCount \in Nat /\ RfifoCount \in Nat
  <2>1. TakenCount \in Nat
    BY <1>1 DEF TakenCount
  <2>2. ReceivedCount \in Nat
    BY <1>1 DEF ReceivedCount
  <2>3. WfifoCount \in Nat
    BY <1>1 DEF WfifoCount
  <2>4. RfifoCount \in Nat
    BY <1>1 DEF RfifoCount
  <2> QED
    BY <2>1, <2>2, <2>3, <2>4
<1> QED
  BY <1>1, <1>2

(* Steps that leave the bytes alone.                                       *)
LEMMA JtagOutKept ==
    ASSUME JtagOut, jhist'.taken = jhist.taken, jhist'.written = jhist.written, jtag'.wfifo = jtag.wfifo,
           js'.tx_in = js.tx_in, js'.tx_out = js.tx_out, js'.tx_buf = js.tx_buf
    PROVE  JtagOut' /\ TxCount' = TxCount
<1>1. TxRing' = TxRing /\ TxCount' = TxCount
  BY DEF TxRing, TxCount, JRing
<1> QED
  BY <1>1 DEF JtagOut, Numbered, TakenCount, WfifoCount

LEMMA JtagInKept ==
    ASSUME JtagIn, jhist'.received = jhist.received, jhist'.sent = jhist.sent, jtag'.rfifo = jtag.rfifo,
           js'.rx_in = js.rx_in, js'.rx_out = js.rx_out, js'.rx_buf = js.rx_buf
    PROVE  JtagIn'
<1>1. RxRing' = RxRing /\ RxCount' = RxCount
  BY DEF RxRing, RxCount, JRing
<1> QED
  BY <1>1 DEF JtagIn, Numbered, ReceivedCount, RfifoCount

(* And steps of others than write() leave what it has seen of its ring.    *)
LEMMA JtagCopyKept ==
    ASSUME JtagCopy, JtagTypeOK, jpc' = jpc, jv' = jv, jhist'.written = jhist.written,
           js'.tx_in = js.tx_in, js'.tx_buf = js.tx_buf, TxCount' \in Nat, TxCount' <= TxCount
    PROVE  JtagCopy'
<1>1. TxCount \in Nat /\ JtagBufLen \in Nat /\ jv.n \in Nat
  BY JtagRings DEF JtagTypeOK
<1> QED
  BY <1>1 DEF JtagCopy

--------------------------------------------------------------------------------
(* The host.                                                               *)
LEMMA HostTakesKeeps ==
    ASSUME JtagInv, HostTakes, UNCHANGED <<js, jisr, jseen, jcalls, jpc, jv>>
    PROVE  JtagInv'
<1> USE DEF JtagInv
<1> DEFINE byte  == Head(jtag.wfifo)
           rest  == Tail(jtag.wfifo)
           taken == Append(jhist.taken, byte)
<1>1. /\ jtag.wfifo \in Seq(Nat) /\ jtag.wfifo # <<>> /\ jhist.taken \in Seq(Nat)
      /\ TakenCount \in Nat /\ WfifoCount \in Nat /\ TxCount \in Nat
  BY JtagRings, JtagFields DEF HostTakes
<1>2. /\ Numbered(jhist.taken, 0) /\ Numbered(jtag.wfifo, TakenCount)
      /\ Numbered(TxRing, TakenCount + WfifoCount)
      /\ TakenCount + WfifoCount + TxCount = jhist.written
  BY DEF JtagOut
<1>3. /\ byte = TakenCount + 1 /\ Numbered(rest, TakenCount + 1)
      /\ rest \in Seq(Nat) /\ Len(rest) = WfifoCount - 1
  BY <1>1, <1>2, NumberedTail DEF WfifoCount
<1>4. taken \in Seq(Nat) /\ Len(taken) = TakenCount + 1 /\ Numbered(taken, 0)
  <2>1. byte = 0 + TakenCount + 1
    BY <1>1, <1>3
  <2> HIDE DEF byte
  <2> QED
    BY <1>1, <1>2, <2>1, NumberedAppend DEF TakenCount
<1>5. jtag' = [jtag EXCEPT !.wfifo = rest] /\ jhist' = [jhist EXCEPT !.taken = taken]
  BY DEF HostTakes
<1> HIDE DEF byte, rest, taken
<1>6. /\ jtag'.wfifo = rest /\ jtag'.rfifo = jtag.rfifo /\ jtag'.ien = jtag.ien
      /\ jhist'.taken = taken /\ jhist'.written = jhist.written
      /\ jhist'.received = jhist.received /\ jhist'.sent = jhist.sent
  BY <1>5 DEF JtagTypeOK
<1>7. JtagTypeOK'
  BY <1>3, <1>4, <1>5 DEF JtagTypeOK
<1>8. JtagDriver'
  BY <1>6 DEF JtagDriver, JtagOneDriver
<1>9. TxCount' = TxCount /\ TxRing' = TxRing
  BY DEF TxCount, TxRing, JRing
<1>10. JtagOut'
  <2>1. Len(taken) + Len(rest) = TakenCount + WfifoCount
    BY <1>1, <1>3, <1>4
  <2> QED
    BY <1>2, <1>3, <1>4, <1>6, <1>9, <2>1 DEF JtagOut, TakenCount, WfifoCount
<1>11. JtagIn'
  BY <1>6, JtagInKept
<1>12. JtagRoom'
  <2>1. FifoDepth \in Nat /\ jseen.space \in Int
    BY JtagRings, JtagFields
  <2> QED
    BY <1>1, <1>3, <1>6, <2>1 DEF JtagRoom, WfifoCount
<1>13. JtagCopy'
  BY <1>1, <1>6, <1>9, JtagCopyKept
<1> QED
  BY <1>7, <1>8, <1>10, <1>11, <1>12, <1>13

LEMMA HostSendsKeeps ==
    ASSUME JtagInv, HostSends, UNCHANGED <<js, jisr, jseen, jcalls, jpc, jv>>
    PROVE  JtagInv'
<1> USE DEF JtagInv
<1> DEFINE fifo == Append(jtag.rfifo, jhist.sent + 1)
<1>1. /\ jtag.rfifo \in Seq(Nat) /\ jhist.received \in Seq(Nat) /\ jhist.sent \in Nat
      /\ ReceivedCount \in Nat /\ RfifoCount \in Nat /\ RxCount \in Nat
  BY JtagRings, JtagFields
<1>2. /\ Numbered(jhist.received, 0) /\ Numbered(RxRing, ReceivedCount)
      /\ Numbered(jtag.rfifo, ReceivedCount + RxCount)
      /\ ReceivedCount + RxCount + RfifoCount = jhist.sent
  BY DEF JtagIn
<1>3. /\ fifo \in Seq(Nat) /\ Len(fifo) = RfifoCount + 1
      /\ Numbered(fifo, ReceivedCount + RxCount)
  <2>1. jhist.sent + 1 = ReceivedCount + RxCount + Len(jtag.rfifo) + 1
    BY <1>1, <1>2 DEF RfifoCount
  <2>2. ReceivedCount + RxCount \in Nat
    BY <1>1
  <2> QED
    BY <1>1, <1>2, <2>1, <2>2, NumberedAppend DEF RfifoCount
<1>4. /\ jtag' = [jtag EXCEPT !.rfifo = fifo, !.ac = TRUE]
      /\ jhist' = [jhist EXCEPT !.sent = jhist.sent + 1]
  BY DEF HostSends
<1> HIDE DEF fifo
<1>5. /\ jtag'.wfifo = jtag.wfifo /\ jtag'.rfifo = fifo /\ jtag'.ien = jtag.ien
      /\ jhist'.taken = jhist.taken /\ jhist'.written = jhist.written
      /\ jhist'.received = jhist.received /\ jhist'.sent = jhist.sent + 1
  BY <1>4 DEF JtagTypeOK
<1>6. JtagTypeOK'
  <2>1. jhist.sent + 1 \in Nat
    BY <1>1
  <2>2. jhist' \in [taken : Seq(Nat), sent : Nat, written : Nat, received : Seq(Nat)]
    BY <1>4, <2>1 DEF JtagTypeOK
  <2> QED
    BY <1>3, <1>4, <2>2 DEF JtagTypeOK
<1>7. JtagDriver'
  BY <1>5 DEF JtagDriver, JtagOneDriver
<1>8. JtagOut' /\ TxCount' = TxCount
  BY <1>5, JtagOutKept
<1>9. RxCount' = RxCount /\ RxRing' = RxRing
  BY DEF RxCount, RxRing, JRing
<1>10. JtagIn'
  <2>1. ReceivedCount + RxCount + Len(fifo) = jhist.sent + 1
    BY <1>1, <1>2, <1>3
  <2> QED
    BY <1>2, <1>3, <1>5, <1>9, <2>1 DEF JtagIn, ReceivedCount, RfifoCount
<1>11. JtagRoom'
  BY <1>5 DEF JtagRoom, WfifoCount
<1>12. JtagCopy'
  BY <1>5, <1>8, JtagRings, JtagCopyKept
<1> QED
  BY <1>6, <1>7, <1>8, <1>10, <1>11, <1>12

LEMMA HostPausesKeeps ==
    ASSUME JtagInv, HostPauses, UNCHANGED <<js, jisr, jseen, jcalls, jpc, jv>>
    PROVE  JtagInv'
<1> USE DEF JtagInv, HostPauses
<1>1. /\ jtag' = [jtag EXCEPT !.pause = jtag.pause \/ jtag.rfifo # <<>>, !.ac = TRUE]
      /\ jhist' = jhist
  OBVIOUS
<1>2. /\ jtag'.wfifo = jtag.wfifo /\ jtag'.rfifo = jtag.rfifo /\ jtag'.ien = jtag.ien
      /\ JtagTypeOK'
  BY <1>1 DEF JtagTypeOK
<1>3. JtagDriver' /\ JtagRoom'
  BY <1>2 DEF JtagDriver, JtagOneDriver, JtagRoom, WfifoCount
<1>4. JtagOut' /\ TxCount' = TxCount
  BY <1>1, <1>2, JtagOutKept
<1>5. JtagIn'
  BY <1>1, <1>2, JtagInKept
<1>6. JtagCopy'
  BY <1>1, <1>4, JtagRings, JtagCopyKept
<1> QED
  BY <1>2, <1>3, <1>4, <1>5, <1>6

--------------------------------------------------------------------------------
(* The handler and the alarm.                                              *)
LEMMA QuietHandlerKeeps ==
    ASSUME JtagInv, ReadControl \/ RxEmpty \/ RxStops \/ altera_avalon_jtag_uart_timeout
    PROVE  JtagInv'
<1> USE DEF JtagInv
<1>1. UNCHANGED <<jcalls, jpc, jv, jhist>>
  BY DEF ReadControl, RxEmpty, RxStops, altera_avalon_jtag_uart_timeout, Handler
<1>2. /\ jtag'.wfifo = jtag.wfifo /\ jtag'.rfifo = jtag.rfifo
      /\ js'.tx_in = js.tx_in /\ js'.tx_out = js.tx_out /\ js'.tx_buf = js.tx_buf
      /\ js'.rx_in = js.rx_in /\ js'.rx_out = js.rx_out /\ js'.rx_buf = js.rx_buf
      /\ js'.alarm = js.alarm
  <2>1. CASE ReadControl
    BY <2>1 DEF ReadControl, JtagTypeOK, Handler, Without
  <2>2. CASE RxEmpty
    BY <2>2 DEF RxEmpty, JtagTypeOK, Handler, Without
  <2>3. CASE RxStops
    BY <2>3 DEF RxStops, JtagTypeOK, Handler, Without
  <2>4. CASE altera_avalon_jtag_uart_timeout
    BY ZenonT(60), <2>4 DEF altera_avalon_jtag_uart_timeout, JtagTypeOK, Handler, Without
  <2> QED
    BY <2>1, <2>2, <2>3, <2>4
<1>3. JtagTypeOK'
  <2>1. CASE ReadControl
    <3>1. FifoDepth - WfifoCount \in Int
      BY JtagFields, JtagRings
    <3>2. RI \in BOOLEAN /\ WI \in BOOLEAN
      BY DEF RI, WI
    <3>3. jseen' \in [RI : BOOLEAN, WI : BOOLEAN, space : Int, ravail : BOOLEAN]
      BY <2>1, <3>1, <3>2 DEF ReadControl, WfifoCount
    <3>4. jisr' \in {"none", "control", "rx", "tx"}
      BY <2>1 DEF ReadControl
    <3> QED
      BY <2>1, <3>3, <3>4 DEF ReadControl, JtagTypeOK
  <2>2. CASE RxEmpty
    BY <2>2 DEF RxEmpty, JtagTypeOK, Handler, AfterRx
  <2>3. CASE RxStops
    <3>1. jisr' \in {"none", "control", "rx", "tx"}
      BY <2>3 DEF RxStops, AfterRx
    <3>2. \/ UNCHANGED <<js, jtag>>
          \/ /\ js' = [js EXCEPT !.irq_enable = js.irq_enable \ {"RE"}]
             /\ jtag' = [jtag EXCEPT !.ien = js.irq_enable \ {"RE"}]
      BY <2>3 DEF RxStops, Without
    <3>3. UNCHANGED <<jseen, jv, jhist>>
      BY <2>3 DEF RxStops, Handler
    <3>4. js.irq_enable \ {"RE"} \in SUBSET {"RE", "WE"}
      BY DEF JtagTypeOK
    <3> QED
      BY ZenonT(60), <3>1, <3>2, <3>3, <3>4 DEF JtagTypeOK
  <2>4. CASE altera_avalon_jtag_uart_timeout
    <3>1. \E n \in Nat : js' = [js EXCEPT !.host_inactive = n]
      <4>1. js.host_inactive \in Nat /\ js.host_inactive + 1 \in Nat
        <5>1. js.host_inactive \in Nat
          BY DEF JtagTypeOK
        <5> QED
          BY <5>1
      <4>2. CASE jtag.ac
        BY <2>4, <4>2 DEF altera_avalon_jtag_uart_timeout
      <4>3. CASE ~jtag.ac
        <5>1. js' = [js EXCEPT !.host_inactive = IF js.host_inactive < JtagTimeout THEN js.host_inactive + 1
                                                 ELSE js.host_inactive]
          BY <2>4, <4>3 DEF altera_avalon_jtag_uart_timeout
        <5> QED
          BY <4>1, <5>1
      <4> QED
        BY <4>2, <4>3
    <3>2. jtag' = jtag \/ jtag' = [jtag EXCEPT !.ac = FALSE, !.ien = js.irq_enable]
      BY <2>4 DEF altera_avalon_jtag_uart_timeout
    <3>3. UNCHANGED <<jisr, jseen, jv, jhist>>
      BY <2>4 DEF altera_avalon_jtag_uart_timeout
    <3> QED
      BY ZenonT(60), <3>1, <3>2, <3>3 DEF JtagTypeOK
  <2> QED
    BY <2>1, <2>2, <2>3, <2>4
<1>4. JtagDriver'
  <2>1. CASE ReadControl
    BY <2>1 DEF ReadControl, RI, WI, JtagDriver, JtagOneDriver
  <2>2. CASE RxEmpty
    BY <2>2, <1>1 DEF RxEmpty, Handler, JtagDriver, JtagOneDriver
  <2>3. CASE RxStops
    BY <2>3, <1>1 DEF RxStops, Handler, JtagDriver, JtagOneDriver
  <2>4. CASE altera_avalon_jtag_uart_timeout
    BY <2>4, <1>1, <1>2 DEF altera_avalon_jtag_uart_timeout, JtagDriver, JtagOneDriver
  <2> QED
    BY <2>1, <2>2, <2>3, <2>4
<1>5. JtagOut' /\ TxCount' = TxCount
  BY <1>1, <1>2, JtagOutKept
<1>6. JtagIn'
  BY <1>1, <1>2, JtagInKept
<1>7. JtagCopy'
  BY <1>1, <1>2, <1>5, JtagRings, JtagCopyKept
<1>8. JtagRoom'
  <2>1. WfifoCount' = WfifoCount /\ FifoDepth \in Nat /\ WfifoCount \in Nat
    BY <1>2, JtagRings, JtagFields DEF WfifoCount
  <2>2. CASE ReadControl
    <3>1. jseen'.space = FifoDepth - WfifoCount
      BY <2>2 DEF ReadControl, WfifoCount
    <3> QED
      BY <2>1, <3>1 DEF JtagRoom
  <2>3. CASE RxEmpty
    BY <2>3, <2>1 DEF RxEmpty, Handler, AfterRx, JtagRoom
  <2>4. CASE RxStops
    BY <2>4, <2>1 DEF RxStops, Handler, AfterRx, JtagRoom
  <2>5. CASE altera_avalon_jtag_uart_timeout
    BY <2>5, <2>1 DEF altera_avalon_jtag_uart_timeout, JtagRoom
  <2> QED
    BY <2>2, <2>3, <2>4, <2>5
<1> QED
  BY <1>3, <1>4, <1>5, <1>6, <1>7, <1>8

LEMMA ReadDataKeeps ==
    ASSUME JtagInv, ReadData
    PROVE  JtagInv'
<1> USE DEF JtagInv
<1> DEFINE byte == Head(jtag.rfifo)
           rest == Tail(jtag.rfifo)
           buf  == [js.rx_buf EXCEPT ![js.rx_in] = byte]
           end  == Slot(JtagBufLen, js.rx_in + 1)
           more == <<byte>>
<1>1. /\ jtag.rfifo \in Seq(Nat) /\ jtag.rfifo # <<>> /\ jhist.sent \in Nat
      /\ ReceivedCount \in Nat /\ RfifoCount \in Nat /\ RxCount \in Nat
      /\ JtagBufLen \in Nat \ {0, 1} /\ RxRing \in Seq(Nat) /\ Len(RxRing) = RxCount
      /\ js.rx_in \in Slots(JtagBufLen) /\ js.rx_out \in Slots(JtagBufLen)
      /\ js.rx_buf \in [Slots(JtagBufLen) -> Nat]
      /\ RxRing = RingOf(JtagBufLen, js.rx_buf, js.rx_out, js.rx_in)
  BY JtagRings, JtagFields DEF ReadData
<1>2. /\ Numbered(jhist.received, 0) /\ Numbered(RxRing, ReceivedCount)
      /\ Numbered(jtag.rfifo, ReceivedCount + RxCount)
      /\ ReceivedCount + RxCount + RfifoCount = jhist.sent
  BY DEF JtagIn
<1>3. /\ byte = ReceivedCount + RxCount + 1 /\ Numbered(rest, ReceivedCount + RxCount + 1)
      /\ rest \in Seq(Nat) /\ Len(rest) = RfifoCount - 1
  BY <1>1, <1>2, NumberedTail DEF RfifoCount
<1>4. /\ js' = [js EXCEPT !.rx_buf = buf, !.rx_in = end]
      /\ jtag' = [jtag EXCEPT !.rfifo = rest, !.pause = FALSE]
  BY DEF ReadData, JNext, Slot
<1>5. byte \in Nat
  BY SMTT(30), <1>1, <1>3
<1>6. Held(JtagBufLen, js.rx_out, js.rx_in) + 1 < JtagBufLen
  <2>1. Slot(JtagBufLen, js.rx_in + 1) # js.rx_out
    BY DEF ReadData, RxFull, JNext, Slot
  <2> QED
    BY <1>1, <2>1, NotFull
<1>7. /\ end \in Slots(JtagBufLen)
      /\ Held(JtagBufLen, js.rx_out, end) = RxCount + 1
  BY <1>1, <1>6, PutBytes DEF RxCount
<1>8. buf \in [Slots(JtagBufLen) -> Nat]
  BY <1>1, <1>5
<1> HIDE DEF byte, rest, end
<1>9. RingOf(JtagBufLen, buf, js.rx_out, js.rx_in) = RxRing /\ buf[js.rx_in] = byte
  BY <1>1, <1>5, <1>6, RingPut
<1> HIDE DEF buf
<1>10. RingOf(JtagBufLen, buf, js.rx_out, end) = RxRing \o more
  <2>1. RingOf(JtagBufLen, buf, js.rx_out, Slot(JtagBufLen, js.rx_in + 1))
          = RingOf(JtagBufLen, buf, js.rx_out, js.rx_in) \o <<buf[js.rx_in]>>
    BY <1>1, <1>6, <1>8, RingWithOne
  <2> QED
    BY <1>9, <2>1 DEF end
<1>11. more \in Seq(Nat) /\ Len(more) = 1 /\ Numbered(more, ReceivedCount + Len(RxRing))
  BY <1>1, <1>3, <1>5 DEF Numbered
<1> HIDE DEF more
<1>12. /\ jtag'.wfifo = jtag.wfifo /\ jtag'.rfifo = rest /\ jtag'.ien = jtag.ien
       /\ js'.tx_in = js.tx_in /\ js'.tx_out = js.tx_out /\ js'.tx_buf = js.tx_buf
       /\ js'.rx_in = end /\ js'.rx_out = js.rx_out /\ js'.rx_buf = buf
       /\ js'.irq_enable = js.irq_enable /\ js'.alarm = js.alarm
  BY <1>4 DEF JtagTypeOK
<1>13. UNCHANGED <<jisr, jhist, jcalls, jpc, jv>> /\ jisr = "rx"
  BY DEF ReadData, Handler
<1>14. RxRing' = RxRing \o more /\ RxCount' = RxCount + 1
  BY <1>7, <1>10, <1>12 DEF RxRing, JRing, RingOf, RxCount, Held, Slot
<1>15. JtagTypeOK'
  <2>1. /\ jseen.RI \in BOOLEAN /\ jseen.WI \in BOOLEAN /\ jseen.space \in Int
        /\ jseen' = [jseen EXCEPT !.ravail = Len(jtag.rfifo) > 1]
    BY DEF JtagTypeOK, ReadData
  <2>2. jseen' \in [RI : BOOLEAN, WI : BOOLEAN, space : Int, ravail : BOOLEAN]
    <3> DEFINE more_left == Len(jtag.rfifo) > 1
    <3>1. more_left \in BOOLEAN
      OBVIOUS
    <3>2. jseen' = [jseen EXCEPT !.ravail = more_left]
      BY <2>1
    <3> HIDE DEF more_left
    <3> QED
      BY <3>1, <3>2 DEF JtagTypeOK
  <2>3. js' \in [irq_enable : SUBSET {"RE", "WE"}, alarm : BOOLEAN,
               rx_in : Slots(JtagBufLen), rx_out : Slots(JtagBufLen), tx_in : Slots(JtagBufLen), tx_out : Slots(JtagBufLen),
               rx_buf : [Slots(JtagBufLen) -> Nat], tx_buf : [Slots(JtagBufLen) -> Nat], host_inactive : Nat]
    BY <1>4, <1>7, <1>8 DEF JtagTypeOK
  <2> QED
    BY <1>3, <1>4, <1>13, <2>2, <2>3 DEF JtagTypeOK
<1>16. JtagDriver'
  BY <1>12, <1>13 DEF JtagDriver, JtagOneDriver
<1>17. JtagOut' /\ TxCount' = TxCount
  BY <1>12, <1>13, JtagOutKept
<1>18. JtagIn'
  <2>1. Numbered(RxRing \o more, ReceivedCount)
    BY <1>1, <1>2, <1>11, NumberedConcat
  <2>2. ReceivedCount + (RxCount + 1) = ReceivedCount + RxCount + 1
        /\ ReceivedCount + (RxCount + 1) + Len(rest) = jhist.sent
    BY <1>1, <1>2, <1>3
  <2>3. ReceivedCount' = ReceivedCount /\ RfifoCount' = Len(rest)
    BY <1>12, <1>13 DEF ReceivedCount, RfifoCount
  <2> QED
    BY <1>2, <1>3, <1>12, <1>13, <1>14, <2>1, <2>2, <2>3 DEF JtagIn
<1>19. JtagRoom'
  <2>1. jseen'.space = jseen.space
    BY DEF ReadData, JtagTypeOK
  <2> QED
    BY <1>12, <1>13, <2>1 DEF JtagRoom, WfifoCount
<1>20. JtagCopy'
  BY <1>12, <1>13, <1>17, JtagRings, JtagCopyKept
<1> QED
  BY <1>15, <1>16, <1>17, <1>18, <1>19, <1>20

LEMMA WriteDataKeeps ==
    ASSUME JtagInv, WriteData
    PROVE  JtagInv'
<1> USE DEF JtagInv
<1> DEFINE n    == Smaller(jseen.space, TxCount)
           sent == SubSeq(TxRing, 1, n)
           rest == SubSeq(TxRing, n + 1, TxCount)
           fifo == jtag.wfifo \o sent
           end  == Slot(JtagBufLen, js.tx_out + n)
           left == IF n < jseen.space THEN js.irq_enable \ {"WE"} ELSE js.irq_enable
           ien  == IF n < jseen.space THEN left ELSE jtag.ien
<1>1. /\ jtag.wfifo \in Seq(Nat) /\ jhist.written \in Nat /\ FifoDepth \in Nat
      /\ TakenCount \in Nat /\ WfifoCount \in Nat /\ TxCount \in Nat /\ jseen.space \in Int
      /\ JtagBufLen \in Nat \ {0, 1} /\ TxRing \in Seq(Nat) /\ Len(TxRing) = TxCount
      /\ js.tx_in \in Slots(JtagBufLen) /\ js.tx_out \in Slots(JtagBufLen)
      /\ js.tx_buf \in [Slots(JtagBufLen) -> Nat]
      /\ TxRing = RingOf(JtagBufLen, js.tx_buf, js.tx_out, js.tx_in)
  BY JtagRings, JtagFields
<1>2. /\ Numbered(jhist.taken, 0) /\ Numbered(jtag.wfifo, TakenCount)
      /\ Numbered(TxRing, TakenCount + WfifoCount)
      /\ TakenCount + WfifoCount + TxCount = jhist.written
  BY DEF JtagOut
<1>3. jisr = "tx" /\ UNCHANGED <<jcalls, jpc, jv, jhist, jseen>> /\ jisr' = "control"
  BY DEF WriteData, Handler
<1>4. jseen.space >= 0 /\ WfifoCount + jseen.space <= FifoDepth
  BY <1>3 DEF JtagRoom
<1>5. n \in Nat /\ n <= TxCount /\ WfifoCount + n <= FifoDepth
  BY <1>1, <1>4 DEF Smaller
<1> HIDE DEF n
<1>6. /\ sent \in Seq(Nat) /\ Len(sent) = n /\ Numbered(sent, TakenCount + WfifoCount)
      /\ rest \in Seq(Nat) /\ Len(rest) = TxCount - n
      /\ Numbered(rest, TakenCount + WfifoCount + n)
  <2>1. TakenCount + WfifoCount \in Nat /\ n \in 0..Len(TxRing)
    BY <1>1, <1>5
  <2> QED
    BY <1>1, <1>2, <2>1, NumberedParts
<1>7. fifo \in Seq(Nat) /\ Len(fifo) = WfifoCount + n /\ Numbered(fifo, TakenCount)
  <2> HIDE DEF sent
  <2> QED
    BY <1>1, <1>2, <1>6, NumberedConcat DEF WfifoCount
<1>8. Fill(jtag.wfifo, sent) = fifo
  <2> HIDE DEF fifo
  <2>1. Smaller(Len(fifo), FifoDepth) = Len(fifo)
    BY <1>1, <1>5, <1>7 DEF Smaller
  <2>2. SubSeq(fifo, 1, Len(fifo)) = fifo
    BY <1>7, SubSeqFull
  <2> QED
    BY <2>1, <2>2 DEF Fill, fifo
<1>9. /\ end \in Slots(JtagBufLen) /\ Held(JtagBufLen, end, js.tx_in) = TxCount - n
      /\ RingOf(JtagBufLen, js.tx_buf, end, js.tx_in) = rest
  <2>1. n \in 0..Held(JtagBufLen, js.tx_out, js.tx_in)
    BY <1>1, <1>5 DEF TxCount
  <2>2. end \in Slots(JtagBufLen) /\ Held(JtagBufLen, end, js.tx_in) = TxCount - n
    BY <1>1, <2>1, TakeBytes DEF TxCount
  <2>3. RingOf(JtagBufLen, js.tx_buf, end, js.tx_in) = rest
    BY <1>1, <2>1, RingWithout DEF TxCount
  <2> QED
    BY <2>2, <2>3
<1>10. /\ js' = [js EXCEPT !.tx_out = end, !.irq_enable = left]
       /\ jtag' = [jtag EXCEPT !.wfifo = Fill(jtag.wfifo, sent), !.ien = ien]
  <2>1. n = Smaller(jseen.space, Len(TxRing))
    BY <1>1 DEF n
  <2> QED
    BY <2>1 DEF WriteData, TxRing, Slot
<1>11. left \in SUBSET {"RE", "WE"} /\ ien \in SUBSET {"RE", "WE"}
       /\ (js.irq_enable = {} /\ jtag.ien = {} => left = {} /\ ien = {})
  BY DEF JtagTypeOK
<1> HIDE DEF sent, rest, fifo, end, left, ien
<1>12. /\ jtag'.wfifo = fifo /\ jtag'.rfifo = jtag.rfifo
       /\ js'.tx_in = js.tx_in /\ js'.tx_out = end /\ js'.tx_buf = js.tx_buf
       /\ js'.rx_in = js.rx_in /\ js'.rx_out = js.rx_out /\ js'.rx_buf = js.rx_buf
  BY <1>8, <1>10 DEF JtagTypeOK
<1>13. TxRing' = rest /\ TxCount' = TxCount - n
  BY <1>9, <1>12 DEF TxRing, JRing, RingOf, TxCount, Held, Slot
<1>14. JtagTypeOK'
  <2>1. js' \in [irq_enable : SUBSET {"RE", "WE"}, alarm : BOOLEAN,
               rx_in : Slots(JtagBufLen), rx_out : Slots(JtagBufLen), tx_in : Slots(JtagBufLen), tx_out : Slots(JtagBufLen),
               rx_buf : [Slots(JtagBufLen) -> Nat], tx_buf : [Slots(JtagBufLen) -> Nat], host_inactive : Nat]
    BY <1>9, <1>10, <1>11 DEF JtagTypeOK
  <2>2. jtag' \in [wfifo : Seq(Nat), rfifo : Seq(Nat), ien : SUBSET {"RE", "WE"},
                  pause : BOOLEAN, ac : BOOLEAN]
    BY <1>7, <1>8, <1>10, <1>11 DEF JtagTypeOK
  <2> QED
    BY <1>3, <2>1, <2>2 DEF JtagTypeOK
<1>15. JtagDriver'
  BY <1>3 DEF JtagDriver, JtagOneDriver
<1>16. JtagOut'
  <2>1. TakenCount + (WfifoCount + n) = TakenCount + WfifoCount + n
        /\ TakenCount + (WfifoCount + n) + (TxCount - n) = jhist.written
    BY <1>1, <1>2, <1>5
  <2>2. TakenCount' = TakenCount /\ WfifoCount' = WfifoCount + n
    BY <1>3, <1>7, <1>12 DEF TakenCount, WfifoCount
  <2> QED
    BY <1>2, <1>3, <1>6, <1>7, <1>12, <1>13, <2>1, <2>2 DEF JtagOut
<1>17. JtagIn'
  BY <1>3, <1>12, JtagInKept
<1>18. JtagRoom'
  <2>1. WfifoCount' = WfifoCount + n
    BY <1>7, <1>12 DEF WfifoCount
  <2> QED
    BY <1>3, <1>5, <2>1 DEF JtagRoom
<1>19. JtagCopy'
  <2>1. TxCount' \in Nat /\ TxCount' <= TxCount
    BY <1>1, <1>5, <1>13
  <2> QED
    BY <1>3, <1>12, <2>1, JtagCopyKept
<1> QED
  BY <1>14, <1>15, <1>16, <1>17, <1>18, <1>19

--------------------------------------------------------------------------------
(* The calls.                                                              *)
JtagQuietCall ==
    \/ Calls \/ Return("return") \/ altera_avalon_jtag_uart_close \/ SmallEmpty
    \/ Kick \/ WaitEnds \/ ReadStops \/ Spin \/ Reenable

(* The call that is made is one of its driver.                             *)
LEMMA JtagCallOf ==
    ASSUME JtagDriver, jcalls # <<>>
    PROVE  /\ jcall.len \in Nat
           /\ jcalls \in Seq(RingCalls) => jcall.op \in {"write", "read", "close"} /\ Tail(jcalls) \in Seq(RingCalls)
           /\ jcalls \in Seq(SmallCalls) => jcall.op \in JtagSmallOps /\ Tail(jcalls) \in Seq(SmallCalls)
<1>1. jcall = Head(jcalls)
  BY DEF jcall
<1>2. CASE jcalls \in Seq(RingCalls)
  <2>1. Head(jcalls) \in RingCalls /\ Tail(jcalls) \in Seq(RingCalls)
    BY <1>2, HeadTailProperties
  <2>2. jcall.op \in {"write", "read", "close"} /\ jcall.len \in Nat
    BY <1>1, <2>1 DEF RingCalls, JtagCalls
  <2>3. jcalls \notin Seq(SmallCalls)
    <3>1. ASSUME jcalls \in Seq(SmallCalls) PROVE FALSE
      <4>1. Head(jcalls) \in SmallCalls
        BY <3>1, HeadTailProperties
      <4>2. jcall.op \in JtagSmallOps
        BY <1>1, <4>1 DEF SmallCalls, JtagCalls
      <4> QED
        BY <2>2, <4>2 DEF JtagSmallOps
    <3> QED
      BY <3>1
  <2> QED
    BY <2>1, <2>2, <2>3
<1>3. CASE jcalls \in Seq(SmallCalls)
  <2>1. Head(jcalls) \in SmallCalls /\ Tail(jcalls) \in Seq(SmallCalls)
    BY <1>3, HeadTailProperties
  <2>2. jcall.op \in JtagSmallOps /\ jcall.len \in Nat
    BY <1>1, <2>1 DEF SmallCalls, JtagCalls
  <2>3. jcalls \notin Seq(RingCalls)
    <3>1. ASSUME jcalls \in Seq(RingCalls) PROVE FALSE
      <4>1. Head(jcalls) \in RingCalls
        BY <3>1, HeadTailProperties
      <4>2. jcall.op \in {"write", "read", "close"}
        BY <1>1, <4>1 DEF RingCalls, JtagCalls
      <4> QED
        BY <2>2, <4>2 DEF JtagSmallOps
    <3> QED
      BY <3>1
  <2> QED
    BY <2>1, <2>2, <2>3
<1> QED
  BY <1>2, <1>3 DEF JtagDriver, JtagOneDriver

LEMMA QuietCallKeeps ==
    ASSUME JtagInv, JtagQuietCall
    PROVE  JtagInv'
<1> USE DEF JtagInv
<1>1. /\ jhist' = jhist /\ jisr' = jisr /\ jseen' = jseen
      /\ jtag'.wfifo = jtag.wfifo /\ jtag'.rfifo = jtag.rfifo
      /\ js'.tx_in = js.tx_in /\ js'.tx_out = js.tx_out /\ js'.tx_buf = js.tx_buf
      /\ js'.rx_in = js.rx_in /\ js'.rx_out = js.rx_out /\ js'.rx_buf = js.rx_buf
      /\ js'.alarm = js.alarm
  <2> USE DEF Does
  <2>1. CASE Calls \/ Return("return") \/ altera_avalon_jtag_uart_close \/ WaitEnds \/ ReadStops \/ Spin
    BY <2>1 DEF Calls, Return, altera_avalon_jtag_uart_close, WaitEnds, ReadStops, Spin
  <2>2. CASE Kick \/ Reenable
    BY <2>2 DEF Kick, Reenable, Enable, JtagTypeOK
  <2>3. CASE SmallEmpty
    BY <2>3 DEF SmallEmpty, JtagTypeOK
  <2> QED
    BY <2>1, <2>2, <2>3 DEF JtagQuietCall
<1>2. JtagOut' /\ TxCount' = TxCount
  BY <1>1, JtagOutKept
<1>3. JtagIn'
  BY <1>1, JtagInKept
<1>4. JtagRoom'
  BY <1>1 DEF JtagRoom, WfifoCount
<1>5. CASE Calls
  <2>1. /\ jcalls # <<>> /\ jpc' = jcall.op
        /\ jv' = [jv EXCEPT !.left = jcall.len, !.got = 0] /\ UNCHANGED <<jtag, js, jcalls>>
    BY <1>5 DEF Calls, Does
  <2>2. JtagTypeOK' /\ jv'.left = jcall.len
    <3>1. jcall.len \in Int
      BY <2>1, JtagCallOf
    <3>2. jv' \in [in : Nat, out : Nat, n : Nat, left : Int, got : Nat] /\ jv'.left = jcall.len
      BY <2>1, <3>1 DEF JtagTypeOK
    <3> QED
      BY <1>1, <2>1, <3>2 DEF JtagTypeOK
  <2>3. JtagDriver'
    BY <1>1, <2>1, <2>2, JtagCallOf DEF JtagDriver, JtagOneDriver
  <2>4. JtagCopy'
    BY <2>1, JtagCallOf DEF JtagCopy, JtagDriver, JtagOneDriver, JtagSmallOps
  <2> QED
    BY <1>2, <1>3, <1>4, <2>2, <2>3, <2>4
<1>6. CASE Return("return") \/ altera_avalon_jtag_uart_close
  <2>1. /\ jpc # "idle" /\ jpc' = "idle" /\ jcalls' = Tail(jcalls)
        /\ jv' = [in |-> 0, out |-> 0, n |-> 0, left |-> 0, got |-> 0] /\ UNCHANGED <<jtag, js>>
    BY <1>6 DEF Return, altera_avalon_jtag_uart_close, Does
  <2>2. JtagTypeOK'
    <3>1. jv' \in [in : Nat, out : Nat, n : Nat, left : Int, got : Nat]
      BY <2>1
    <3> QED
      BY <1>1, <2>1, <3>1 DEF JtagTypeOK
  <2>3. JtagDriver'
    BY <1>1, <2>1, JtagCallOf DEF JtagDriver, JtagOneDriver
  <2>4. JtagCopy'
    BY <2>1 DEF JtagCopy
  <2> QED
    BY <1>2, <1>3, <1>4, <2>2, <2>3, <2>4
<1>7. CASE Kick \/ WaitEnds \/ Spin \/ Reenable
  <2>1. /\ jpc \in {"kick", "wait", "spin", "reenable"} /\ jpc' \in {"wait", "return", "write", "read"}
        /\ UNCHANGED <<jcalls, jv>>
    BY <1>7 DEF Kick, WaitEnds, Spin, Reenable, Does
  <2>2. JtagTypeOK'
    <3>1. \/ UNCHANGED <<js, jtag>>
          \/ \E bits \in SUBSET {"RE", "WE"} :
                /\ js' = [js EXCEPT !.irq_enable = bits]
                /\ jtag' = [jtag EXCEPT !.ien = bits]
      <4>1. \A bit \in {"RE", "WE"} : js.irq_enable \cup {bit} \in SUBSET {"RE", "WE"}
        BY DEF JtagTypeOK
      <4> QED
        BY <1>7, <4>1 DEF Kick, WaitEnds, Spin, Reenable, Enable
    <3> QED
      BY ZenonT(60), <1>1, <2>1, <3>1 DEF JtagTypeOK
  <2>3. JtagDriver'
    BY <1>1, <2>1 DEF JtagDriver, JtagOneDriver, JtagSmallOps
  <2>4. JtagCopy'
    BY <2>1 DEF JtagCopy
  <2> QED
    BY <1>2, <1>3, <1>4, <2>2, <2>3, <2>4
<1>8. CASE ReadStops
  <2>1. /\ jpc = "read" /\ jpc' \in {"reenable", "spin", "return"}
        /\ jv' = [jv EXCEPT !.in = js.rx_in] /\ UNCHANGED <<jtag, js, jcalls>>
    BY <1>8 DEF ReadStops, Does
  <2>2. js.rx_in \in Nat
    BY JtagRings DEF Slots
  <2>3. JtagTypeOK' /\ jv'.left = jv.left
    BY <1>1, <2>1, <2>2 DEF JtagTypeOK
  <2>4. JtagDriver'
    BY <1>1, <2>1, <2>3 DEF JtagDriver, JtagOneDriver, JtagSmallOps
  <2>5. JtagCopy'
    BY <2>1 DEF JtagCopy
  <2> QED
    BY <1>2, <1>3, <1>4, <2>3, <2>4, <2>5
<1>9. CASE SmallEmpty
  <2>1. /\ jpc = "small_read" /\ jpc' \in {"return", "small_read"}
        /\ jtag' = [jtag EXCEPT !.pause = FALSE] /\ UNCHANGED <<js, jcalls, jv>>
    BY <1>9 DEF SmallEmpty, Does
  <2>2. JtagTypeOK' /\ jtag'.ien = jtag.ien
    BY <1>1, <2>1 DEF JtagTypeOK
  <2>3. JtagDriver'
    BY <1>1, <2>1, <2>2 DEF JtagDriver, JtagOneDriver, JtagSmallOps
  <2>4. JtagCopy'
    BY <2>1 DEF JtagCopy
  <2> QED
    BY <1>2, <1>3, <1>4, <2>2, <2>3, <2>4
<1> QED
  BY <1>5, <1>6, <1>7, <1>8, <1>9 DEF JtagQuietCall

LEMMA LoadOutKeeps ==
    ASSUME JtagInv, LoadOut
    PROVE  JtagInv'
<1> USE DEF JtagInv
<1> DEFINE space == TxSpace(js.tx_in, js.tx_out)
           n     == Smaller(space, jv.left)
           out   == IF jv.left = 0 THEN jv.out ELSE js.tx_out
<1>1. /\ jpc = "write" /\ jpc' = IF jv.left = 0 \/ space = 0 THEN "kick" ELSE "copy"
      /\ jv' = [jv EXCEPT !.in = js.tx_in, !.out = out, !.n = n]
      /\ UNCHANGED <<jtag, js, jcalls, jhist, jisr, jseen>>
  BY DEF LoadOut, Does
<1>2. /\ JtagBufLen \in Nat \ {0, 1} /\ TxCount \in Nat
      /\ js.tx_in \in Slots(JtagBufLen) /\ js.tx_out \in Slots(JtagBufLen)
      /\ jv.out \in Nat
      /\ TxCount = IF js.tx_in >= js.tx_out THEN js.tx_in - js.tx_out
                   ELSE JtagBufLen + js.tx_in - js.tx_out
  BY JtagRings, JtagFields, HeldIsShort DEF TxCount
<1>3. jv.left \in Nat
  BY <1>1 DEF JtagDriver, JtagOneDriver, JtagSmallOps
<1>4. /\ space \in Nat /\ js.tx_in + space <= JtagBufLen
      /\ TxCount + space < JtagBufLen
  BY <1>2 DEF TxSpace, Slots
<1> HIDE DEF space
<1>5. /\ n \in Nat /\ n <= jv.left /\ js.tx_in + n <= JtagBufLen /\ TxCount + n < JtagBufLen
      /\ js.tx_in \in Nat /\ out \in Nat
  BY <1>2, <1>3, <1>4 DEF Smaller, Slots
<1> HIDE DEF n, out
<1>6. /\ jv' \in [in : Nat, out : Nat, n : Nat, left : Int, got : Nat]
      /\ jv'.in = js.tx_in /\ jv'.n = n /\ jv'.left = jv.left
  BY <1>1, <1>5 DEF JtagTypeOK
<1>7. JtagTypeOK'
  BY <1>1, <1>6 DEF JtagTypeOK
<1>8. JtagDriver'
  BY <1>1, <1>6 DEF JtagDriver, JtagOneDriver, JtagSmallOps
<1>9. JtagOut' /\ TxCount' = TxCount
  BY <1>1, JtagOutKept
<1>10. JtagIn'
  BY <1>1, JtagInKept
<1>11. JtagRoom'
  BY <1>1 DEF JtagRoom, WfifoCount
<1>12. JtagCopy'
  BY <1>1, <1>5, <1>6, <1>9 DEF JtagCopy
<1> QED
  BY <1>7, <1>8, <1>9, <1>10, <1>11, <1>12

LEMMA CopyKeeps ==
    ASSUME JtagInv, Copy
    PROVE  JtagInv'
<1> USE DEF JtagInv
<1> DEFINE n   == jv.n
           in  == js.tx_in
           buf == [i \in DOMAIN js.tx_buf |->
                     IF i \in in..(in + n - 1) THEN jhist.written + 1 + i - in ELSE js.tx_buf[i]]
<1>1. /\ jpc = "copy" /\ jpc' = "publish" /\ UNCHANGED <<jtag, jcalls, jv, jhist, jisr, jseen>>
  BY DEF Copy, Does
<1>2. /\ JtagBufLen \in Nat \ {0, 1} /\ TxCount \in Nat
      /\ in \in Slots(JtagBufLen) /\ js.tx_out \in Slots(JtagBufLen)
      /\ js.tx_buf \in [Slots(JtagBufLen) -> Nat]
      /\ n \in Nat /\ jv.left \in Int /\ jhist.written \in Nat
      /\ TxRing = RingOf(JtagBufLen, js.tx_buf, js.tx_out, in)
  BY JtagRings, JtagFields
<1>3. jv.in = in /\ n <= jv.left /\ in + n <= JtagBufLen /\ TxCount + n < JtagBufLen
  BY <1>1 DEF JtagCopy
<1>4. js' = [js EXCEPT !.tx_buf = buf]
  BY <1>3 DEF Copy
<1> HIDE DEF n, in
<1>5. /\ buf \in [Slots(JtagBufLen) -> Nat]
      /\ \A i \in Slots(JtagBufLen) : i \notin in..(in + n - 1) => buf[i] = js.tx_buf[i]
      /\ \A i \in in..(in + n - 1) : i \in Slots(JtagBufLen) => buf[i] = jhist.written + 1 + i - in
  <2>1. DOMAIN js.tx_buf = Slots(JtagBufLen)
    BY <1>2
  <2>2. \A i \in Slots(JtagBufLen) : i \in in..(in + n - 1) => jhist.written + 1 + i - in \in Nat
    BY <1>2 DEF Slots
  <2> QED
    BY <1>2, <2>1, <2>2
<1> HIDE DEF buf
<1>6. RingOf(JtagBufLen, buf, js.tx_out, in) = TxRing
  BY <1>2, <1>3, <1>5, RingUntouched DEF TxCount, in
<1>7. /\ js'.tx_in = in /\ js'.tx_out = js.tx_out /\ js'.tx_buf = buf
      /\ js'.rx_in = js.rx_in /\ js'.rx_out = js.rx_out /\ js'.rx_buf = js.rx_buf
  BY <1>4 DEF JtagTypeOK, in
<1>8. TxRing' = TxRing /\ TxCount' = TxCount
  BY <1>6, <1>7 DEF TxRing, JRing, RingOf, TxCount, Held, Slot, in
<1>9. JtagTypeOK'
  <2>1. js' \in [irq_enable : SUBSET {"RE", "WE"}, alarm : BOOLEAN,
               rx_in : Slots(JtagBufLen), rx_out : Slots(JtagBufLen), tx_in : Slots(JtagBufLen), tx_out : Slots(JtagBufLen),
               rx_buf : [Slots(JtagBufLen) -> Nat], tx_buf : [Slots(JtagBufLen) -> Nat], host_inactive : Nat]
    BY <1>4, <1>5 DEF JtagTypeOK
  <2> QED
    BY <1>1, <2>1 DEF JtagTypeOK
<1>10. JtagDriver'
  BY <1>1 DEF JtagDriver, JtagOneDriver, JtagSmallOps
<1>11. JtagOut'
  BY <1>1, <1>8 DEF JtagOut, TakenCount, WfifoCount
<1>12. JtagIn'
  BY <1>1, <1>7, JtagInKept
<1>13. JtagRoom'
  BY <1>1 DEF JtagRoom, WfifoCount
<1>14. JtagCopy'
  <2>1. ASSUME NEW i \in 0..(n - 1) PROVE buf[in + i] = jhist.written + 1 + i
    <3>1. in + i \in in..(in + n - 1) /\ in + i \in Slots(JtagBufLen)
      BY <1>2, <1>3 DEF Slots
    <3>2. buf[in + i] = jhist.written + 1 + (in + i) - in
      BY <1>5, <3>1
    <3> QED
      BY <1>2, <3>2 DEF Slots
  <2> QED
    BY <1>1, <1>3, <1>7, <1>8, <2>1 DEF JtagCopy, n
<1> QED
  BY <1>9, <1>10, <1>11, <1>12, <1>13, <1>14

LEMMA PublishKeeps ==
    ASSUME JtagInv, Publish
    PROVE  JtagInv'
<1> USE DEF JtagInv
<1> DEFINE n    == jv.n
           in   == js.tx_in
           end  == Slot(JtagBufLen, in + n)
           more == Stretch(js.tx_buf, in, n)
<1>1. /\ jpc = "publish" /\ jpc' = "write" /\ UNCHANGED <<jtag, jcalls, jisr, jseen>>
  BY DEF Publish, Does
<1>2. /\ JtagBufLen \in Nat \ {0, 1} /\ TxCount \in Nat
      /\ in \in Slots(JtagBufLen) /\ js.tx_out \in Slots(JtagBufLen)
      /\ js.tx_buf \in [Slots(JtagBufLen) -> Nat]
      /\ n \in Nat /\ jv.left \in Int /\ jhist.written \in Nat
      /\ TxRing = RingOf(JtagBufLen, js.tx_buf, js.tx_out, in)
      /\ TxRing \in Seq(Nat) /\ Len(TxRing) = TxCount
      /\ TakenCount \in Nat /\ WfifoCount \in Nat
  BY JtagRings, JtagFields
<1>3. /\ jv.in = in /\ n <= jv.left /\ in + n <= JtagBufLen /\ TxCount + n < JtagBufLen
      /\ \A i \in 0..(n - 1) : js.tx_buf[in + i] = jhist.written + 1 + i
  BY <1>1 DEF JtagCopy
<1>4. /\ js' = [js EXCEPT !.tx_in = end] /\ jv' = [jv EXCEPT !.left = jv.left - n]
      /\ jhist' = [jhist EXCEPT !.written = jhist.written + n]
  BY <1>3 DEF Publish, Slot
<1>5. /\ Numbered(jhist.taken, 0) /\ Numbered(jtag.wfifo, TakenCount)
      /\ Numbered(TxRing, TakenCount + WfifoCount)
      /\ TakenCount + WfifoCount + TxCount = jhist.written
  BY DEF JtagOut
<1> HIDE DEF n, in
<1>6. end \in Slots(JtagBufLen) /\ Held(JtagBufLen, js.tx_out, end) = TxCount + n
  BY <1>2, <1>3, PutBytes DEF TxCount, in
<1>7. RingOf(JtagBufLen, js.tx_buf, js.tx_out, end) = TxRing \o more
  <2>1. Held(JtagBufLen, js.tx_out, in) + n < JtagBufLen
    BY <1>3 DEF TxCount, in
  <2> DEFINE buf == js.tx_buf
             out == js.tx_out
  <2>2. /\ JtagBufLen \in Nat \ {0, 1} /\ out \in Slots(JtagBufLen) /\ in \in Slots(JtagBufLen)
        /\ buf \in [Slots(JtagBufLen) -> Nat] /\ n \in Nat /\ in + n <= JtagBufLen
    BY <1>2, <1>3
  <2>3. Held(JtagBufLen, out, in) + n < JtagBufLen
    BY <2>1
  <2> HIDE DEF buf, out
  <2>4. RingOf(JtagBufLen, buf, out, Slot(JtagBufLen, in + n))
          = RingOf(JtagBufLen, buf, out, in) \o Stretch(buf, in, n)
    BY <2>2, <2>3, RingWith
  <2> QED
    BY <1>2, <2>4 DEF buf, out
<1>8. more \in Seq(Nat) /\ Len(more) = n /\ Numbered(more, jhist.written)
  <2>1. ASSUME NEW i \in 1..n PROVE js.tx_buf[in + i - 1] = jhist.written + i
    <3> DEFINE w == jhist.written
    <3>0. w \in Nat /\ in \in Nat /\ n \in Nat
      BY <1>2 DEF Slots
    <3> HIDE DEF w
    <3>2. i - 1 \in 0..(n - 1) /\ in + (i - 1) = in + i - 1 /\ w + 1 + (i - 1) = w + i
      BY <3>0
    <3>1. i - 1 \in 0..(n - 1) /\ in + (i - 1) = in + i - 1 /\ jhist.written + 1 + (i - 1) = jhist.written + i
      BY <3>2 DEF w
    <3> QED
      BY <1>3, <3>1
  <2>2. \A i \in 1..n : more[i] = jhist.written + i
    BY <2>1 DEF Stretch
  <2>3. more \in Seq(Nat) /\ Len(more) = n
    <3>1. \A i \in 1..n : in + i - 1 \in Slots(JtagBufLen)
      BY <1>2, <1>3 DEF Slots
    <3>2. \A i \in 1..n : js.tx_buf[in + i - 1] \in Nat
      BY <1>2, <3>1
    <3> QED
      BY <1>2, <3>2 DEF Stretch
  <2> HIDE DEF more
  <2> QED
    BY <2>2, <2>3 DEF Numbered
<1> HIDE DEF end, more
<1>9. /\ js'.tx_in = end /\ js'.tx_out = js.tx_out /\ js'.tx_buf = js.tx_buf
      /\ js'.rx_in = js.rx_in /\ js'.rx_out = js.rx_out /\ js'.rx_buf = js.rx_buf
      /\ js'.irq_enable = js.irq_enable /\ js'.alarm = js.alarm
      /\ jhist'.taken = jhist.taken /\ jhist'.written = jhist.written + n
      /\ jhist'.received = jhist.received /\ jhist'.sent = jhist.sent
      /\ jv'.left = jv.left - n
  BY <1>4 DEF JtagTypeOK
<1>10. TxRing' = TxRing \o more /\ TxCount' = TxCount + n
  BY <1>6, <1>7, <1>9 DEF TxRing, JRing, RingOf, TxCount, Held, Slot
<1>11. jv.left - n \in Nat /\ jhist.written + n \in Nat
  BY <1>2, <1>3
<1>12. JtagTypeOK'
  <2>1. js' \in [irq_enable : SUBSET {"RE", "WE"}, alarm : BOOLEAN,
               rx_in : Slots(JtagBufLen), rx_out : Slots(JtagBufLen), tx_in : Slots(JtagBufLen), tx_out : Slots(JtagBufLen),
               rx_buf : [Slots(JtagBufLen) -> Nat], tx_buf : [Slots(JtagBufLen) -> Nat], host_inactive : Nat]
    BY <1>4, <1>6 DEF JtagTypeOK
  <2>2. jv' \in [in : Nat, out : Nat, n : Nat, left : Int, got : Nat]
    <3>1. jv.left - n \in Int
      BY <1>11
    <3> QED
      BY <1>4, <3>1 DEF JtagTypeOK
  <2>3. jhist' \in [taken : Seq(Nat), sent : Nat, written : Nat, received : Seq(Nat)]
    BY <1>4, <1>11 DEF JtagTypeOK
  <2> QED
    BY <1>1, <2>1, <2>2, <2>3 DEF JtagTypeOK
<1>13. JtagDriver'
  BY <1>1, <1>9, <1>11 DEF JtagDriver, JtagOneDriver, JtagSmallOps
<1>14. JtagOut'
  <2>1. Numbered(TxRing \o more, TakenCount + WfifoCount)
    <3>1. TakenCount + WfifoCount \in Nat /\ TakenCount + WfifoCount + Len(TxRing) = jhist.written
      BY <1>2, <1>5
    <3> QED
      BY <1>2, <1>5, <1>8, <3>1, NumberedConcat
  <2>2. TakenCount + WfifoCount + (TxCount + n) = jhist.written + n
    BY <1>2, <1>5
  <2>3. TakenCount' = TakenCount /\ WfifoCount' = WfifoCount
    BY <1>1, <1>9 DEF TakenCount, WfifoCount
  <2> QED
    BY <1>1, <1>5, <1>9, <1>10, <2>1, <2>2, <2>3 DEF JtagOut
<1>15. JtagIn'
  BY <1>1, <1>9, JtagInKept
<1>16. JtagRoom'
  BY <1>1 DEF JtagRoom, WfifoCount
<1>17. JtagCopy'
  BY <1>1 DEF JtagCopy
<1> QED
  BY <1>12, <1>13, <1>14, <1>15, <1>16, <1>17

LEMMA TakeChunkKeeps ==
    ASSUME JtagInv, TakeChunk
    PROVE  JtagInv'
<1> USE DEF JtagInv
<1> DEFINE n    == Smaller(RxChunk, jv.left)
           out  == js.rx_out
           end  == Slot(JtagBufLen, out + n)
           got  == [i \in 1..n |-> js.rx_buf[out + i - 1]]
           rest == SubSeq(RxRing, n + 1, RxCount)
           all  == jhist.received \o got
<1>1. /\ n > 0 /\ jpc = "read" /\ jpc' = "read" /\ UNCHANGED <<jtag, jcalls, jisr, jseen>>
      /\ jhist' = [jhist EXCEPT !.received = all]
      /\ js' = [js EXCEPT !.rx_out = end]
      /\ jv' = [jv EXCEPT !.left = jv.left - n, !.got = jv.got + n, !.in = js.rx_in]
  BY DEF TakeChunk, Does, Slot
<1>2. /\ JtagBufLen \in Nat \ {0, 1} /\ RxCount \in Nat
      /\ js.rx_in \in Slots(JtagBufLen) /\ out \in Slots(JtagBufLen)
      /\ js.rx_buf \in [Slots(JtagBufLen) -> Nat]
      /\ jhist.received \in Seq(Nat) /\ ReceivedCount \in Nat /\ RfifoCount \in Nat
      /\ jv.got \in Nat /\ jhist.sent \in Nat
      /\ RxRing = RingOf(JtagBufLen, js.rx_buf, out, js.rx_in)
      /\ RxRing \in Seq(Nat) /\ Len(RxRing) = RxCount
  BY JtagRings, JtagFields
<1>3. RxCount = IF js.rx_in >= out THEN js.rx_in - out ELSE JtagBufLen + js.rx_in - out
  BY <1>2, HeldIsShort DEF RxCount
<1>4. jv.left \in Nat
  BY <1>1 DEF JtagDriver, JtagOneDriver, JtagSmallOps
<1>5. RxChunk \in Nat /\ RxChunk <= RxCount /\ out + RxChunk <= JtagBufLen
  <2> DEFINE in == js.rx_in
  <2>1. /\ in \in Slots(JtagBufLen) /\ out \in Slots(JtagBufLen) /\ JtagBufLen \in Nat
        /\ RxCount = IF in >= out THEN in - out ELSE JtagBufLen + in - out
        /\ RxChunk = IF in >= out THEN in - out ELSE JtagBufLen - out
    BY <1>2, <1>3 DEF RxChunk
  <2> HIDE DEF in, out
  <2> QED
    BY <2>1 DEF Slots
<1>6. n \in Nat /\ n <= RxCount /\ n <= jv.left /\ out + n <= JtagBufLen
  <2> DEFINE m == RxChunk
             l == jv.left
  <2>1. m \in Nat /\ l \in Nat /\ n = IF m < l THEN m ELSE l
    BY <1>4, <1>5 DEF Smaller
  <2>2. out \in Nat /\ JtagBufLen \in Nat /\ RxCount \in Nat /\ m <= RxCount /\ out + m <= JtagBufLen
    BY <1>2, <1>5 DEF Slots
  <2> HIDE DEF n, m, l, out
  <2>3. n \in Nat /\ n <= RxCount /\ n <= l /\ out + n <= JtagBufLen
    BY <2>1, <2>2
  <2> QED
    BY <2>3 DEF l
<1>7. /\ Numbered(jhist.received, 0) /\ Numbered(RxRing, ReceivedCount)
      /\ Numbered(jtag.rfifo, ReceivedCount + RxCount)
      /\ ReceivedCount + RxCount + RfifoCount = jhist.sent
  BY DEF JtagIn
<1> HIDE DEF n, out
<1>8. /\ end \in Slots(JtagBufLen) /\ Held(JtagBufLen, end, js.rx_in) = RxCount - n
      /\ RingOf(JtagBufLen, js.rx_buf, end, js.rx_in) = rest
  <2>1. n \in 0..Held(JtagBufLen, out, js.rx_in) /\ RxCount = Held(JtagBufLen, out, js.rx_in)
    BY <1>2, <1>6 DEF RxCount, out
  <2>2. end \in Slots(JtagBufLen) /\ Held(JtagBufLen, end, js.rx_in) = RxCount - n
    BY <1>2, <2>1, TakeBytes
  <2>3. RingOf(JtagBufLen, js.rx_buf, end, js.rx_in) = rest
    BY ZenonT(60), <1>2, <2>1, RingWithout
  <2> QED
    BY <2>2, <2>3
<1>9. rest \in Seq(Nat) /\ Len(rest) = RxCount - n /\ Numbered(rest, ReceivedCount + n)
  <2>1. n \in 0..Len(RxRing)
    BY <1>2, <1>6
  <2> QED
    BY <1>2, <1>7, <2>1, NumberedParts
<1>10. got \in Seq(Nat) /\ Len(got) = n /\ Numbered(got, ReceivedCount)
  <2>1. ASSUME NEW i \in 1..n PROVE js.rx_buf[out + i - 1] = ReceivedCount + i
    <3>1. i \in 1..Held(JtagBufLen, out, js.rx_in) /\ i \in 1..RxCount
      BY <1>2, <1>6 DEF RxCount, out
    <3>2. RxRing[i] = js.rx_buf[Slot(JtagBufLen, out + (i - 1))]
      BY ZenonT(60), <1>2, <3>1, RingIsSequence
    <3>3. out + (i - 1) \in Nat /\ out + (i - 1) < JtagBufLen /\ out + (i - 1) = out + i - 1
      <4>1. out \in Nat /\ n \in Nat /\ out + n <= JtagBufLen
        BY <1>2, <1>6 DEF Slots
      <4> QED
        BY <1>2, <4>1
    <3>4. Slot(JtagBufLen, out + (i - 1)) = out + (i - 1)
      BY <1>2, <3>3, WrapAround DEF Slots
    <3>5. RxRing[i] = ReceivedCount + i
      BY <1>2, <1>7, <3>1 DEF Numbered
    <3> QED
      BY <3>2, <3>3, <3>4, <3>5
  <2>2. got \in Seq(Nat) /\ Len(got) = n
    <3>1. \A i \in 1..n : ReceivedCount + i \in Nat
      BY <1>2, <1>6
    <3> QED
      BY <1>6, <2>1, <3>1
  <2>3. \A i \in 1..n : got[i] = ReceivedCount + i
    BY <2>1
  <2> HIDE DEF got
  <2> QED
    BY <2>2, <2>3 DEF Numbered
<1> HIDE DEF end, got, rest
<1>11. all \in Seq(Nat) /\ Len(all) = ReceivedCount + n /\ Numbered(all, 0)
  <2>1. Numbered(got, 0 + Len(jhist.received))
    BY <1>2, <1>10 DEF ReceivedCount
  <2> QED
    BY <1>2, <1>7, <1>10, <2>1, NumberedConcat DEF ReceivedCount
<1> HIDE DEF all
<1>12. /\ js'.tx_in = js.tx_in /\ js'.tx_out = js.tx_out /\ js'.tx_buf = js.tx_buf
       /\ js'.rx_in = js.rx_in /\ js'.rx_out = end /\ js'.rx_buf = js.rx_buf
       /\ js'.irq_enable = js.irq_enable /\ js'.alarm = js.alarm
       /\ jhist'.taken = jhist.taken /\ jhist'.written = jhist.written
       /\ jhist'.received = all /\ jhist'.sent = jhist.sent
       /\ jv'.left = jv.left - n
  BY <1>1 DEF JtagTypeOK
<1>13. RxRing' = rest /\ RxCount' = RxCount - n
  BY <1>8, <1>12 DEF RxRing, JRing, RingOf, RxCount, Held, Slot
<1>14. jv.left - n \in Nat /\ jv.left - n \in Int /\ jv.got + n \in Nat /\ js.rx_in \in Nat
  <2>1. js.rx_in \in Nat
    BY <1>2 DEF Slots
  <2>2. jv.got + n \in Nat
    BY <1>2, <1>6
  <2>3. jv.left - n \in Nat /\ jv.left - n \in Int
    BY <1>4, <1>6
  <2> QED
    BY <2>1, <2>2, <2>3
<1>15. JtagTypeOK'
  <2>1. js' \in [irq_enable : SUBSET {"RE", "WE"}, alarm : BOOLEAN,
               rx_in : Slots(JtagBufLen), rx_out : Slots(JtagBufLen), tx_in : Slots(JtagBufLen), tx_out : Slots(JtagBufLen),
               rx_buf : [Slots(JtagBufLen) -> Nat], tx_buf : [Slots(JtagBufLen) -> Nat], host_inactive : Nat]
    BY <1>1, <1>8 DEF JtagTypeOK
  <2>2. jv' \in [in : Nat, out : Nat, n : Nat, left : Int, got : Nat]
    BY <1>1, <1>14 DEF JtagTypeOK
  <2>3. jhist' \in [taken : Seq(Nat), sent : Nat, written : Nat, received : Seq(Nat)]
    BY <1>1, <1>11 DEF JtagTypeOK
  <2> QED
    BY <1>1, <2>1, <2>2, <2>3 DEF JtagTypeOK
<1>16. JtagDriver'
  BY <1>1, <1>12, <1>14 DEF JtagDriver, JtagOneDriver, JtagSmallOps
<1>17. JtagOut'
  BY <1>1, <1>12, JtagOutKept
<1>18. JtagIn'
  <2>1. ReceivedCount + n + (RxCount - n) = ReceivedCount + RxCount
        /\ ReceivedCount + n + (RxCount - n) + RfifoCount = jhist.sent
    BY <1>2, <1>6, <1>7
  <2>2. ReceivedCount' = ReceivedCount + n /\ RfifoCount' = RfifoCount
    BY <1>1, <1>11, <1>12 DEF ReceivedCount, RfifoCount
  <2> QED
    BY <1>1, <1>7, <1>9, <1>11, <1>12, <1>13, <2>1, <2>2 DEF JtagIn
<1>19. JtagRoom'
  BY <1>1 DEF JtagRoom, WfifoCount
<1>20. JtagCopy'
  BY <1>1 DEF JtagCopy
<1> QED
  BY <1>15, <1>16, <1>17, <1>18, <1>19, <1>20

LEMMA SmallPutKeeps ==
    ASSUME JtagInv, SmallPut
    PROVE  JtagInv'
<1> USE DEF JtagInv
<1>1. /\ jpc = "small_write" /\ jpc' \in {"small_write", "return"}
      /\ UNCHANGED <<js, jcalls, jisr, jseen>>
  BY DEF SmallPut, Does
<1>2. /\ jtag.wfifo \in Seq(Nat) /\ TakenCount \in Nat /\ WfifoCount \in Nat /\ TxCount \in Nat
      /\ FifoDepth \in Nat /\ jhist.written \in Nat /\ jv.left \in Int
  BY JtagRings, JtagFields
<1>3. /\ Numbered(jhist.taken, 0) /\ Numbered(jtag.wfifo, TakenCount)
      /\ Numbered(TxRing, TakenCount + WfifoCount)
      /\ TakenCount + WfifoCount + TxCount = jhist.written
  BY DEF JtagOut
<1>4. TxCount = 0
  <2>1. js.tx_in = js.tx_out
    BY <1>1 DEF JtagDriver, JtagOneDriver, JtagSmallOps
  <2>2. js.tx_out \in Slots(JtagBufLen) /\ JtagBufLen \in Nat \ {0, 1}
    BY JtagRings
  <2> QED
    BY SMTT(30), <2>1, <2>2, HeldIsShort DEF TxCount, Slots
<1> DEFINE puts == jv.left > 0 /\ WfifoCount < FifoDepth
           fifo == IF puts THEN Append(jtag.wfifo, jhist.written + 1) ELSE jtag.wfifo
           n    == IF puts THEN 1 ELSE 0
<1>5. fifo \in Seq(Nat) /\ Len(fifo) = WfifoCount + n /\ Numbered(fifo, TakenCount)
  <2>1. jhist.written + 1 = TakenCount + Len(jtag.wfifo) + 1
    BY <1>2, <1>3, <1>4 DEF WfifoCount
  <2>2. CASE puts
    <3>1. fifo = Append(jtag.wfifo, TakenCount + Len(jtag.wfifo) + 1)
      BY <2>1, <2>2
    <3> HIDE DEF fifo, puts
    <3> QED
      BY <2>2, <1>2, <1>3, <3>1, NumberedAppend DEF WfifoCount
  <2>3. CASE ~puts
    <3>1. fifo = jtag.wfifo /\ n = 0
      BY <2>3
    <3>2. WfifoCount + 0 = WfifoCount
      BY <1>2
    <3> HIDE DEF fifo, puts, n
    <3> QED
      BY <1>2, <1>3, <3>1, <3>2 DEF WfifoCount
  <2> QED
    BY <2>2, <2>3
<1>6. n \in {0, 1} /\ (n = 1 => WfifoCount < FifoDepth)
  OBVIOUS
<1>7. jtag' = [jtag EXCEPT !.wfifo = fifo]
  BY DEF SmallPut, WfifoCount
<1> HIDE DEF puts, fifo, n
<1>8. jtag'.wfifo = fifo /\ jtag'.rfifo = jtag.rfifo /\ jtag'.ien = jtag.ien
  BY <1>7 DEF JtagTypeOK
<1>9. /\ jhist' = [jhist EXCEPT !.written = jhist.written + n]
      /\ jv' = [jv EXCEPT !.left = jv.left - n]
  <2>1. Len(fifo) - Len(jtag.wfifo) = n /\ jhist.written + Len(fifo) - Len(jtag.wfifo) = jhist.written + n
    BY <1>2, <1>5, <1>6 DEF WfifoCount
  <2> QED
    BY <1>8, <2>1 DEF SmallPut
<1>10. /\ jhist'.taken = jhist.taken /\ jhist'.received = jhist.received
       /\ jhist'.sent = jhist.sent /\ jhist'.written = jhist.written + n
  BY <1>9 DEF JtagTypeOK
<1>11. TxRing' = TxRing /\ TxCount' = TxCount
  BY <1>1 DEF TxRing, TxCount, JRing
<1>12. JtagTypeOK'
  <2>1. jhist.written + n \in Nat /\ jv.left - n \in Int
    BY <1>2, <1>6
  <2>2. jhist' \in [taken : Seq(Nat), sent : Nat, written : Nat, received : Seq(Nat)]
    BY <1>9, <2>1 DEF JtagTypeOK
  <2>3. jv' \in [in : Nat, out : Nat, n : Nat, left : Int, got : Nat]
    BY <1>9, <2>1 DEF JtagTypeOK
  <2> QED
    BY <1>1, <1>5, <1>7, <2>2, <2>3 DEF JtagTypeOK
<1>13. JtagDriver'
  BY <1>1, <1>8 DEF JtagDriver, JtagOneDriver, JtagSmallOps
<1>14. JtagOut'
  <2>1. TakenCount' = TakenCount /\ WfifoCount' = WfifoCount + n
    BY <1>5, <1>8, <1>10 DEF TakenCount, WfifoCount
  <2>2. Numbered(TxRing, TakenCount + (WfifoCount + n))
    <3>1. Len(TxRing) = 0
      BY <1>4, JtagRings
    <3> QED
      BY <3>1 DEF Numbered
  <2>3. TakenCount + (WfifoCount + n) + TxCount = jhist.written + n
    BY <1>2, <1>3, <1>6
  <2> QED
    BY <1>3, <1>5, <1>8, <1>10, <1>11, <2>1, <2>2, <2>3 DEF JtagOut
<1>15. JtagIn'
  BY <1>1, <1>8, <1>10, JtagInKept
<1>16. JtagRoom'
  <2>1. WfifoCount' = WfifoCount + n
    BY <1>5, <1>8 DEF WfifoCount
  <2>2. WfifoCount + n <= FifoDepth
    BY <1>2, <1>6 DEF JtagRoom
  <2>3. jisr = "none"
    BY DEF SmallPut, Does
  <2> QED
    BY <1>1, <2>1, <2>2, <2>3 DEF JtagRoom
<1>17. JtagCopy'
  BY <1>1 DEF JtagCopy
<1> QED
  BY <1>12, <1>13, <1>14, <1>15, <1>16, <1>17

LEMMA SmallTakeKeeps ==
    ASSUME JtagInv, SmallTake
    PROVE  JtagInv'
<1> USE DEF JtagInv
<1> DEFINE byte == Head(jtag.rfifo)
           rest == Tail(jtag.rfifo)
           all  == Append(jhist.received, byte)
<1>1. /\ jpc = "small_read" /\ jpc' \in {"small_read", "return"}
      /\ UNCHANGED <<js, jcalls, jisr, jseen>>
      /\ jtag' = [jtag EXCEPT !.rfifo = rest, !.pause = FALSE]
      /\ jhist' = [jhist EXCEPT !.received = all]
      /\ jv' = [jv EXCEPT !.left = jv.left - 1, !.got = jv.got + 1]
  BY DEF SmallTake, Does
<1>2. /\ jtag.rfifo \in Seq(Nat) /\ jtag.rfifo # <<>> /\ jhist.received \in Seq(Nat)
      /\ ReceivedCount \in Nat /\ RfifoCount \in Nat /\ jhist.sent \in Nat
      /\ jv.left \in Int /\ jv.got \in Nat
  BY JtagRings, JtagFields DEF SmallTake
<1>3. RxCount = 0
  <2>1. js.rx_in = js.rx_out
    BY <1>1 DEF JtagDriver, JtagOneDriver, JtagSmallOps
  <2>2. js.rx_out \in Slots(JtagBufLen) /\ JtagBufLen \in Nat \ {0, 1}
    BY JtagRings
  <2> QED
    <3>1. RxCount = Held(JtagBufLen, js.rx_out, js.rx_out)
      BY <2>1 DEF RxCount, Held
    <3>2. Held(JtagBufLen, js.rx_out, js.rx_out) = js.rx_out - js.rx_out
      BY <2>2, HeldIsShort DEF Slots
    <3> QED
      BY <2>2, <3>1, <3>2 DEF Slots
<1>4. /\ Numbered(jhist.received, 0) /\ Numbered(RxRing, ReceivedCount)
      /\ Numbered(jtag.rfifo, ReceivedCount + RxCount)
      /\ ReceivedCount + RxCount + RfifoCount = jhist.sent
  BY DEF JtagIn
<1>5. /\ byte = ReceivedCount + 1 /\ Numbered(rest, ReceivedCount + 1)
      /\ rest \in Seq(Nat) /\ Len(rest) = RfifoCount - 1
  <2>1. ReceivedCount + RxCount = ReceivedCount
    BY <1>2, <1>3
  <2>2. Numbered(jtag.rfifo, ReceivedCount)
    BY <1>4, <2>1
  <2> QED
    BY <1>2, <2>2, NumberedTail DEF RfifoCount
<1>6. all \in Seq(Nat) /\ Len(all) = ReceivedCount + 1 /\ Numbered(all, 0)
  <2>1. byte = 0 + Len(jhist.received) + 1
    BY <1>2, <1>5 DEF ReceivedCount
  <2> HIDE DEF byte
  <2> QED
    BY <1>2, <1>4, <2>1, NumberedAppend DEF ReceivedCount
<1> HIDE DEF byte, rest, all
<1>7. /\ jtag'.wfifo = jtag.wfifo /\ jtag'.rfifo = rest /\ jtag'.ien = jtag.ien
      /\ jhist'.taken = jhist.taken /\ jhist'.written = jhist.written
      /\ jhist'.received = all /\ jhist'.sent = jhist.sent
  BY <1>1 DEF JtagTypeOK
<1>8. JtagTypeOK'
  <2>1. jv.left - 1 \in Int /\ jv.got + 1 \in Nat
    BY <1>2
  <2>2. jv' \in [in : Nat, out : Nat, n : Nat, left : Int, got : Nat]
    BY <1>1, <2>1 DEF JtagTypeOK
  <2> QED
    BY <1>1, <1>5, <1>6, <2>2 DEF JtagTypeOK
<1>9. JtagDriver'
  BY <1>1, <1>7 DEF JtagDriver, JtagOneDriver, JtagSmallOps
<1>10. JtagOut'
  BY <1>1, <1>7, JtagOutKept
<1>11. JtagIn'
  <2>1. RxRing' = RxRing /\ RxCount' = RxCount
    BY <1>1 DEF RxRing, RxCount, JRing
  <2>2. ReceivedCount' = ReceivedCount + 1 /\ RfifoCount' = RfifoCount - 1
    BY <1>5, <1>6, <1>7 DEF ReceivedCount, RfifoCount
  <2>3. Numbered(RxRing, ReceivedCount + 1)
    <3>1. Len(RxRing) = 0
      BY <1>3, JtagRings
    <3> QED
      BY <3>1 DEF Numbered
  <2>4. ReceivedCount + 1 + RxCount = ReceivedCount + 1
        /\ ReceivedCount + 1 + RxCount + (RfifoCount - 1) = jhist.sent
    BY <1>2, <1>3, <1>4
  <2> QED
    BY <1>5, <1>6, <1>7, <2>1, <2>2, <2>3, <2>4 DEF JtagIn
<1>12. JtagRoom'
  BY <1>1, <1>7 DEF JtagRoom, WfifoCount
<1>13. JtagCopy'
  BY <1>1 DEF JtagCopy
<1> QED
  BY <1>8, <1>9, <1>10, <1>11, <1>12, <1>13

--------------------------------------------------------------------------------
(* The rings and FIFOs are empty and no call is made.                      *)
LEMMA JtagInvInit == JtagInit => JtagInv
<1> SUFFICES ASSUME JtagInit PROVE JtagInv
  OBVIOUS
<1> USE DEF JtagInit
<1>1. JtagBufLen \in Nat \ {0, 1} /\ FifoDepth \in Nat \ {0} /\ 0 \in Slots(JtagBufLen)
  BY JtagAssumption DEF Slots
<1>2. <<>> \in Seq(Nat) /\ Len(<<>>) = 0
  BY EmptySeq
<1>3. InitialEnable \in {{}, {"RE"}}
  BY DEF InitialEnable
<1>4. /\ jtag = [wfifo |-> <<>>, rfifo |-> <<>>, ien |-> InitialEnable, pause |-> FALSE, ac |-> FALSE]
      /\ jhist = [taken |-> <<>>, sent |-> 0, written |-> 0, received |-> <<>>]
  OBVIOUS
<1>5. /\ js.rx_in = 0 /\ js.rx_out = 0 /\ js.tx_in = 0 /\ js.tx_out = 0
      /\ js.irq_enable = InitialEnable /\ (js.alarm <=> InitialEnable # {})
  OBVIOUS
<1>6. JtagTypeOK
  <2>1. [i \in 0..(JtagBufLen - 1) |-> 0] \in [Slots(JtagBufLen) -> Nat]
    BY DEF Slots
  <2>2. InitialEnable \in SUBSET {"RE", "WE"} /\ (InitialEnable # {}) \in BOOLEAN
    BY <1>3
  <2> HIDE DEF InitialEnable
  <2>3. js \in [irq_enable : SUBSET {"RE", "WE"}, alarm : BOOLEAN,
               rx_in : Slots(JtagBufLen), rx_out : Slots(JtagBufLen), tx_in : Slots(JtagBufLen), tx_out : Slots(JtagBufLen),
               rx_buf : [Slots(JtagBufLen) -> Nat], tx_buf : [Slots(JtagBufLen) -> Nat], host_inactive : Nat]
    BY <1>1, <2>1, <2>2
  <2>4. jtag \in [wfifo : Seq(Nat), rfifo : Seq(Nat), ien : SUBSET {"RE", "WE"},
                 pause : BOOLEAN, ac : BOOLEAN]
    BY <1>2, <1>4, <2>2
  <2>5. jhist \in [taken : Seq(Nat), sent : Nat, written : Nat, received : Seq(Nat)]
    BY <1>2, <1>4
  <2> QED
    BY <2>3, <2>4, <2>5 DEF JtagTypeOK
<1>7. JtagDriver
  <2>1. CASE jcalls \in Seq(RingCalls)
    <3>1. jv.left \in Nat /\ jpc = "idle"
      OBVIOUS
    <3> QED
      BY <2>1, <3>1 DEF JtagDriver, JtagOneDriver
  <2>2. CASE jcalls \in Seq(SmallCalls) /\ jcalls # <<>>
    <3>1. jcalls[1].op \in JtagSmallOps /\ 1 \in DOMAIN jcalls
      <4>1. jcalls[1] \in SmallCalls /\ 1 \in DOMAIN jcalls
        BY <2>2, EmptySeq
      <4> QED
        BY <4>1 DEF SmallCalls, JtagCalls
    <3>2. InitialEnable = {}
      BY <3>1 DEF InitialEnable
    <3>3. jtag.ien = {} /\ js.irq_enable = {} /\ ~js.alarm
      BY <1>4, <1>5, <3>2
    <3> QED
      BY <2>2, <1>5, <3>3 DEF JtagDriver, JtagOneDriver
  <2>3. CASE jcalls = <<>>
    <3>1. <<>> \in Seq(RingCalls)
      BY EmptySeq
    <3> QED
      BY <2>1, <2>3, <3>1
  <2> QED
    BY <2>1, <2>2, <2>3, JtagProgramsAssumption DEF RingCalls, SmallCalls
<1>8. TakenCount = 0 /\ ReceivedCount = 0 /\ WfifoCount = 0 /\ RfifoCount = 0
  BY <1>2, <1>4 DEF TakenCount, ReceivedCount, WfifoCount, RfifoCount
<1>9. TxCount = 0 /\ RxCount = 0
  BY <1>1, <1>5, HeldIsShort DEF TxCount, RxCount
<1>10. \A s \in {jhist.taken, jhist.received, jtag.wfifo, jtag.rfifo} : Len(s) = 0
  BY <1>2, <1>4
<1>11. Len(TxRing) = 0 /\ Len(RxRing) = 0
  BY <1>6, <1>9, JtagRings
<1>12. \A a \in Nat : /\ Numbered(jhist.taken, a) /\ Numbered(jhist.received, a)
                      /\ Numbered(jtag.wfifo, a) /\ Numbered(jtag.rfifo, a)
                      /\ Numbered(TxRing, a) /\ Numbered(RxRing, a)
  BY <1>10, <1>11 DEF Numbered
<1>13. JtagOut /\ JtagIn
  <2>1. jhist.written = 0 /\ jhist.sent = 0
    BY <1>4
  <2> QED
    BY <1>8, <1>9, <1>12, <2>1 DEF JtagOut, JtagIn
<1>14. JtagRoom /\ JtagCopy
  BY <1>1, <1>8 DEF JtagRoom, JtagCopy
<1> QED
  BY <1>6, <1>7, <1>13, <1>14 DEF JtagInv

LEMMA JtagInvStep == JtagInv /\ [JtagNext]_jtag_vars => JtagInv'
<1> SUFFICES ASSUME JtagInv, [JtagNext]_jtag_vars PROVE JtagInv'
  OBVIOUS
<1>1. CASE UNCHANGED jtag_vars
  <2> USE DEF JtagInv
  <2>1. UNCHANGED <<jtag, js, jisr, jseen, jcalls, jpc, jv, jhist>>
    BY <1>1 DEF jtag_vars
  <2>2. JtagTypeOK' /\ JtagDriver'
    <3>1. JtagTypeOK'
      BY <2>1 DEF JtagTypeOK
    <3>2. JtagDriver'
      BY <2>1 DEF JtagDriver, JtagOneDriver
    <3> QED
      BY <3>1, <3>2
  <2>3. JtagOut' /\ TxCount' = TxCount /\ JtagIn'
    BY <2>1, JtagOutKept, JtagInKept
  <2>4. JtagRoom' /\ JtagCopy'
    BY <2>1, <2>3 DEF JtagRoom, JtagCopy, WfifoCount
  <2> QED
    BY <2>2, <2>3, <2>4
<1>2. CASE Host
  BY <1>2, HostTakesKeeps, HostSendsKeeps, HostPausesKeeps DEF Host
<1>3. CASE altera_avalon_jtag_uart_irq
  BY <1>3, QuietHandlerKeeps, ReadDataKeeps, WriteDataKeeps DEF altera_avalon_jtag_uart_irq
<1>4. CASE altera_avalon_jtag_uart_timeout
  BY <1>4, QuietHandlerKeeps
<1>5. CASE JtagProgram
  BY <1>5, QuietCallKeeps, LoadOutKeeps, CopyKeeps, PublishKeeps, TakeChunkKeeps, SmallPutKeeps,
     SmallTakeKeeps
     DEF JtagProgram, JtagQuietCall, altera_avalon_jtag_uart_write, altera_avalon_jtag_uart_read
<1> QED
  BY <1>1, <1>2, <1>3, <1>4, <1>5 DEF JtagNext

(* The numbers follow one another through all the places of a byte.        *)
LEMMA JtagInvInOrder == JtagInv => JtagInOrder
<1> SUFFICES ASSUME JtagInv PROVE JtagInOrder
  OBVIOUS
<1> USE DEF JtagInv
<1>1. /\ jhist.taken \in Seq(Nat) /\ jtag.wfifo \in Seq(Nat) /\ TxRing \in Seq(Nat)
      /\ jhist.received \in Seq(Nat) /\ jtag.rfifo \in Seq(Nat) /\ RxRing \in Seq(Nat)
      /\ jhist.written \in Nat /\ jhist.sent \in Nat
      /\ Len(TxRing) = TxCount /\ Len(RxRing) = RxCount
      /\ TakenCount \in Nat /\ ReceivedCount \in Nat /\ WfifoCount \in Nat /\ RfifoCount \in Nat
      /\ TxCount \in Nat /\ RxCount \in Nat
  BY JtagRings, JtagFields
<1>2. jhist.taken \o jtag.wfifo \o TxRing = Counting(jhist.written)
  <2> DEFINE first == jhist.taken \o jtag.wfifo
             all   == first \o TxRing
  <2>1. /\ Numbered(jhist.taken, 0) /\ Numbered(jtag.wfifo, 0 + TakenCount)
        /\ Numbered(TxRing, 0 + (TakenCount + WfifoCount))
        /\ TakenCount + WfifoCount + TxCount = jhist.written
    BY <1>1 DEF JtagOut
  <2>2. Numbered(first, 0) /\ first \in Seq(Nat) /\ Len(first) = TakenCount + WfifoCount
    BY <1>1, <2>1, NumberedConcat DEF TakenCount, WfifoCount
  <2> HIDE DEF first
  <2>3. Numbered(all, 0) /\ all \in Seq(Nat) /\ Len(all) = jhist.written
    <3>1. Numbered(TxRing, 0 + Len(first)) /\ Len(first) + Len(TxRing) = jhist.written
      BY <1>1, <2>1, <2>2
    <3> QED
      BY <1>1, <2>2, <3>1, NumberedConcat
  <2> HIDE DEF all
  <2>4. all = Counting(jhist.written)
    BY <1>1, <2>3, NumberedIsCounting
  <2> QED
    BY <2>4 DEF all, first
<1>3. jhist.received \o RxRing \o jtag.rfifo = Counting(jhist.sent)
  <2> DEFINE first == jhist.received \o RxRing
             all   == first \o jtag.rfifo
  <2>1. /\ Numbered(jhist.received, 0) /\ Numbered(RxRing, 0 + ReceivedCount)
        /\ Numbered(jtag.rfifo, 0 + (ReceivedCount + RxCount))
        /\ ReceivedCount + RxCount + RfifoCount = jhist.sent
    BY <1>1 DEF JtagIn
  <2>2. Numbered(first, 0) /\ first \in Seq(Nat) /\ Len(first) = ReceivedCount + RxCount
    BY <1>1, <2>1, NumberedConcat DEF ReceivedCount
  <2> HIDE DEF first
  <2>3. Numbered(all, 0) /\ all \in Seq(Nat) /\ Len(all) = jhist.sent
    BY ZenonT(60), <1>1, <2>1, <2>2, NumberedConcat DEF RfifoCount
  <2> HIDE DEF all
  <2>4. all = Counting(jhist.sent)
    BY <1>1, <2>3, NumberedIsCounting
  <2> QED
    BY <2>4 DEF all, first
<1> QED
  BY <1>2, <1>3 DEF JtagInOrder, TxRing, RxRing

(* The rings, the FIFOs and their host: every byte that was written, and   *)
(* every byte that was sent, is in exactly one place and in its turn       *)
(* (altera_avalon_jtag_uart_init.c, _write.c and _read.c), for every       *)
(* length of the rings, depth of the FIFOs and sequence of calls.          *)
THEOREM JtagBytesInOrder == Spec => []JtagInOrder
<1>1. Init => JtagInv
  BY JtagInvInit DEF Init
<1>2. JtagInv /\ [Next]_vars => JtagInv'
  <2> SUFFICES ASSUME JtagInv, [Next]_vars PROVE JtagInv'
    OBVIOUS
  <2>1. [JtagNext]_jtag_vars
    BY DEF Next, vars
  <2> QED
    BY <2>1, JtagInvStep
<1> QED
  BY <1>1, <1>2, JtagInvInOrder, PTL DEF Spec
--------------------------------------------------------------------------------
(***************************************************************************)
(* Bytes in the order of their numbers, with gaps.                         *)
(***************************************************************************)
Ordered(s) == \A i, j \in 1..Len(s) : i < j => s[i] < s[j]
Below(A, B) == \A x \in A, y \in B : x < y

(***************************************************************************)
(* The UART.                                                               *)
(***************************************************************************)
UartFlags == {"CTS", "DCTS", "RRDY", "TRDY", "FE"}

UartTypeOK ==
    /\ uart \in [ctrl : SUBSET UartFlags, tx_data : Nat, tx_ready : BOOLEAN, shifter : Seq(Nat),
                 rx_data : Nat, rx_ready : BOOLEAN, FE : BOOLEAN, CTS : BOOLEAN, DCTS : BOOLEAN]
    /\ sp \in [ctrl : SUBSET UartFlags, rx_start : Slots(UartBufLen), rx_end : Slots(UartBufLen),
               tx_start : Slots(UartBufLen), tx_end : Slots(UartBufLen),
               rx_buf : [Slots(UartBufLen) -> Nat], tx_buf : [Slots(UartBufLen) -> Nat]]
    /\ isr \in {"none", "clear", "rx", "tx"} /\ seen \in SUBSET UartFlags
    /\ tmp \in SUBSET UartFlags /\ mask \in SUBSET UartFlags
    /\ hist \in [line : Seq(Nat), written : Nat, lost : SUBSET Nat, received : Seq(Nat),
                 arrived : Nat, refused : SUBSET Nat, dropped : SUBSET Nat, turns : Nat]

(* The rings and the interrupts belong to one driver, the polls to the     *)
(* other.                                                                  *)
UartRingPlaces  == {"idle", "write", "blocked", "put", "publish", "read", "close", "return",
                    "disable", "load", "or", "control", "enable"}
UartSmallPlaces == {"idle", "return", "small_write", "small_read", "small_clear", "small_take"}

UartOneDriver ==
    \/ /\ calls \in Seq(UartCalls({"write", "read", "close"})) /\ upc \in UartRingPlaces
       /\ resume \in {"idle", "blocked", "return", "read"}
    \/ /\ calls \in Seq(UartCalls(SmallOps)) /\ upc \in UartSmallPlaces
       /\ uart.ctrl = {} /\ isr = "none"
       /\ sp.tx_start = sp.tx_end /\ sp.rx_start = sp.rx_end

UartPlace == (upc # "idle" => calls # <<>>) /\ UartOneDriver

UartTxRing == Ring(sp.tx_buf, sp.tx_start, sp.tx_end)
UartRxRing == Ring(sp.rx_buf, sp.rx_start, sp.rx_end)

Waiting == IF uart.tx_ready THEN {} ELSE {uart.tx_data}
Arrived == IF uart.rx_ready THEN {uart.rx_data} ELSE {}

(* The bytes on their way out, in order, are those that were written and   *)
(* not lost, and those on their way in the ones that arrived and were not  *)
(* dropped.                                                                *)
UartOut ==
    /\ Ordered(hist.line) /\ Ordered(uart.shifter) /\ Ordered(UartTxRing)
    /\ Below(Members(hist.line), Members(uart.shifter))
    /\ Below(Members(hist.line) \cup Members(uart.shifter), Waiting)
    /\ Below(Members(hist.line) \cup Members(uart.shifter) \cup Waiting, Members(UartTxRing))
    /\ Members(hist.line) \cup Members(uart.shifter) \cup Waiting \cup Members(UartTxRing)
       \cup hist.lost = 1..hist.written

UartIn ==
    /\ Ordered(hist.received) /\ Ordered(UartRxRing)
    /\ Below(Members(hist.received), Members(UartRxRing))
    /\ Below(Members(hist.received) \cup Members(UartRxRing), Arrived)
    /\ Members(hist.received) \cup Members(UartRxRing) \cup Arrived \cup hist.dropped
       = 1..hist.arrived

(* What the handler and the polls have seen in the status is still true    *)
(* when they act on it.                                                    *)
UartSeen ==
    /\ isr = "rx" => uart.rx_ready
    /\ isr = "clear" /\ "RRDY" \in seen => uart.rx_ready
    /\ isr # "none" /\ "TRDY" \in seen => uart.tx_ready
    /\ upc = "small_take" => uart.rx_ready
    /\ upc = "small_clear" /\ "RRDY" \in tmp => uart.rx_ready

(* A turn of CTS that the handler has still to act on, or still to see, has*)
(* not cost a byte yet.                                                    *)
TurnSeen  == IF isr # "none" /\ "DCTS" \in seen THEN 1 ELSE 0
TurnAhead == IF uart.DCTS /\ ~(isr = "clear" /\ "DCTS" \in seen) THEN 1 ELSE 0

UartTurns ==
    /\ IsFiniteSet(hist.lost)
    /\ Cardinality(hist.lost) + TurnSeen + TurnAhead <= hist.turns

(* write() has found a free slot, and fills it before it moves the end.    *)
UartPut ==
    /\ upc \in {"put", "publish"} => Held(UartBufLen, sp.tx_start, sp.tx_end) + 1 < UartBufLen
    /\ upc = "publish" => sp.tx_buf[sp.tx_end] = hist.written + 1

UartInv == UartTypeOK /\ UartPlace /\ UartOut /\ UartIn /\ UartSeen /\ UartTurns /\ UartPut
--------------------------------------------------------------------------------
LEMMA OrderedConcat ==
    ASSUME NEW s \in Seq(Nat), NEW t \in Seq(Nat), Ordered(s), Ordered(t),
           Below(Members(s), Members(t))
    PROVE  /\ s \o t \in Seq(Nat) /\ Ordered(s \o t)
           /\ Members(s \o t) = Members(s) \cup Members(t)
<1> DEFINE u == s \o t
<1>1. /\ u \in Seq(Nat) /\ Len(u) = Len(s) + Len(t) /\ Len(s) \in Nat /\ Len(t) \in Nat
      /\ \A i \in 1..(Len(s) + Len(t)) : u[i] = IF i <= Len(s) THEN s[i] ELSE t[i - Len(s)]
  BY ConcatProperties
<1> HIDE DEF u
<1>2. ASSUME NEW i \in 1..Len(u)
      PROVE  \/ i \in 1..Len(s) /\ u[i] = s[i] /\ u[i] \in Members(s)
             \/ i - Len(s) \in 1..Len(t) /\ u[i] = t[i - Len(s)] /\ u[i] \in Members(t)
  <2>1. CASE i <= Len(s)
    <3>1. i \in 1..Len(s) /\ u[i] = s[i]
      BY <2>1, <1>1
    <3> QED
      BY <3>1 DEF Members
  <2>2. CASE i > Len(s)
    <3>1. i \in 1..(Len(s) + Len(t)) /\ ~(i <= Len(s))
      BY <2>2, <1>1
    <3>2. i - Len(s) \in 1..Len(t)
      BY <2>2, <3>1, <1>1
    <3>3. u[i] = t[i - Len(s)]
      BY <3>1, <1>1
    <3> QED
      BY <3>2, <3>3 DEF Members
  <2> QED
    BY <2>1, <2>2, <1>1
<1>3. Ordered(u)
  <2> SUFFICES ASSUME NEW i \in 1..Len(u), NEW j \in 1..Len(u), i < j PROVE u[i] < u[j]
    BY DEF Ordered
  <2>1. CASE i \in 1..Len(s) /\ j \in 1..Len(s)
    <3>1. u[i] = s[i] /\ u[j] = s[j]
      BY <2>1, <1>1
    <3> QED
      BY <2>1, <3>1 DEF Ordered
  <2>2. CASE i \in 1..Len(s) /\ j \notin 1..Len(s)
    <3>1. u[i] \in Members(s) /\ u[j] \in Members(t)
      <4>1. u[i] = s[i]
        BY <2>2, <1>1
      <4>2. u[i] \in Members(s)
        BY <2>2, <4>1 DEF Members
      <4> QED
        BY <2>2, <1>2, <4>2
    <3> QED
      BY <3>1 DEF Below
  <2>3. CASE i \notin 1..Len(s)
    <3>1. j \notin 1..Len(s)
      BY <2>3, <1>1
    <3>2. /\ i - Len(s) \in 1..Len(t) /\ u[i] = t[i - Len(s)]
          /\ j - Len(s) \in 1..Len(t) /\ u[j] = t[j - Len(s)]
      BY <2>3, <3>1, <1>2
    <3>3. i - Len(s) < j - Len(s)
      BY <1>1
    <3> QED
      BY <3>2, <3>3 DEF Ordered
  <2> QED
    BY <2>1, <2>2, <2>3
<1>4. ASSUME NEW x \in Members(s) PROVE x \in Members(u)
  <2>1. PICK i \in 1..Len(s) : x = s[i]
    BY DEF Members
  <2>2. i \in 1..Len(u) /\ u[i] = x
    BY <1>1, <2>1
  <2> QED
    BY <2>2 DEF Members
<1>5. ASSUME NEW x \in Members(t) PROVE x \in Members(u)
  <2>1. PICK i \in 1..Len(t) : x = t[i]
    BY DEF Members
  <2>2. Len(s) + i \in 1..Len(u) /\ ~(Len(s) + i <= Len(s)) /\ Len(s) + i - Len(s) = i
    BY <1>1
  <2>3. u[Len(s) + i] = x
    BY SMTT(30), <1>1, <2>1, <2>2
  <2> QED
    BY <2>2, <2>3 DEF Members
<1>6. ASSUME NEW x \in Members(u) PROVE x \in Members(s) \cup Members(t)
  <2>1. PICK i \in 1..Len(u) : x = u[i]
    BY DEF Members
  <2> QED
    BY <1>2, <2>1
<1>7. Members(u) = Members(s) \cup Members(t)
  BY <1>4, <1>5, <1>6
<1> QED
  BY <1>1, <1>3, <1>7 DEF u

LEMMA OrderedTail ==
    ASSUME NEW s \in Seq(Nat), s # <<>>, Ordered(s)
    PROVE  /\ Head(s) \in Nat /\ Tail(s) \in Seq(Nat) /\ Ordered(Tail(s))
           /\ Below({Head(s)}, Members(Tail(s)))
           /\ Members(s) = {Head(s)} \cup Members(Tail(s))
<1> DEFINE t == Tail(s)
<1>1. /\ t \in Seq(Nat) /\ Len(t) = Len(s) - 1 /\ Len(s) \in Nat \ {0}
      /\ Head(s) = s[1] /\ Head(s) \in Nat /\ \A i \in 1..Len(t) : t[i] = s[i + 1]
  BY HeadTailProperties, EmptySeq
<1> HIDE DEF t
<1>2. ASSUME NEW i \in 1..Len(t) PROVE i + 1 \in 1..Len(s) /\ 1 \in 1..Len(s) /\ 1 < i + 1
  BY <1>1
<1>3. Ordered(t)
  <2> SUFFICES ASSUME NEW i \in 1..Len(t), NEW j \in 1..Len(t), i < j PROVE t[i] < t[j]
    BY DEF Ordered
  <2>1. i + 1 \in 1..Len(s) /\ j + 1 \in 1..Len(s) /\ i + 1 < j + 1
    BY <1>2
  <2>2. s[i + 1] < s[j + 1]
    BY <2>1 DEF Ordered
  <2> QED
    BY <1>1, <2>2
<1>4. Below({Head(s)}, Members(t))
  <2> SUFFICES ASSUME NEW i \in 1..Len(t) PROVE Head(s) < t[i]
    BY DEF Below, Members
  <2>1. s[1] < s[i + 1]
    BY <1>2 DEF Ordered
  <2> QED
    BY <1>1, <2>1
<1>5. ASSUME NEW x \in Members(s) PROVE x \in {Head(s)} \cup Members(t)
  <2>1. PICK i \in 1..Len(s) : x = s[i]
    BY DEF Members
  <2>2. CASE i = 1
    BY <1>1, <2>1, <2>2
  <2>3. CASE i # 1
    <3>1. i - 1 \in 1..Len(t) /\ (i - 1) + 1 = i
      BY <1>1, <2>3
    <3>2. t[i - 1] = x
      BY <1>1, <2>1, <3>1
    <3> QED
      BY <3>1, <3>2 DEF Members
  <2> QED
    BY <2>2, <2>3
<1>6. ASSUME NEW i \in 1..Len(t) PROVE t[i] \in Members(s)
  BY <1>1, <1>2 DEF Members
<1>7. Head(s) \in Members(s)
  <2>1. 1 \in 1..Len(s)
    BY <1>1
  <2> QED
    BY <1>1, <2>1 DEF Members
<1>8. Members(s) = {Head(s)} \cup Members(t)
  <2>1. Members(t) \subseteq Members(s)
    BY <1>6 DEF Members
  <2> QED
    BY <1>5, <1>7, <2>1
<1> QED
  BY <1>1, <1>3, <1>4, <1>8 DEF t

LEMMA OrderedOne ==
    ASSUME NEW byte \in Nat
    PROVE  /\ <<byte>> \in Seq(Nat) /\ Ordered(<<byte>>) /\ Members(<<byte>>) = {byte}
<1>1. <<byte>> \in Seq(Nat) /\ Len(<<byte>>) = 1 /\ <<byte>>[1] = byte
  OBVIOUS
<1>2. 1..Len(<<byte>>) = {1}
  BY <1>1
<1>3. Members(<<byte>>) = {byte}
  BY <1>2 DEF Members
<1>4. Ordered(<<byte>>)
  BY <1>2 DEF Ordered
<1> QED
  BY <1>1, <1>3, <1>4

LEMMA OrderedNone == <<>> \in Seq(Nat) /\ Ordered(<<>>) /\ Members(<<>>) = {}
<1>1. <<>> \in Seq(Nat) /\ Len(<<>>) = 0
  BY EmptySeq
<1>2. 1..Len(<<>>) = {}
  BY <1>1
<1> QED
  BY <1>1, <1>2 DEF Ordered, Members

LEMMA OrderedAppend ==
    ASSUME NEW s \in Seq(Nat), NEW byte \in Nat, Ordered(s), Below(Members(s), {byte})
    PROVE  /\ Append(s, byte) \in Seq(Nat) /\ Ordered(Append(s, byte))
           /\ Members(Append(s, byte)) = Members(s) \cup {byte}
           /\ s \o <<byte>> = Append(s, byte)
<1> DEFINE one == <<byte>>
<1>1. one \in Seq(Nat) /\ Ordered(one) /\ Members(one) = {byte}
  BY OrderedOne
<1>2. Append(s, byte) = s \o one
  BY AppendIsConcat
<1> HIDE DEF one
<1>3. /\ s \o one \in Seq(Nat) /\ Ordered(s \o one)
      /\ Members(s \o one) = Members(s) \cup {byte}
  BY ZenonT(60), <1>1, OrderedConcat
<1> QED
  BY <1>2, <1>3 DEF one

LEMMA OrderedIncreases ==
    ASSUME NEW s \in Seq(Nat), Ordered(s)
    PROVE  Increasing(s)
<1> SUFFICES ASSUME NEW i \in 1..(Len(s) - 1) PROVE s[i] < s[i + 1]
  BY DEF Increasing
<1>1. i \in 1..Len(s) /\ i + 1 \in 1..Len(s) /\ i < i + 1
  OBVIOUS
<1> QED
  BY <1>1 DEF Ordered

LEMMA RingOfNone ==
    ASSUME NEW N \in Nat \ {0, 1}, NEW in \in Slots(N), NEW buf \in [Slots(N) -> Nat]
    PROVE  Ordered(RingOf(N, buf, in, in)) /\ Members(RingOf(N, buf, in, in)) = {}
<1> DEFINE ring == RingOf(N, buf, in, in)
<1>1. Held(N, in, in) = 0
  <2>1. Held(N, in, in) = in - in
    BY HeldIsShort DEF Slots
  <2> QED
    BY <2>1 DEF Slots
<1>2. ring \in Seq(Nat) /\ Len(ring) = 0
  BY <1>1, RingIsSequence
<1> HIDE DEF ring
<1>3. 1..Len(ring) = {}
  BY <1>2
<1>4. Ordered(ring) /\ Members(ring) = {}
  BY <1>3 DEF Ordered, Members
<1> QED
  BY <1>4 DEF ring

(* The byte that is taken out of a ring is its first.                      *)
LEMMA RingTake ==
    ASSUME NEW N \in Nat \ {0, 1}, NEW out \in Slots(N), NEW in \in Slots(N),
           NEW buf \in [Slots(N) -> Nat], out # in
    PROVE  /\ RingOf(N, buf, out, in) # <<>>
           /\ Head(RingOf(N, buf, out, in)) = buf[out]
           /\ RingOf(N, buf, Slot(N, out + 1), in) = Tail(RingOf(N, buf, out, in))
           /\ Slot(N, out + 1) \in Slots(N)
           /\ Held(N, Slot(N, out + 1), in) = Held(N, out, in) - 1
<1> DEFINE n == 1
           ring == RingOf(N, buf, out, in)
           h    == Held(N, out, in)
<1>1. h \in 0..(N - 1) /\ h # 0 /\ N \in Nat
  <2>1. h \in 0..(N - 1) /\ h = IF in >= out THEN in - out ELSE N + in - out
    BY HeldIsShort
  <2>2. N \in Nat
    OBVIOUS
  <2> QED
    BY <2>1, <2>2 DEF Slots
<1>2. n \in 0..Held(N, out, in)
  BY <1>1
<1>3. /\ ring \in Seq(Nat) /\ Len(ring) = h
      /\ \A i \in 1..h : ring[i] = buf[Slot(N, out + (i - 1))]
  BY RingIsSequence
<1>4. ring[1] = buf[out]
  <2>1. 1 \in 1..h /\ out + (1 - 1) = out
    BY <1>1 DEF Slots
  <2>2. Slot(N, out) = out
    <3>1. out \in Nat /\ out < N /\ out < N + N
      BY <1>1 DEF Slots
    <3> QED
      BY <3>1, WrapAround
  <2> HIDE DEF ring, h
  <2> QED
    BY <1>3, <2>1, <2>2
<1> HIDE DEF n
<1>5. RingOf(N, buf, Slot(N, out + n), in) = SubSeq(ring, n + 1, h)
  BY <1>2, RingWithout
<1>6. Slot(N, out + n) \in Slots(N) /\ Held(N, Slot(N, out + n), in) = h - n
  BY <1>2, TakeBytes
<1> HIDE DEF ring, h
<1>7. ring # <<>>
  BY <1>1, <1>3, EmptySeq
<1>8. Head(ring) = ring[1] /\ Tail(ring) = SubSeq(ring, 2, h)
  BY <1>3, <1>7, HeadTailProperties, TailIsSubSeq
<1>9. RingOf(N, buf, Slot(N, out + 1), in) = Tail(ring)
  <2>1. n = 1 /\ n + 1 = 2
    BY DEF n
  <2> QED
    BY <1>5, <1>8, <2>1
<1>10. Slot(N, out + 1) \in Slots(N) /\ Held(N, Slot(N, out + 1), in) = h - 1
  BY <1>6 DEF n
<1> QED
  BY <1>4, <1>7, <1>8, <1>9, <1>10 DEF ring, h

(* A ring with one free slot holds the bytes of all the others.            *)
LEMMA RingIsFull ==
    ASSUME NEW N \in Nat \ {0, 1}, NEW out \in Slots(N), NEW in \in Slots(N),
           NEW buf \in [Slots(N) -> Nat], Slot(N, in + 1) = out
    PROVE  Members(RingOf(N, buf, out, in)) = {buf[i] : i \in Slots(N) \ {in}}
<1> DEFINE ring == RingOf(N, buf, out, in)
           h    == Held(N, out, in)
<1>1. N \in Nat /\ N > 1
  OBVIOUS
<1>2. h = N - 1
  <2>1. h = IF in >= out THEN in - out ELSE N + in - out
    BY HeldIsShort
  <2>2. Slot(N, in + 1) = IF in + 1 < N THEN in + 1 ELSE in + 1 - N
    <3>1. in + 1 \in Nat /\ in + 1 < N + N
      BY <1>1 DEF Slots
    <3> QED
      BY <1>1, <3>1, WrapAround DEF Slots
  <2> QED
    BY <1>1, <2>1, <2>2 DEF Slots
<1>3. /\ ring \in Seq(Nat) /\ Len(ring) = h
      /\ \A i \in 1..h : ring[i] = buf[Slot(N, out + (i - 1))]
  BY RingIsSequence
<1>4. ASSUME NEW i \in 1..h PROVE ring[i] \in {buf[k] : k \in Slots(N) \ {in}}
  <2>1. i - 1 \in 0..(h - 1)
    BY <1>1, <1>2
  <2>2. Slot(N, out + (i - 1)) \in Slots(N) \ {in}
    BY <2>1, PlacesDiffer
  <2> QED
    BY <1>3, <2>2
<1>5. ASSUME NEW k \in Slots(N) \ {in} PROVE buf[k] \in Members(ring)
  <2> DEFINE i == IF k >= out THEN k - out ELSE k - out + N
  <2>1. i \in 0..(N - 2)
    <3>1. out = IF in + 1 < N THEN in + 1 ELSE in + 1 - N
      <4>1. in + 1 \in Nat /\ in + 1 < N + N
        BY <1>1 DEF Slots
      <4> QED
        BY <1>1, <4>1, WrapAround DEF Slots
    <3> QED
      BY <1>1, <3>1 DEF Slots
  <2>2. Slot(N, out + i) = k
    <3>1. out + i \in Nat /\ out + i < N + N
      BY <1>1, <2>1 DEF Slots
    <3>2. Slot(N, out + i) = IF out + i < N THEN out + i ELSE out + i - N
      <4> HIDE DEF i
      <4> QED
        BY <1>1, <2>1, <3>1, WrapAround DEF Slots
    <3> QED
      BY <1>1, <3>2 DEF Slots
  <2> HIDE DEF i
  <2>3. i + 1 \in 1..h /\ (i + 1) - 1 = i
    BY <1>1, <1>2, <2>1
  <2> HIDE DEF ring, h
  <2>4. ring[i + 1] = buf[k]
    BY <1>3, <2>2, <2>3
  <2> QED
    BY <1>3, <2>3, <2>4 DEF Members
<1> HIDE DEF ring, h
<1>6. Members(ring) = {buf[k] : k \in Slots(N) \ {in}}
  BY <1>3, <1>4, <1>5 DEF Members
<1> QED
  BY <1>6 DEF ring
--------------------------------------------------------------------------------
LEMMA UartRings ==
    ASSUME UartTypeOK
    PROVE  /\ UartBufLen \in Nat \ {0, 1}
           /\ sp.tx_start \in Slots(UartBufLen) /\ sp.tx_end \in Slots(UartBufLen)
           /\ sp.rx_start \in Slots(UartBufLen) /\ sp.rx_end \in Slots(UartBufLen)
           /\ sp.tx_buf \in [Slots(UartBufLen) -> Nat] /\ sp.rx_buf \in [Slots(UartBufLen) -> Nat]
           /\ UartTxRing \in Seq(Nat) /\ UartRxRing \in Seq(Nat)
           /\ UartTxRing = RingOf(UartBufLen, sp.tx_buf, sp.tx_start, sp.tx_end)
           /\ UartRxRing = RingOf(UartBufLen, sp.rx_buf, sp.rx_start, sp.rx_end)
<1>1. UartBufLen \in Nat \ {0, 1}
  BY UartAssumption
<1>2. /\ sp.tx_start \in Slots(UartBufLen) /\ sp.tx_end \in Slots(UartBufLen)
      /\ sp.rx_start \in Slots(UartBufLen) /\ sp.rx_end \in Slots(UartBufLen)
      /\ sp.tx_buf \in [Slots(UartBufLen) -> Nat] /\ sp.rx_buf \in [Slots(UartBufLen) -> Nat]
  BY DEF UartTypeOK
<1>3. /\ UartTxRing = RingOf(UartBufLen, sp.tx_buf, sp.tx_start, sp.tx_end)
      /\ UartRxRing = RingOf(UartBufLen, sp.rx_buf, sp.rx_start, sp.rx_end)
  BY DEF UartTxRing, UartRxRing, Ring, RingOf, Held, Slot
<1>4. UartTxRing \in Seq(Nat) /\ UartRxRing \in Seq(Nat)
  BY <1>1, <1>2, <1>3, RingIsSequence
<1> QED
  BY <1>1, <1>2, <1>3, <1>4

LEMMA UartFields ==
    ASSUME UartTypeOK
    PROVE  /\ uart.ctrl \in SUBSET UartFlags /\ uart.tx_data \in Nat /\ uart.rx_data \in Nat
           /\ uart.tx_ready \in BOOLEAN /\ uart.rx_ready \in BOOLEAN /\ uart.shifter \in Seq(Nat)
           /\ uart.FE \in BOOLEAN /\ uart.CTS \in BOOLEAN /\ uart.DCTS \in BOOLEAN
           /\ sp.ctrl \in SUBSET UartFlags
           /\ hist.line \in Seq(Nat) /\ hist.received \in Seq(Nat)
           /\ hist.written \in Nat /\ hist.arrived \in Nat /\ hist.turns \in Nat
           /\ hist.lost \in SUBSET Nat /\ hist.dropped \in SUBSET Nat
           /\ hist.refused \in SUBSET Nat
  BY DEF UartTypeOK

(* Steps that leave the bytes alone.                                       *)
LEMMA UartOutKept ==
    ASSUME UartOut, hist'.line = hist.line, hist'.written = hist.written, hist'.lost = hist.lost,
           uart'.shifter = uart.shifter, uart'.tx_ready = uart.tx_ready,
           uart'.tx_data = uart.tx_data, UartTxRing' = UartTxRing
    PROVE  UartOut'
<1>1. Waiting' = Waiting
  BY DEF Waiting
<1> QED
  BY <1>1 DEF UartOut, Ordered, Members

LEMMA UartInKept ==
    ASSUME UartIn, hist'.received = hist.received, hist'.arrived = hist.arrived,
           hist'.dropped = hist.dropped, uart'.rx_ready = uart.rx_ready,
           uart'.rx_data = uart.rx_data, UartRxRing' = UartRxRing
    PROVE  UartIn'
<1>1. Arrived' = Arrived
  BY DEF Arrived
<1> QED
  BY <1>1 DEF UartIn, Ordered, Members

LEMMA TurnsLeft ==
    /\ TurnSeen \in {0, 1} /\ TurnAhead \in {0, 1}
    /\ TurnSeen' \in {0, 1} /\ TurnAhead' \in {0, 1}
  BY DEF TurnSeen, TurnAhead

LEMMA UartTurnsCount ==
    ASSUME UartTurns, hist.turns \in Nat, hist'.turns \in Nat, hist'.lost = hist.lost,
           TurnSeen' + TurnAhead' + hist.turns <= TurnSeen + TurnAhead + hist'.turns
    PROVE  UartTurns'
<1>1. IsFiniteSet(hist.lost) /\ Cardinality(hist.lost) \in Nat
  BY FS_CardinalityType DEF UartTurns
<1>2. Cardinality(hist.lost) + TurnSeen + TurnAhead <= hist.turns
  BY DEF UartTurns
<1>3. Cardinality(hist.lost) + TurnSeen' + TurnAhead' <= hist'.turns
  BY <1>1, <1>2, TurnsLeft
<1> QED
  BY <1>1, <1>3 DEF UartTurns

LEMMA UartTurnsKept ==
    ASSUME UartTurns, hist.turns \in Nat, hist'.lost = hist.lost, hist'.turns = hist.turns,
           seen' = seen, isr' = isr \/ (isr \in {"rx", "tx"} /\ isr' \in {"tx", "none"}),
           uart'.DCTS => uart.DCTS
    PROVE  UartTurns'
<1>1. TurnSeen' <= TurnSeen /\ TurnAhead' <= TurnAhead
  BY DEF TurnSeen, TurnAhead
<1> QED
  BY <1>1, TurnsLeft, UartTurnsCount

(* Steps that leave the end of the ring alone: there is room as long as    *)
(* what it holds does not grow.                                            *)
LEMMA UartPutKept ==
    ASSUME UartPut, upc' = upc, hist'.written = hist.written, sp'.tx_start = sp.tx_start,
           sp'.tx_end = sp.tx_end, sp'.tx_buf = sp.tx_buf
    PROVE  UartPut'
  BY DEF UartPut

LEMMA RingsKept ==
    ASSUME sp'.tx_start = sp.tx_start, sp'.tx_end = sp.tx_end, sp'.tx_buf = sp.tx_buf,
           sp'.rx_start = sp.rx_start, sp'.rx_end = sp.rx_end, sp'.rx_buf = sp.rx_buf
    PROVE  UartTxRing' = UartTxRing /\ UartRxRing' = UartRxRing
  BY DEF UartTxRing, UartRxRing, Ring

--------------------------------------------------------------------------------
(* The hardware.                                                           *)
LEMMA LoadShifterKeeps ==
    ASSUME UartInv, LoadShifter, UNCHANGED <<sp, isr, seen, calls, upc, tmp, mask, resume>>
    PROVE  UartInv'
<1> USE DEF UartInv
<1> DEFINE byte == uart.tx_data
           loaded == <<byte>>
<1>1. ~uart.tx_ready /\ uart.shifter = <<>> /\ hist' = hist /\ byte \in Nat
  BY UartFields DEF LoadShifter
<1>2. uart' = [uart EXCEPT !.shifter = loaded, !.tx_ready = TRUE]
  BY DEF LoadShifter
<1>3. loaded \in Seq(Nat) /\ Ordered(loaded) /\ Members(loaded) = {byte}
  BY <1>1, OrderedOne
<1>4. Waiting = {byte} /\ Members(uart.shifter) = {}
  BY <1>1, OrderedNone DEF Waiting
<1> HIDE DEF byte, loaded
<1>5. /\ uart'.shifter = loaded /\ uart'.tx_ready /\ uart'.ctrl = uart.ctrl
      /\ uart'.rx_ready = uart.rx_ready /\ uart'.rx_data = uart.rx_data /\ uart'.DCTS = uart.DCTS
  BY <1>2 DEF UartTypeOK
<1>6. UartTypeOK'
  BY <1>1, <1>2, <1>3 DEF UartTypeOK
<1>7. UartPlace'
  BY <1>5 DEF UartPlace, UartOneDriver
<1>8. UartTxRing' = UartTxRing /\ UartRxRing' = UartRxRing
  BY RingsKept
<1>9. UartOut'
  <2>1. Waiting' = {} /\ hist' = hist /\ uart'.shifter = loaded
    BY <1>1, <1>5 DEF Waiting
  <2> QED
    BY <1>3, <1>4, <1>8, <2>1 DEF UartOut, Below
<1>10. UartIn'
  BY <1>1, <1>5, <1>8, UartInKept
<1>T. UartTurns'
  BY <1>1, <1>5, UartFields, UartTurnsKept
<1>11. UartSeen'
  BY <1>1, <1>5 DEF UartSeen
<1>12. UartPut'
  BY <1>1, UartPutKept
<1> QED
  BY <1>6, <1>7, <1>9, <1>10, <1>11, <1>12, <1>T

LEMMA ShiftOutKeeps ==
    ASSUME UartInv, ShiftOut, UNCHANGED <<sp, isr, seen, calls, upc, tmp, mask, resume>>
    PROVE  UartInv'
<1> USE DEF UartInv
<1> DEFINE line == hist.line \o uart.shifter
<1>1. /\ hist.line \in Seq(Nat) /\ uart.shifter \in Seq(Nat)
      /\ Ordered(hist.line) /\ Ordered(uart.shifter)
      /\ Below(Members(hist.line), Members(uart.shifter))
  BY UartFields DEF UartOut
<1>2. /\ line \in Seq(Nat) /\ Ordered(line)
      /\ Members(line) = Members(hist.line) \cup Members(uart.shifter)
  BY <1>1, OrderedConcat
<1>3. uart' = [uart EXCEPT !.shifter = <<>>] /\ hist' = [hist EXCEPT !.line = line]
  BY DEF ShiftOut
<1> HIDE DEF line
<1>4. /\ uart'.shifter = <<>> /\ uart'.tx_ready = uart.tx_ready /\ uart'.tx_data = uart.tx_data
      /\ uart'.rx_ready = uart.rx_ready /\ uart'.rx_data = uart.rx_data
      /\ uart'.ctrl = uart.ctrl /\ uart'.DCTS = uart.DCTS
      /\ hist'.line = line /\ hist'.written = hist.written /\ hist'.lost = hist.lost
      /\ hist'.received = hist.received /\ hist'.arrived = hist.arrived
      /\ hist'.dropped = hist.dropped /\ hist'.turns = hist.turns
  BY <1>3 DEF UartTypeOK
<1>5. UartTypeOK'
  BY <1>2, <1>3, OrderedNone DEF UartTypeOK
<1>6. UartPlace'
  BY <1>4 DEF UartPlace, UartOneDriver
<1>7. UartTxRing' = UartTxRing /\ UartRxRing' = UartRxRing
  BY RingsKept
<1>8. UartOut'
  <2>1. Waiting' = Waiting
    BY <1>4 DEF Waiting
  <2> QED
    BY <1>2, <1>4, <1>7, <2>1, OrderedNone DEF UartOut, Below
<1>9. UartIn'
  BY <1>4, <1>7, UartInKept
<1>T. UartTurns'
  BY <1>4, UartFields, UartTurnsKept
<1>10. UartSeen'
  BY <1>4 DEF UartSeen
<1>11. UartPut'
  BY <1>4, UartPutKept
<1> QED
  BY <1>5, <1>6, <1>8, <1>9, <1>10, <1>11, <1>T

LEMMA ArriveKeeps ==
    ASSUME UartInv, Arrive, UNCHANGED <<sp, isr, seen, calls, upc, tmp, mask, resume>>
    PROVE  UartInv'
<1> USE DEF UartInv
<1> DEFINE byte == hist.arrived + 1
           gone == hist.dropped \cup Arrived
<1>1. hist.arrived \in Nat /\ byte \in Nat /\ Arrived \subseteq Nat /\ gone \in SUBSET Nat
  BY UartFields DEF Arrived
<1>2. hist' = [hist EXCEPT !.arrived = byte, !.dropped = gone]
  BY DEF Arrive, Arrived, Overrun
<1>3. PICK error \in BOOLEAN :
         uart' = [uart EXCEPT !.rx_data = byte, !.rx_ready = TRUE, !.FE = error]
  <2>1. PICK error \in BOOLEAN :
          uart' = [uart EXCEPT !.rx_data = byte, !.rx_ready = TRUE, !.FE = uart.FE \/ error]
    BY DEF Arrive
  <2>2. (uart.FE \/ error) \in BOOLEAN
    OBVIOUS
  <2> HIDE DEF byte
  <2> QED
    BY <2>1, <2>2
<1>4. 1..byte = (1..hist.arrived) \cup {byte} /\ \A x \in 1..hist.arrived : x < byte
  BY <1>1
<1> HIDE DEF byte, gone
<1>5. /\ uart'.shifter = uart.shifter /\ uart'.tx_ready = uart.tx_ready
      /\ uart'.tx_data = uart.tx_data /\ uart'.rx_ready /\ uart'.rx_data = byte
      /\ uart'.ctrl = uart.ctrl /\ uart'.DCTS = uart.DCTS
      /\ hist'.line = hist.line /\ hist'.written = hist.written /\ hist'.lost = hist.lost
      /\ hist'.received = hist.received /\ hist'.arrived = byte
      /\ hist'.dropped = gone /\ hist'.turns = hist.turns
  BY <1>2, <1>3 DEF UartTypeOK
<1>6. UartTypeOK'
  BY <1>1, <1>2, <1>3 DEF UartTypeOK
<1>7. UartPlace'
  BY <1>5 DEF UartPlace, UartOneDriver
<1>8. UartTxRing' = UartTxRing /\ UartRxRing' = UartRxRing
  BY RingsKept
<1>9. UartOut'
  BY <1>5, <1>8, UartOutKept
<1>10. UartIn'
  <2>1. Arrived' = {byte}
    BY <1>5 DEF Arrived
  <2> DEFINE old == Members(hist.received) \cup Members(UartRxRing)
  <2>2. old \cup Arrived \cup hist.dropped = 1..hist.arrived
    BY DEF UartIn
  <2>3. Below(old, {byte})
    BY <1>4, <2>2 DEF Below
  <2>4. old \cup {byte} \cup gone = 1..byte
    BY <1>4, <2>2 DEF gone
  <2>5. /\ Ordered(hist.received) /\ Ordered(UartRxRing)
        /\ Below(Members(hist.received), Members(UartRxRing))
    BY DEF UartIn
  <2> QED
    BY <1>5, <1>8, <2>1, <2>3, <2>4, <2>5 DEF UartIn
<1>T. UartTurns'
  BY <1>5, UartFields, UartTurnsKept
<1>11. UartSeen'
  BY <1>5 DEF UartSeen
<1>12. UartPut'
  BY <1>5, UartPutKept
<1> QED
  BY <1>6, <1>7, <1>9, <1>10, <1>11, <1>12, <1>T

LEMMA CtsTurnsKeeps ==
    ASSUME UartInv, NEW level \in BOOLEAN, CtsTurns(level),
           UNCHANGED <<sp, isr, seen, calls, upc, tmp, mask, resume>>
    PROVE  UartInv'
<1> USE DEF UartInv
<1>1. /\ uart' = [uart EXCEPT !.CTS = level, !.DCTS = TRUE]
      /\ hist' = [hist EXCEPT !.turns = hist.turns + 1]
  BY DEF CtsTurns
<1>2. hist.turns \in Nat /\ hist.turns + 1 \in Nat /\ hist.turns + 1 # 0
  <2>1. hist.turns \in Nat
    BY UartFields
  <2> QED
    BY <2>1
<1>3. /\ uart'.shifter = uart.shifter /\ uart'.tx_ready = uart.tx_ready
      /\ uart'.tx_data = uart.tx_data /\ uart'.rx_ready = uart.rx_ready
      /\ uart'.rx_data = uart.rx_data /\ uart'.ctrl = uart.ctrl
      /\ hist'.line = hist.line /\ hist'.written = hist.written /\ hist'.lost = hist.lost
      /\ hist'.received = hist.received /\ hist'.arrived = hist.arrived
      /\ hist'.dropped = hist.dropped /\ hist'.turns = hist.turns + 1
  BY <1>1 DEF UartTypeOK
<1>4. UartTypeOK'
  BY <1>1, <1>2 DEF UartTypeOK
<1>5. UartPlace'
  BY <1>3 DEF UartPlace, UartOneDriver
<1>6. UartTxRing' = UartTxRing /\ UartRxRing' = UartRxRing
  BY RingsKept
<1>7. UartOut' /\ UartIn'
  BY <1>3, <1>6, UartOutKept, UartInKept
<1>T. UartTurns'
  <2>1. TurnSeen' = TurnSeen /\ TurnAhead' <= TurnAhead + 1
    BY DEF TurnSeen, TurnAhead
  <2>2. hist.turns \in Nat /\ hist'.turns = hist.turns + 1 /\ hist'.lost = hist.lost
    BY <1>2, <1>3
  <2> QED
    BY <2>1, <2>2, TurnsLeft, UartTurnsCount
<1>8. UartSeen'
  BY <1>2, <1>3 DEF UartSeen
<1>9. UartPut'
  BY <1>3, UartPutKept
<1> QED
  BY <1>4, <1>5, <1>7, <1>8, <1>9, <1>T
--------------------------------------------------------------------------------
(* The handler.                                                            *)
LEMMA StatusOf ==
    /\ Status(uart) \in SUBSET UartFlags
    /\ "RRDY" \in Status(uart) => uart.rx_ready
    /\ "TRDY" \in Status(uart) => uart.tx_ready
    /\ "DCTS" \in Status(uart) => uart.DCTS
  BY DEF Status, UartFlags

LEMMA IrqReadKeeps ==
    ASSUME UartInv, IrqRead
    PROVE  UartInv'
<1> USE DEF UartInv
<1>1. /\ isr = "none" /\ isr' = "clear" /\ seen' = Status(uart) /\ uart.ctrl # {}
      /\ UNCHANGED <<uart, sp, hist, calls, upc, tmp, mask, resume>>
  BY DEF IrqRead, Irq
<1>2. UartTypeOK'
  BY <1>1, StatusOf DEF UartTypeOK
<1>3. UartPlace'
  BY <1>1 DEF UartPlace, UartOneDriver
<1>4. UartTxRing' = UartTxRing /\ UartRxRing' = UartRxRing
  BY <1>1, RingsKept
<1>5. UartOut' /\ UartIn'
  BY <1>1, <1>4, UartOutKept, UartInKept
<1>T. UartTurns'
  <2>1. TurnSeen' <= TurnAhead /\ TurnAhead' = 0
    BY <1>1 DEF TurnSeen, TurnAhead, Status
  <2> QED
    BY <1>1, <2>1, TurnsLeft, UartFields, UartTurnsCount
<1>6. UartSeen'
  BY <1>1, StatusOf DEF UartSeen
<1>7. UartPut'
  BY <1>1, UartPutKept
<1> QED
  BY <1>2, <1>3, <1>5, <1>6, <1>7, <1>T

LEMMA IrqClearKeeps ==
    ASSUME UartInv, IrqClear
    PROVE  UartInv'
<1> USE DEF UartInv
<1>1. /\ isr = "clear" /\ uart' = [uart EXCEPT !.DCTS = FALSE, !.FE = FALSE]
      /\ isr' = IF "RRDY" \in seen THEN "rx" ELSE "tx"
      /\ UNCHANGED <<seen, sp, hist, calls, upc, tmp, mask, resume>>
  BY DEF IrqClear, InIsr
<1>2. /\ uart'.shifter = uart.shifter /\ uart'.tx_ready = uart.tx_ready
      /\ uart'.tx_data = uart.tx_data /\ uart'.rx_ready = uart.rx_ready
      /\ uart'.rx_data = uart.rx_data /\ uart'.ctrl = uart.ctrl /\ ~uart'.DCTS
  BY <1>1 DEF UartTypeOK
<1>3. UartTypeOK'
  BY <1>1 DEF UartTypeOK
<1>4. UartPlace'
  BY <1>1, <1>2 DEF UartPlace, UartOneDriver
<1>5. UartTxRing' = UartTxRing /\ UartRxRing' = UartRxRing
  BY <1>1, RingsKept
<1>6. UartOut' /\ UartIn'
  BY <1>1, <1>2, <1>5, UartOutKept, UartInKept
<1>T. UartTurns'
  <2>1. TurnSeen' = TurnSeen /\ TurnAhead' = 0
    BY <1>1, <1>2 DEF TurnSeen, TurnAhead
  <2> QED
    BY <1>1, <2>1, TurnsLeft, UartFields, UartTurnsCount
<1>7. UartSeen'
  BY <1>1, <1>2 DEF UartSeen
<1>8. UartPut'
  BY <1>1, UartPutKept
<1> QED
  BY <1>3, <1>4, <1>6, <1>7, <1>8, <1>T

(* A byte goes into the ring, or empties a full one.                       *)
LEMMA RxirqKeeps ==
    ASSUME UartInv, altera_avalon_uart_rxirq
    PROVE  UartInv'
<1> USE DEF UartInv
<1> DEFINE byte == uart.rx_data
           end  == Slot(UartBufLen, sp.rx_end + 1)
           buf  == [sp.rx_buf EXCEPT ![sp.rx_end] = byte]
           ring == RingOf(UartBufLen, buf, sp.rx_start, end)
           gone == hist.dropped \cup Forgotten
<1>1. isr = "rx" /\ isr' = "tx" /\ UNCHANGED <<seen, calls, upc, tmp, mask, resume>>
  BY DEF altera_avalon_uart_rxirq, InIsr
<1>2. CASE "FE" \in seen
  <2> DEFINE none == hist.refused \cup {byte}
  <2>1. UNCHANGED <<uart, sp>> /\ hist' = [hist EXCEPT !.refused = none]
    BY <1>2 DEF altera_avalon_uart_rxirq
  <2>2. none \in SUBSET Nat
    BY UartFields
  <2> HIDE DEF none
  <2>3. /\ hist'.line = hist.line /\ hist'.written = hist.written /\ hist'.lost = hist.lost
        /\ hist'.received = hist.received /\ hist'.arrived = hist.arrived
        /\ hist'.dropped = hist.dropped /\ hist'.turns = hist.turns
    BY <2>1 DEF UartTypeOK
  <2>4. UartTypeOK'
    <3>1. hist' \in [line : Seq(Nat), written : Nat, lost : SUBSET Nat, received : Seq(Nat),
                     arrived : Nat, refused : SUBSET Nat, dropped : SUBSET Nat, turns : Nat]
      BY <2>1, <2>2 DEF UartTypeOK
    <3> QED
      BY <1>1, <2>1, <3>1 DEF UartTypeOK
  <2>5. UartPlace'
    BY <1>1, <2>1 DEF UartPlace, UartOneDriver
  <2>6. UartTxRing' = UartTxRing /\ UartRxRing' = UartRxRing
    BY <2>1, RingsKept
  <2>7. UartOut' /\ UartIn'
    BY <2>1, <2>3, <2>6, UartOutKept, UartInKept
  <2>8. UartSeen'
    BY <1>1, <2>1 DEF UartSeen
  <2>9. UartTurns'
    BY <1>1, <2>1, <2>3, UartFields, UartTurnsKept
  <2>10. UartPut'
    BY <1>1, <2>1, <2>3, UartPutKept
  <2> QED
    BY <2>4, <2>5, <2>7, <2>8, <2>9, <2>10
<1>3. CASE "FE" \notin seen
  <2> DEFINE bits    == IF Succ(end) = sp.rx_start THEN sp.ctrl \ {"RRDY"} ELSE sp.ctrl
             enabled == IF Succ(end) = sp.rx_start THEN bits ELSE uart.ctrl
  <2>1. /\ sp' = [sp EXCEPT !.rx_buf = buf, !.rx_end = end, !.ctrl = bits]
        /\ uart' = [uart EXCEPT !.rx_ready = FALSE, !.ctrl = enabled]
        /\ hist' = [hist EXCEPT !.dropped = gone]
    BY <1>3 DEF altera_avalon_uart_rxirq, Succ, Slot
  <2>2. bits \in SUBSET UartFlags /\ enabled \in SUBSET UartFlags
    BY UartFields
  <2> HIDE DEF bits, enabled
  <2>3. /\ UartBufLen \in Nat \ {0, 1} /\ byte \in Nat /\ uart.rx_ready
        /\ sp.rx_start \in Slots(UartBufLen) /\ sp.rx_end \in Slots(UartBufLen)
        /\ sp.rx_buf \in [Slots(UartBufLen) -> Nat] /\ UartRxRing \in Seq(Nat)
        /\ UartRxRing = RingOf(UartBufLen, sp.rx_buf, sp.rx_start, sp.rx_end)
        /\ hist.dropped \in SUBSET Nat
    BY <1>1, UartRings, UartFields DEF UartSeen
  <2>4. end \in Slots(UartBufLen)
    <3>1. sp.rx_end + 1 \in Nat /\ sp.rx_end + 1 < UartBufLen + UartBufLen
      BY <2>3 DEF Slots
    <3>2. end = IF sp.rx_end + 1 < UartBufLen THEN sp.rx_end + 1 ELSE sp.rx_end + 1 - UartBufLen
      BY <2>3, <3>1, WrapAround DEF Slots
    <3> HIDE DEF end
    <3> QED
      BY SMTT(30), <2>3, <3>2 DEF Slots
  <2>5. buf \in [Slots(UartBufLen) -> Nat]
    BY <2>3
  <2>6. Arrived = {byte}
    BY <2>3 DEF Arrived
  <2>7. /\ Ordered(hist.received) /\ Ordered(UartRxRing)
        /\ Below(Members(hist.received), Members(UartRxRing))
        /\ Below(Members(hist.received) \cup Members(UartRxRing), {byte})
        /\ Members(hist.received) \cup Members(UartRxRing) \cup {byte} \cup hist.dropped
             = 1..hist.arrived
    BY <2>6 DEF UartIn
  <2>8. /\ Ordered(ring) /\ Below(Members(hist.received), Members(ring))
        /\ Members(hist.received) \cup Members(ring) \cup gone = 1..hist.arrived
    <3>1. CASE end = sp.rx_start
      <4>1. Ordered(ring) /\ Members(ring) = {}
        <5> HIDE DEF end, buf
        <5> QED
          BY <2>3, <2>4, <2>5, <3>1, RingOfNone
      <4>2. Forgotten = Members(UartRxRing) \cup {byte}
        <5>1. Members(RingOf(UartBufLen, sp.rx_buf, sp.rx_start, sp.rx_end))
                = {sp.rx_buf[i] : i \in Slots(UartBufLen) \ {sp.rx_end}}
          BY SMTT(30), <2>3, <3>1, RingIsFull
        <5>2. Succ(sp.rx_end) = sp.rx_start
          BY <3>1 DEF Succ, Slot
        <5> QED
          BY <2>3, <5>1, <5>2 DEF Forgotten, Slots
      <4> HIDE DEF ring, byte
      <4> QED
        BY <2>7, <4>1, <4>2 DEF Below
    <3>2. CASE end # sp.rx_start
      <4>1. Forgotten = {}
        BY <3>2 DEF Forgotten, Succ, Slot
      <4>2. Held(UartBufLen, sp.rx_start, sp.rx_end) + 1 < UartBufLen
        BY <2>3, <3>2, NotFull
      <4>3. ring = UartRxRing \o <<byte>>
        <5>1. RingOf(UartBufLen, buf, sp.rx_start, sp.rx_end) = UartRxRing /\ buf[sp.rx_end] = byte
          BY SMTT(30), <2>3, <4>2, RingPut
        <5> HIDE DEF buf
        <5>2. RingOf(UartBufLen, buf, sp.rx_start, Slot(UartBufLen, sp.rx_end + 1))
                = RingOf(UartBufLen, buf, sp.rx_start, sp.rx_end) \o <<buf[sp.rx_end]>>
          BY <2>3, <2>5, <4>2, RingWithOne
        <5> QED
          BY <5>1, <5>2
      <4> HIDE DEF ring, byte
      <4>4. Ordered(ring) /\ Members(ring) = Members(UartRxRing) \cup {byte}
        <5>1. Below(Members(UartRxRing), {byte})
          BY <2>7 DEF Below
        <5> QED
          BY <2>3, <2>7, <4>3, <5>1, OrderedAppend
      <4> QED
        BY <2>7, <4>1, <4>4 DEF Below
    <3> QED
      BY <3>1, <3>2
  <2>9. gone \in SUBSET Nat
    BY <2>8
  <2> HIDE DEF byte, end, buf, gone
  <2>10. /\ uart'.shifter = uart.shifter /\ uart'.tx_ready = uart.tx_ready
         /\ uart'.tx_data = uart.tx_data /\ ~uart'.rx_ready /\ uart'.DCTS = uart.DCTS
         /\ sp'.tx_start = sp.tx_start /\ sp'.tx_end = sp.tx_end /\ sp'.tx_buf = sp.tx_buf
         /\ sp'.rx_start = sp.rx_start /\ sp'.rx_end = end /\ sp'.rx_buf = buf
         /\ hist'.line = hist.line /\ hist'.written = hist.written /\ hist'.lost = hist.lost
         /\ hist'.received = hist.received /\ hist'.arrived = hist.arrived
         /\ hist'.dropped = gone /\ hist'.turns = hist.turns
    BY <2>1 DEF UartTypeOK
  <2>11. UartTypeOK'
    <3>1. sp' \in [ctrl : SUBSET UartFlags, rx_start : Slots(UartBufLen), rx_end : Slots(UartBufLen),
                   tx_start : Slots(UartBufLen), tx_end : Slots(UartBufLen),
                   rx_buf : [Slots(UartBufLen) -> Nat], tx_buf : [Slots(UartBufLen) -> Nat]]
      BY <2>1, <2>2, <2>4, <2>5 DEF UartTypeOK
    <3>2. uart' \in [ctrl : SUBSET UartFlags, tx_data : Nat, tx_ready : BOOLEAN, shifter : Seq(Nat),
                     rx_data : Nat, rx_ready : BOOLEAN, FE : BOOLEAN, CTS : BOOLEAN, DCTS : BOOLEAN]
      BY <2>1, <2>2 DEF UartTypeOK
    <3>3. hist' \in [line : Seq(Nat), written : Nat, lost : SUBSET Nat, received : Seq(Nat),
                     arrived : Nat, refused : SUBSET Nat, dropped : SUBSET Nat, turns : Nat]
      BY <2>1, <2>9 DEF UartTypeOK
    <3> QED
      BY <1>1, <3>1, <3>2, <3>3 DEF UartTypeOK
  <2>12. UartPlace'
    BY <1>1 DEF UartPlace, UartOneDriver
  <2>13. UartTxRing' = UartTxRing /\ UartRxRing' = ring
    BY <2>10 DEF UartTxRing, UartRxRing, Ring, RingOf, Held, Slot
  <2>14. UartOut'
    BY <2>10, <2>13, UartOutKept
  <2> HIDE DEF ring
  <2>15. UartIn'
    <3>1. Arrived' = {}
      BY <2>10 DEF Arrived
    <3> QED
      BY <2>7, <2>8, <2>10, <2>13, <3>1 DEF UartIn, Below
  <2>T. UartTurns'
    BY <1>1, <2>10, UartFields, UartTurnsKept
  <2>16. UartSeen'
    <3>1. upc \notin {"small_take", "small_clear"}
      BY <1>1 DEF UartPlace, UartOneDriver, UartRingPlaces
    <3> QED
      BY <1>1, <2>10, <3>1 DEF UartSeen
  <2>17. UartPut'
    BY <1>1, <2>10, UartPutKept
  <2> QED
    BY <2>11, <2>12, <2>14, <2>15, <2>16, <2>17, <2>T
<1> QED
  BY <1>2, <1>3


(* The first byte of the ring goes to the UART.                            *)
LEMMA SendsKeeps ==
    ASSUME UartInv, altera_avalon_uart_txirq, seen \cap {"TRDY", "DCTS"} # {},
           sp.tx_start # sp.tx_end, "CTS" \in seen
    PROVE  UartInv'
<1> USE DEF UartInv
<1> DEFINE byte  == sp.tx_buf[sp.tx_start]
           begin == Slot(UartBufLen, sp.tx_start + 1)
           rest  == Tail(UartTxRing)
           bits  == LeftEnabled(sp.ctrl \cup {"TRDY"}, begin)
           gone  == hist.lost \cup Waiting
<1>1. isr = "tx" /\ isr' = "none" /\ UNCHANGED <<seen, calls, upc, tmp, mask, resume>>
  BY DEF altera_avalon_uart_txirq, InIsr
<1>2. /\ sp' = [sp EXCEPT !.tx_start = begin, !.ctrl = bits]
      /\ uart' = [Transmit(uart, byte) EXCEPT !.ctrl = bits]
      /\ hist' = [hist EXCEPT !.lost = gone]
  BY DEF altera_avalon_uart_txirq, Succ, Slot, Overwritten, Waiting
<1>3. bits \in SUBSET UartFlags
  BY UartFields DEF LeftEnabled, UartFlags
<1>4. /\ UartBufLen \in Nat \ {0, 1}
      /\ sp.tx_start \in Slots(UartBufLen) /\ sp.tx_end \in Slots(UartBufLen)
      /\ sp.tx_buf \in [Slots(UartBufLen) -> Nat] /\ UartTxRing \in Seq(Nat)
      /\ UartTxRing = RingOf(UartBufLen, sp.tx_buf, sp.tx_start, sp.tx_end)
      /\ sp.tx_start # sp.tx_end /\ uart.tx_data \in Nat /\ hist.lost \in SUBSET Nat
  BY UartRings, UartFields
<1>5. /\ UartTxRing # <<>> /\ Head(UartTxRing) = byte
      /\ RingOf(UartBufLen, sp.tx_buf, begin, sp.tx_end) = rest
      /\ begin \in Slots(UartBufLen)
      /\ Held(UartBufLen, begin, sp.tx_end) = Held(UartBufLen, sp.tx_start, sp.tx_end) - 1
  <2> DEFINE N    == UartBufLen
             out  == sp.tx_start
             in   == sp.tx_end
             full == sp.tx_buf
  <2>1. /\ N \in Nat \ {0, 1} /\ out \in Slots(N) /\ in \in Slots(N)
        /\ full \in [Slots(N) -> Nat] /\ out # in
    BY <1>4
  <2> HIDE DEF N, out, in, full
  <2>2. /\ RingOf(N, full, out, in) # <<>>
        /\ Head(RingOf(N, full, out, in)) = full[out]
        /\ RingOf(N, full, Slot(N, out + 1), in) = Tail(RingOf(N, full, out, in))
        /\ Slot(N, out + 1) \in Slots(N)
        /\ Held(N, Slot(N, out + 1), in) = Held(N, out, in) - 1
    BY <2>1, RingTake
  <2> QED
    BY <1>4, <2>2 DEF N, out, in, full
<1>6. byte \in Nat /\ gone \in SUBSET Nat
  BY <1>4 DEF Waiting
<1> HIDE DEF byte, begin, rest, bits, gone
<1>7. /\ Ordered(hist.line) /\ Ordered(uart.shifter) /\ Ordered(UartTxRing)
      /\ Below(Members(hist.line), Members(uart.shifter))
      /\ Below(Members(hist.line) \cup Members(uart.shifter), Waiting)
      /\ Below(Members(hist.line) \cup Members(uart.shifter) \cup Waiting, Members(UartTxRing))
      /\ Members(hist.line) \cup Members(uart.shifter) \cup Waiting \cup Members(UartTxRing)
         \cup hist.lost = 1..hist.written
  BY DEF UartOut
<1>8. /\ Ordered(rest) /\ Below({byte}, Members(rest))
      /\ Members(UartTxRing) = {byte} \cup Members(rest)
  BY <1>4, <1>5, <1>7, OrderedTail DEF rest
<1>9. /\ uart'.shifter = uart.shifter /\ ~uart'.tx_ready /\ uart'.tx_data = byte
      /\ uart'.rx_ready = uart.rx_ready /\ uart'.rx_data = uart.rx_data /\ uart'.DCTS = uart.DCTS
      /\ sp'.tx_start = begin /\ sp'.tx_end = sp.tx_end /\ sp'.tx_buf = sp.tx_buf
      /\ sp'.rx_start = sp.rx_start /\ sp'.rx_end = sp.rx_end /\ sp'.rx_buf = sp.rx_buf
      /\ hist'.line = hist.line /\ hist'.written = hist.written /\ hist'.lost = gone
      /\ hist'.received = hist.received /\ hist'.arrived = hist.arrived
      /\ hist'.dropped = hist.dropped /\ hist'.turns = hist.turns
  BY <1>2 DEF UartTypeOK, Transmit
<1>10. UartTypeOK'
  <2>1. sp' \in [ctrl : SUBSET UartFlags, rx_start : Slots(UartBufLen), rx_end : Slots(UartBufLen),
                 tx_start : Slots(UartBufLen), tx_end : Slots(UartBufLen),
                 rx_buf : [Slots(UartBufLen) -> Nat], tx_buf : [Slots(UartBufLen) -> Nat]]
    BY <1>2, <1>3, <1>5 DEF UartTypeOK
  <2>2. uart' \in [ctrl : SUBSET UartFlags, tx_data : Nat, tx_ready : BOOLEAN, shifter : Seq(Nat),
                   rx_data : Nat, rx_ready : BOOLEAN, FE : BOOLEAN, CTS : BOOLEAN, DCTS : BOOLEAN]
    BY <1>2, <1>3, <1>6 DEF UartTypeOK, Transmit
  <2>3. hist' \in [line : Seq(Nat), written : Nat, lost : SUBSET Nat, received : Seq(Nat),
                   arrived : Nat, refused : SUBSET Nat, dropped : SUBSET Nat, turns : Nat]
    BY <1>2, <1>6 DEF UartTypeOK
  <2> QED
    BY <1>1, <2>1, <2>2, <2>3 DEF UartTypeOK
<1>11. UartPlace'
  BY <1>1 DEF UartPlace, UartOneDriver
<1>12. UartTxRing' = rest /\ UartRxRing' = UartRxRing
  BY <1>5, <1>9 DEF UartTxRing, UartRxRing, Ring, RingOf, Held, Slot
<1>13. UartOut'
  <2>1. Waiting' = {byte}
    BY <1>9 DEF Waiting
  <2>2. /\ Below(Members(hist.line) \cup Members(uart.shifter), {byte})
        /\ Below(Members(hist.line) \cup Members(uart.shifter) \cup {byte}, Members(rest))
    BY <1>7, <1>8 DEF Below
  <2>3. Members(hist.line) \cup Members(uart.shifter) \cup {byte} \cup Members(rest)
        \cup gone = 1..hist.written
    BY <1>7, <1>8 DEF gone
  <2> QED
    BY <1>7, <1>8, <1>9, <1>12, <2>1, <2>2, <2>3 DEF UartOut
<1>14. UartIn'
  BY <1>9, <1>12, UartInKept
<1>15. UartTurns'
  <2>1. IsFiniteSet(hist.lost) /\ Cardinality(hist.lost) \in Nat /\ hist.turns \in Nat
    BY UartFields, FS_CardinalityType DEF UartTurns
  <2>2. TurnSeen' = 0 /\ TurnAhead' = TurnAhead /\ hist'.turns = hist.turns
    BY <1>1, <1>9 DEF TurnSeen, TurnAhead
  <2>3. Cardinality(hist.lost) + TurnSeen + TurnAhead <= hist.turns
    BY DEF UartTurns
  <2>4. CASE uart.tx_ready
    <3>1. gone = hist.lost
      BY <2>4 DEF gone, Waiting
    <3> QED
      BY <1>9, <2>1, <2>2, <2>3, <3>1, TurnsLeft DEF UartTurns
  <2>5. CASE ~uart.tx_ready
    <3>1. gone = hist.lost \cup {uart.tx_data}
      BY <2>5 DEF gone, Waiting
    <3>2. TurnSeen = 1
      BY <1>1, <2>5 DEF TurnSeen, UartSeen
    <3>3. IsFiniteSet(gone) /\ Cardinality(gone) \in Nat /\ Cardinality(gone) <= Cardinality(hist.lost) + 1
      <4> DEFINE S == hist.lost
                 x == uart.tx_data
      <4> HIDE DEF S, x
      <4>1. IsFiniteSet(S) /\ Cardinality(S) \in Nat
        BY <2>1 DEF S
      <4>2. IsFiniteSet(S \cup {x}) /\ Cardinality(S \cup {x}) \in {Cardinality(S), Cardinality(S) + 1}
        BY <4>1, FS_AddElement
      <4> QED
        BY <3>1, <4>1, <4>2 DEF S, x
    <3> QED
      BY <1>9, <2>1, <2>2, <2>3, <3>2, <3>3, TurnsLeft DEF UartTurns
  <2> QED
    BY <2>4, <2>5
<1>T. UartSeen'
  BY <1>1, <1>9 DEF UartSeen
<1>16. UartPut'
  <2>1. Held(UartBufLen, sp.tx_start, sp.tx_end) \in Nat /\ UartBufLen \in Nat
    BY <1>4, HeldIsShort
  <2> QED
    BY <1>1, <1>5, <1>9, <2>1 DEF UartPut
<1> QED
  BY <1>10, <1>11, <1>13, <1>14, <1>15, <1>16, <1>T

LEMMA TxirqKeeps ==
    ASSUME UartInv, altera_avalon_uart_txirq
    PROVE  UartInv'
<1> USE DEF UartInv
<1>1. CASE seen \cap {"TRDY", "DCTS"} # {} /\ sp.tx_start # sp.tx_end /\ "CTS" \in seen
  BY <1>1, SendsKeeps
<1>2. CASE ~(seen \cap {"TRDY", "DCTS"} # {} /\ sp.tx_start # sp.tx_end /\ "CTS" \in seen)
  <2>1. isr = "tx" /\ isr' = "none" /\ UNCHANGED <<seen, calls, upc, tmp, mask, resume, hist>>
    BY <1>2 DEF altera_avalon_uart_txirq, InIsr
  <2>2. \/ UNCHANGED <<uart, sp>>
        \/ \E bits \in SUBSET UartFlags : sp' = [sp EXCEPT !.ctrl = bits] /\ uart' = [uart EXCEPT !.ctrl = bits]
    <3> DEFINE bits == LeftEnabled(IF sp.tx_start # sp.tx_end /\ Throttled
                                   THEN sp.ctrl \ {"TRDY"} ELSE sp.ctrl, sp.tx_start)
    <3>1. bits \in SUBSET UartFlags
      BY UartFields DEF LeftEnabled
    <3>2. \/ UNCHANGED <<uart, sp>>
          \/ sp' = [sp EXCEPT !.ctrl = bits] /\ uart' = [uart EXCEPT !.ctrl = bits]
      BY <1>2 DEF altera_avalon_uart_txirq
    <3> HIDE DEF bits
    <3> QED
      BY <3>1, <3>2
  <2>3. /\ uart'.shifter = uart.shifter /\ uart'.tx_ready = uart.tx_ready
        /\ uart'.tx_data = uart.tx_data /\ uart'.rx_ready = uart.rx_ready
        /\ uart'.rx_data = uart.rx_data /\ uart'.DCTS = uart.DCTS
        /\ sp'.tx_start = sp.tx_start /\ sp'.tx_end = sp.tx_end /\ sp'.tx_buf = sp.tx_buf
        /\ sp'.rx_start = sp.rx_start /\ sp'.rx_end = sp.rx_end /\ sp'.rx_buf = sp.rx_buf
    BY <2>2 DEF UartTypeOK
  <2>4. UartTypeOK'
    BY <2>1, <2>2 DEF UartTypeOK
  <2>5. UartPlace'
    BY <2>1 DEF UartPlace, UartOneDriver
  <2>6. UartTxRing' = UartTxRing /\ UartRxRing' = UartRxRing
    BY <2>3, RingsKept
  <2>7. UartOut' /\ UartIn'
    BY <2>1, <2>3, <2>6, UartOutKept, UartInKept
  <2>T. UartTurns'
    BY <2>1, <2>3, UartFields, UartTurnsKept
  <2>8. UartSeen'
    BY <2>1, <2>3 DEF UartSeen
  <2>9. UartPut'
    BY <2>1, <2>3, UartPutKept
  <2> QED
    BY <2>4, <2>5, <2>7, <2>8, <2>9, <2>T
<1> QED
  BY <1>1, <1>2
--------------------------------------------------------------------------------
(* The calls.                                                              *)
UartQuietCall ==
    \/ Call \/ Returns \/ WriteBlocks \/ WriteEnds \/ WriteGoesOn \/ ReadBlocks \/ ReadEnds
    \/ altera_avalon_uart_close \/ PollStatus \/ ClearErrors
    \/ DisableAll \/ LoadShadow \/ StoreShadow \/ WriteControl \/ EnableAll

LEMMA UartCallOf ==
    ASSUME NEW ops, calls \in Seq(UartCalls(ops)), calls # <<>>
    PROVE  call.op \in ops /\ Tail(calls) \in Seq(UartCalls(ops))
<1>1. Head(calls) \in UartCalls(ops) /\ Tail(calls) \in Seq(UartCalls(ops))
  BY HeadTailProperties
<1>2. call = Head(calls)
  BY DEF call
<1> QED
  BY <1>1, <1>2 DEF UartCalls

LEMMA UartQuietCallKeeps ==
    ASSUME UartInv, UartQuietCall
    PROVE  UartInv'
<1> USE DEF UartInv
<1>1. /\ UNCHANGED <<isr, seen, hist>>
      /\ \/ UNCHANGED <<uart, sp>>
         \/ upc = "or" /\ sp' = [sp EXCEPT !.ctrl = tmp \cup mask] /\ uart' = uart
         \/ upc = "control" /\ uart' = [uart EXCEPT !.ctrl = sp.ctrl] /\ sp' = sp
         \/ uart' = [uart EXCEPT !.DCTS = FALSE, !.FE = FALSE] /\ sp' = sp
  BY DEF UartQuietCall, Call, Returns, WriteBlocks, WriteEnds, WriteGoesOn, ReadBlocks, ReadEnds,
         altera_avalon_uart_close, PollStatus, ClearErrors, DisableAll, LoadShadow, StoreShadow,
         WriteControl, EnableAll, SetBits, Goes
<1>2. /\ uart'.shifter = uart.shifter /\ uart'.tx_ready = uart.tx_ready
      /\ uart'.tx_data = uart.tx_data /\ uart'.rx_ready = uart.rx_ready
      /\ uart'.rx_data = uart.rx_data /\ (uart'.DCTS => uart.DCTS)
      /\ sp'.tx_start = sp.tx_start /\ sp'.tx_end = sp.tx_end /\ sp'.tx_buf = sp.tx_buf
      /\ sp'.rx_start = sp.rx_start /\ sp'.rx_end = sp.rx_end /\ sp'.rx_buf = sp.rx_buf
      /\ (upc # "control" => uart'.ctrl = uart.ctrl)
  BY <1>1 DEF UartTypeOK
<1>3. UartTypeOK'
  <2>1. sp.ctrl \in SUBSET UartFlags /\ tmp \cup mask \in SUBSET UartFlags
    BY UartFields DEF UartTypeOK
  <2>2. tmp' \in SUBSET UartFlags
    <3>1. tmp' \in {tmp, {}, sp.ctrl, Status(uart), tmp \ {"TRDY", "CTS", "DCTS"}}
      BY DEF UartQuietCall, Call, Returns, WriteBlocks, WriteEnds, WriteGoesOn, ReadBlocks, ReadEnds,
             altera_avalon_uart_close, PollStatus, ClearErrors, DisableAll, LoadShadow, StoreShadow,
             WriteControl, EnableAll, SetBits
    <3> QED
      BY <2>1, <3>1, StatusOf DEF UartTypeOK
  <2>3. mask' \in SUBSET UartFlags
    <3>1. mask' \in {mask, {}, {"TRDY", "DCTS"}, {"RRDY"}}
      BY DEF UartQuietCall, Call, Returns, WriteBlocks, WriteEnds, WriteGoesOn, ReadBlocks, ReadEnds,
             altera_avalon_uart_close, PollStatus, ClearErrors, DisableAll, LoadShadow, StoreShadow,
             WriteControl, EnableAll, SetBits, TxBits
    <3> QED
      BY <3>1 DEF UartTypeOK, UartFlags
  <2>4. sp' \in [ctrl : SUBSET UartFlags, rx_start : Slots(UartBufLen), rx_end : Slots(UartBufLen),
                 tx_start : Slots(UartBufLen), tx_end : Slots(UartBufLen),
                 rx_buf : [Slots(UartBufLen) -> Nat], tx_buf : [Slots(UartBufLen) -> Nat]]
    BY <1>1, <2>1 DEF UartTypeOK
  <2>5. uart' \in [ctrl : SUBSET UartFlags, tx_data : Nat, tx_ready : BOOLEAN, shifter : Seq(Nat),
                   rx_data : Nat, rx_ready : BOOLEAN, FE : BOOLEAN, CTS : BOOLEAN, DCTS : BOOLEAN]
    BY ZenonT(60), <1>1, <2>1 DEF UartTypeOK
  <2> QED
    BY <1>1, <2>2, <2>3, <2>4, <2>5 DEF UartTypeOK
<1>4. UartPlace'
  <2>1. CASE Call
    <3>1. calls # <<>> /\ calls' = calls /\ upc' = call.op /\ resume' = resume
          /\ UNCHANGED <<uart, sp>> /\ upc = "idle"
      BY <2>1 DEF Call, Goes
    <3>2. CASE calls \in Seq(UartCalls({"write", "read", "close"})) /\ upc \in UartRingPlaces
                /\ resume \in {"idle", "blocked", "return", "read"}
      <4>1. call.op \in {"write", "read", "close"}
        BY <3>1, <3>2, UartCallOf
      <4> QED
        BY <3>1, <3>2, <4>1 DEF UartPlace, UartOneDriver, UartRingPlaces
    <3>3. CASE calls \in Seq(UartCalls(SmallOps)) /\ uart.ctrl = {} /\ isr = "none"
                /\ sp.tx_start = sp.tx_end /\ sp.rx_start = sp.rx_end
      <4>1. call.op \in SmallOps
        BY <3>1, <3>3, UartCallOf
      <4> QED
        BY <1>1, <3>1, <3>3, <4>1 DEF UartPlace, UartOneDriver, UartSmallPlaces, SmallOps
    <3> QED
      BY <3>2, <3>3 DEF UartPlace, UartOneDriver
  <2>2. CASE Returns
    <3>1. calls # <<>> /\ calls' = Tail(calls) /\ upc' = "idle" /\ resume' = resume
          /\ UNCHANGED <<uart, sp>>
      BY <2>2 DEF Returns, Goes, UartPlace
    <3>2. CASE calls \in Seq(UartCalls({"write", "read", "close"})) /\ upc \in UartRingPlaces
                /\ resume \in {"idle", "blocked", "return", "read"}
      <4>1. Tail(calls) \in Seq(UartCalls({"write", "read", "close"}))
        BY <3>1, <3>2, UartCallOf
      <4> QED
        BY <3>1, <3>2, <4>1 DEF UartPlace, UartOneDriver, UartRingPlaces
    <3>3. CASE calls \in Seq(UartCalls(SmallOps)) /\ uart.ctrl = {} /\ isr = "none"
                /\ sp.tx_start = sp.tx_end /\ sp.rx_start = sp.rx_end
      <4>1. Tail(calls) \in Seq(UartCalls(SmallOps))
        BY <3>1, <3>3, UartCallOf
      <4> QED
        BY <1>1, <3>1, <3>3, <4>1 DEF UartPlace, UartOneDriver, UartSmallPlaces
    <3> QED
      BY <3>2, <3>3 DEF UartPlace, UartOneDriver
  <2>3. CASE PollStatus \/ ClearErrors
    <3>1. /\ upc \in {"small_read", "small_clear"} /\ upc' \in {"small_read", "small_clear", "small_take", "return"}
          /\ UNCHANGED <<calls, resume>>
      BY <2>3 DEF PollStatus, ClearErrors, Goes
    <3> QED
      BY <1>1, <1>2, <3>1 DEF UartPlace, UartOneDriver, UartSmallPlaces, UartRingPlaces
  <2>4. CASE ~(Call \/ Returns \/ PollStatus \/ ClearErrors)
    <3>1. /\ calls' = calls /\ upc \in UartRingPlaces \ {"idle", "return"}
          /\ upc' \in {"disable", "put", "return", "load", "or", "control", "enable", resume}
          /\ resume' \in {"idle", "blocked", "return", "read", resume}
      BY <2>4 DEF UartQuietCall, WriteBlocks, WriteEnds, WriteGoesOn, ReadBlocks, ReadEnds,
             altera_avalon_uart_close, DisableAll, LoadShadow, StoreShadow,
             WriteControl, EnableAll, SetBits, Goes, UartRingPlaces
    <3> QED
      BY <3>1 DEF UartPlace, UartOneDriver, UartSmallPlaces, UartRingPlaces
  <2> QED
    BY <2>1, <2>2, <2>3, <2>4
<1>5. UartTxRing' = UartTxRing /\ UartRxRing' = UartRxRing
  BY <1>2, RingsKept
<1>6. UartOut' /\ UartIn'
  BY <1>1, <1>2, <1>5, UartOutKept, UartInKept
<1>7. Call => upc' \in {"write", "read", "close", "small_write", "small_read"}
  <2> SUFFICES ASSUME Call PROVE upc' \in {"write", "read", "close", "small_write", "small_read"}
    OBVIOUS
  <2>1. calls # <<>> /\ upc' = call.op
    BY DEF Call, Goes
  <2>2. \/ calls \in Seq(UartCalls({"write", "read", "close"}))
        \/ calls \in Seq(UartCalls(SmallOps))
    BY DEF UartPlace, UartOneDriver
  <2>3. call.op \in {"write", "read", "close"} \/ call.op \in SmallOps
    BY <2>1, <2>2, UartCallOf
  <2> QED
    BY <2>1, <2>3 DEF SmallOps
<1>8. EnableAll => upc' \in {"idle", "blocked", "return", "read"}
  BY DEF EnableAll, Goes, UartPlace, UartOneDriver, UartSmallPlaces
<1>T. UartTurns'
  BY <1>1, <1>2, UartFields, UartTurnsKept
<1>9. UartSeen'
  <2>1. upc' = "small_take" => uart.rx_ready
    <3>1. upc' = "small_take" => ClearErrors
      BY <1>7, <1>8 DEF UartQuietCall, Returns, WriteBlocks, WriteEnds, WriteGoesOn, ReadBlocks,
             ReadEnds, altera_avalon_uart_close, PollStatus, DisableAll, LoadShadow, StoreShadow,
             WriteControl, SetBits, Goes
    <3>2. ClearErrors /\ upc' = "small_take" => upc = "small_clear" /\ "RRDY" \in tmp
      BY DEF ClearErrors, Goes
    <3> QED
      BY <3>1, <3>2 DEF UartSeen
  <2>2. upc' = "small_clear" => PollStatus
    BY <1>7, <1>8 DEF UartQuietCall, Returns, WriteBlocks, WriteEnds, WriteGoesOn, ReadBlocks,
           ReadEnds, altera_avalon_uart_close, ClearErrors, DisableAll, LoadShadow, StoreShadow,
           WriteControl, SetBits, Goes
  <2>3. PollStatus => tmp' = Status(uart)
    BY DEF PollStatus
  <2>4. upc' = "small_clear" /\ "RRDY" \in tmp' => uart.rx_ready
    BY <2>2, <2>3, StatusOf
  <2> QED
    BY <1>1, <1>2, <2>1, <2>4 DEF UartSeen
<1>10. UartPut'
  <2>1. upc' # "publish"
    BY <1>7, <1>8 DEF UartQuietCall, Returns, WriteBlocks, WriteEnds, WriteGoesOn, ReadBlocks,
           ReadEnds, altera_avalon_uart_close, PollStatus, ClearErrors, DisableAll, LoadShadow,
           StoreShadow, WriteControl, SetBits, Goes
  <2>2. upc' = "put" => WriteGoesOn
    BY <1>7, <1>8 DEF UartQuietCall, Returns, WriteBlocks, WriteEnds, ReadBlocks,
           ReadEnds, altera_avalon_uart_close, PollStatus, ClearErrors, DisableAll, LoadShadow,
           StoreShadow, WriteControl, SetBits, Goes
  <2>3. WriteGoesOn => Held(UartBufLen, sp.tx_start, sp.tx_end) + 1 < UartBufLen
    <3>1. WriteGoesOn => Slot(UartBufLen, sp.tx_end + 1) # sp.tx_start
      BY DEF WriteGoesOn, RingFull, Succ, Slot
    <3>2. /\ UartBufLen \in Nat \ {0, 1}
          /\ sp.tx_start \in Slots(UartBufLen) /\ sp.tx_end \in Slots(UartBufLen)
      BY UartRings
    <3> QED
      BY <3>1, <3>2, NotFull
  <2> QED
    BY <1>2, <2>1, <2>2, <2>3 DEF UartPut
<1> QED
  BY <1>3, <1>4, <1>6, <1>9, <1>10, <1>T


(* The byte is put into a slot that nobody reads yet.                      *)
LEMMA PutByteKeeps ==
    ASSUME UartInv, PutByte
    PROVE  UartInv'
<1> USE DEF UartInv
<1> DEFINE byte == hist.written + 1
           buf  == [sp.tx_buf EXCEPT ![sp.tx_end] = byte]
<1>1. /\ upc = "put" /\ upc' = "publish"
      /\ UNCHANGED <<isr, seen, uart, hist, calls, tmp, mask, resume>>
      /\ sp' = [sp EXCEPT !.tx_buf = buf]
  BY DEF PutByte, Goes, SlotToFill
<1>2. /\ UartBufLen \in Nat \ {0, 1} /\ hist.written \in Nat
      /\ sp.tx_start \in Slots(UartBufLen) /\ sp.tx_end \in Slots(UartBufLen)
      /\ sp.tx_buf \in [Slots(UartBufLen) -> Nat]
      /\ UartTxRing = RingOf(UartBufLen, sp.tx_buf, sp.tx_start, sp.tx_end)
  BY UartRings, UartFields
<1>3. byte \in Nat
  BY <1>2
<1>4. Held(UartBufLen, sp.tx_start, sp.tx_end) + 1 < UartBufLen
  BY <1>1 DEF UartPut
<1>5. /\ RingOf(UartBufLen, buf, sp.tx_start, sp.tx_end) = UartTxRing
      /\ buf \in [Slots(UartBufLen) -> Nat] /\ buf[sp.tx_end] = byte
  <2> HIDE DEF byte
  <2> QED
    BY <1>2, <1>3, <1>4, RingPut
<1> HIDE DEF buf
<1>6. /\ sp'.tx_start = sp.tx_start /\ sp'.tx_end = sp.tx_end /\ sp'.tx_buf = buf
      /\ sp'.rx_start = sp.rx_start /\ sp'.rx_end = sp.rx_end /\ sp'.rx_buf = sp.rx_buf
  BY <1>1 DEF UartTypeOK
<1>7. UartTypeOK'
  BY <1>1, <1>5 DEF UartTypeOK
<1>8. UartPlace'
  BY <1>1 DEF UartPlace, UartOneDriver, UartRingPlaces, UartSmallPlaces
<1>9. UartTxRing' = UartTxRing /\ UartRxRing' = UartRxRing
  BY <1>5, <1>6 DEF UartTxRing, UartRxRing, Ring, RingOf, Held, Slot
<1>10. UartOut' /\ UartIn'
  BY <1>1, <1>9, UartOutKept, UartInKept
<1>T. UartTurns'
  BY <1>1, UartFields, UartTurnsKept
<1>11. UartSeen'
  BY <1>1 DEF UartSeen
<1>12. UartPut'
  BY <1>1, <1>4, <1>5, <1>6 DEF UartPut
<1> QED
  BY <1>7, <1>8, <1>10, <1>11, <1>12, <1>T

(* And the ring holds one more.                                            *)
LEMMA PublishByteKeeps ==
    ASSUME UartInv, PublishByte
    PROVE  UartInv'
<1> USE DEF UartInv
<1> DEFINE byte == hist.written + 1
           end  == Slot(UartBufLen, sp.tx_end + 1)
           ring == Append(UartTxRing, byte)
<1>1. /\ upc = "publish" /\ upc' = "write"
      /\ UNCHANGED <<isr, seen, uart, calls, tmp, mask, resume>>
      /\ sp' = [sp EXCEPT !.tx_end = end] /\ hist' = [hist EXCEPT !.written = byte]
  BY DEF PublishByte, Goes, Succ, Slot
<1>2. /\ UartBufLen \in Nat \ {0, 1} /\ hist.written \in Nat /\ UartTxRing \in Seq(Nat)
      /\ sp.tx_start \in Slots(UartBufLen) /\ sp.tx_end \in Slots(UartBufLen)
      /\ sp.tx_buf \in [Slots(UartBufLen) -> Nat]
      /\ UartTxRing = RingOf(UartBufLen, sp.tx_buf, sp.tx_start, sp.tx_end)
  BY UartRings, UartFields
<1>3. Held(UartBufLen, sp.tx_start, sp.tx_end) + 1 < UartBufLen /\ sp.tx_buf[sp.tx_end] = byte
  BY <1>1 DEF UartPut
<1>4. byte \in Nat /\ 1..byte = (1..hist.written) \cup {byte} /\ \A x \in 1..hist.written : x < byte
  BY <1>2
<1> HIDE DEF byte
<1>5. /\ Ordered(hist.line) /\ Ordered(uart.shifter) /\ Ordered(UartTxRing)
      /\ Below(Members(hist.line), Members(uart.shifter))
      /\ Below(Members(hist.line) \cup Members(uart.shifter), Waiting)
      /\ Below(Members(hist.line) \cup Members(uart.shifter) \cup Waiting, Members(UartTxRing))
      /\ Members(hist.line) \cup Members(uart.shifter) \cup Waiting \cup Members(UartTxRing)
         \cup hist.lost = 1..hist.written
  BY DEF UartOut
<1>6. /\ ring \in Seq(Nat) /\ Ordered(ring) /\ Members(ring) = Members(UartTxRing) \cup {byte}
      /\ UartTxRing \o <<byte>> = ring
  <2>1. Below(Members(UartTxRing), {byte})
    BY <1>4, <1>5 DEF Below
  <2> QED
    BY <1>2, <1>4, <1>5, <2>1, OrderedAppend
<1>7. end \in Slots(UartBufLen)
  <2> DEFINE n == 1
  <2>1. n \in Nat /\ Held(UartBufLen, sp.tx_start, sp.tx_end) + n < UartBufLen
    BY <1>3
  <2> HIDE DEF n
  <2>2. Slot(UartBufLen, sp.tx_end + n) \in Slots(UartBufLen)
    BY <1>2, <2>1, PutBytes
  <2> QED
    BY <2>2 DEF n
<1>8. RingOf(UartBufLen, sp.tx_buf, sp.tx_start, end) = ring
  <2>1. RingOf(UartBufLen, sp.tx_buf, sp.tx_start, Slot(UartBufLen, sp.tx_end + 1))
          = RingOf(UartBufLen, sp.tx_buf, sp.tx_start, sp.tx_end) \o <<sp.tx_buf[sp.tx_end]>>
    BY <1>2, <1>3, RingWithOne
  <2> QED
    BY <1>2, <1>3, <1>6, <2>1
<1> HIDE DEF end, ring
<1>9. /\ sp'.tx_start = sp.tx_start /\ sp'.tx_end = end /\ sp'.tx_buf = sp.tx_buf
      /\ sp'.rx_start = sp.rx_start /\ sp'.rx_end = sp.rx_end /\ sp'.rx_buf = sp.rx_buf
      /\ hist'.line = hist.line /\ hist'.written = byte /\ hist'.lost = hist.lost
      /\ hist'.received = hist.received /\ hist'.arrived = hist.arrived
      /\ hist'.dropped = hist.dropped /\ hist'.turns = hist.turns
  BY <1>1 DEF UartTypeOK
<1>10. UartTypeOK'
  BY <1>1, <1>4, <1>7 DEF UartTypeOK
<1>11. UartPlace'
  BY <1>1 DEF UartPlace, UartOneDriver, UartRingPlaces, UartSmallPlaces
<1>12. UartTxRing' = ring /\ UartRxRing' = UartRxRing /\ Waiting' = Waiting
  BY <1>1, <1>8, <1>9 DEF UartTxRing, UartRxRing, Ring, RingOf, Held, Slot, Waiting
<1>13. UartOut'
  <2> DEFINE out == Members(hist.line) \cup Members(uart.shifter) \cup Waiting
  <2>1. Below(out, Members(ring)) /\ out \cup Members(ring) \cup hist.lost = 1..byte
    BY <1>4, <1>5, <1>6 DEF Below
  <2> QED
    BY <1>1, <1>5, <1>6, <1>9, <1>12, <2>1 DEF UartOut
<1>14. UartIn'
  BY <1>1, <1>9, <1>12, UartInKept
<1>T. UartTurns'
  BY <1>1, <1>9, UartFields, UartTurnsKept
<1>15. UartSeen'
  BY <1>1, <1>9 DEF UartSeen
<1>16. UartPut'
  BY <1>1 DEF UartPut
<1> QED
  BY <1>10, <1>11, <1>13, <1>14, <1>15, <1>16, <1>T

(* The first byte of the ring is read.                                     *)
LEMMA TakeByteKeeps ==
    ASSUME UartInv, TakeByte
    PROVE  UartInv'
<1> USE DEF UartInv
<1> DEFINE byte  == sp.rx_buf[sp.rx_start]
           begin == Slot(UartBufLen, sp.rx_start + 1)
           rest  == Tail(UartRxRing)
           all   == Append(hist.received, byte)
<1>1. /\ upc = "read" /\ upc' = "read" /\ sp.rx_start # sp.rx_end
      /\ UNCHANGED <<isr, seen, uart, calls, tmp, mask, resume>>
      /\ sp' = [sp EXCEPT !.rx_start = begin] /\ hist' = [hist EXCEPT !.received = all]
  BY DEF TakeByte, Goes, RingEmpty, Succ, Slot
<1>2. /\ UartBufLen \in Nat \ {0, 1} /\ hist.received \in Seq(Nat) /\ UartRxRing \in Seq(Nat)
      /\ sp.rx_start \in Slots(UartBufLen) /\ sp.rx_end \in Slots(UartBufLen)
      /\ sp.rx_buf \in [Slots(UartBufLen) -> Nat]
      /\ UartRxRing = RingOf(UartBufLen, sp.rx_buf, sp.rx_start, sp.rx_end)
  BY UartRings, UartFields
<1>3. /\ UartRxRing # <<>> /\ Head(UartRxRing) = byte
      /\ RingOf(UartBufLen, sp.rx_buf, begin, sp.rx_end) = rest
      /\ begin \in Slots(UartBufLen)
  <2> DEFINE N    == UartBufLen
             out  == sp.rx_start
             in   == sp.rx_end
             full == sp.rx_buf
  <2>1. /\ N \in Nat \ {0, 1} /\ out \in Slots(N) /\ in \in Slots(N)
        /\ full \in [Slots(N) -> Nat] /\ out # in
    BY <1>1, <1>2
  <2> HIDE DEF N, out, in, full
  <2>2. /\ RingOf(N, full, out, in) # <<>>
        /\ Head(RingOf(N, full, out, in)) = full[out]
        /\ RingOf(N, full, Slot(N, out + 1), in) = Tail(RingOf(N, full, out, in))
        /\ Slot(N, out + 1) \in Slots(N)
    BY <2>1, RingTake
  <2> QED
    BY <1>2, <2>2 DEF N, out, in, full
<1>4. byte \in Nat
  BY <1>2
<1> HIDE DEF byte, begin
<1>5. /\ Ordered(hist.received) /\ Ordered(UartRxRing)
      /\ Below(Members(hist.received), Members(UartRxRing))
      /\ Below(Members(hist.received) \cup Members(UartRxRing), Arrived)
      /\ Members(hist.received) \cup Members(UartRxRing) \cup Arrived \cup hist.dropped
           = 1..hist.arrived
  BY DEF UartIn
<1>6. /\ rest \in Seq(Nat) /\ Ordered(rest) /\ Below({byte}, Members(rest))
      /\ Members(UartRxRing) = {byte} \cup Members(rest)
  BY <1>2, <1>3, <1>5, OrderedTail
<1>7. all \in Seq(Nat) /\ Ordered(all) /\ Members(all) = Members(hist.received) \cup {byte}
  <2>1. Below(Members(hist.received), {byte})
    BY <1>5, <1>6 DEF Below
  <2> QED
    BY <1>2, <1>4, <1>5, <2>1, OrderedAppend
<1> HIDE DEF rest, all
<1>8. /\ sp'.tx_start = sp.tx_start /\ sp'.tx_end = sp.tx_end /\ sp'.tx_buf = sp.tx_buf
      /\ sp'.rx_start = begin /\ sp'.rx_end = sp.rx_end /\ sp'.rx_buf = sp.rx_buf
      /\ hist'.line = hist.line /\ hist'.written = hist.written /\ hist'.lost = hist.lost
      /\ hist'.received = all /\ hist'.arrived = hist.arrived
      /\ hist'.dropped = hist.dropped /\ hist'.turns = hist.turns
  BY <1>1 DEF UartTypeOK
<1>9. UartTypeOK'
  BY <1>1, <1>3, <1>7 DEF UartTypeOK
<1>10. UartPlace'
  BY <1>1 DEF UartPlace, UartOneDriver, UartRingPlaces, UartSmallPlaces
<1>11. UartTxRing' = UartTxRing /\ UartRxRing' = rest /\ Arrived' = Arrived
  BY <1>1, <1>3, <1>8 DEF UartTxRing, UartRxRing, Ring, RingOf, Held, Slot, Arrived
<1>12. UartOut'
  BY <1>1, <1>8, <1>11, UartOutKept
<1>13. UartIn'
  <2>1. Below(Members(all), Members(rest)) /\ Below(Members(all) \cup Members(rest), Arrived)
    BY <1>5, <1>6, <1>7 DEF Below
  <2>2. Members(all) \cup Members(rest) \cup Arrived \cup hist.dropped = 1..hist.arrived
    BY <1>5, <1>6, <1>7
  <2> QED
    BY <1>6, <1>7, <1>8, <1>11, <2>1, <2>2 DEF UartIn
<1>T. UartTurns'
  BY <1>1, <1>8, UartFields, UartTurnsKept
<1>14. UartSeen'
  BY <1>1, <1>8 DEF UartSeen
<1>15. UartPut'
  BY <1>1 DEF UartPut
<1> QED
  BY <1>9, <1>10, <1>12, <1>13, <1>14, <1>15, <1>T


(* A byte that the small driver writes.                                    *)
LEMMA PollTransmitKeeps ==
    ASSUME UartInv, PollTransmit
    PROVE  UartInv'
<1> USE DEF UartInv
<1> DEFINE byte == hist.written + 1
<1>1. /\ upc = "small_write" /\ upc' \in {"small_write", "return"}
      /\ UNCHANGED <<isr, seen, sp, calls, tmp, mask, resume>>
  BY DEF PollTransmit, Goes
<1>2. /\ calls \in Seq(UartCalls(SmallOps)) /\ uart.ctrl = {} /\ isr = "none"
      /\ sp.tx_start = sp.tx_end /\ sp.rx_start = sp.rx_end /\ calls # <<>>
  BY <1>1 DEF UartPlace, UartOneDriver, UartRingPlaces
<1>3. UartTxRing' = UartTxRing /\ UartRxRing' = UartRxRing
  BY <1>1, RingsKept
<1>4. UartPut'
  BY <1>1 DEF UartPut
<1>5. CASE ~uart.tx_ready
  <2>1. UNCHANGED <<uart, hist>>
    BY <1>5 DEF PollTransmit
  <2>2. UartTypeOK'
    BY <1>1, <2>1 DEF UartTypeOK
  <2>3. UartPlace'
    BY <1>1, <1>2, <2>1 DEF UartPlace, UartOneDriver, UartSmallPlaces
  <2>4. UartOut' /\ UartIn'
    BY <1>3, <2>1, UartOutKept, UartInKept
  <2>T. UartTurns'
    BY <1>1, <2>1, UartFields, UartTurnsKept
  <2>5. UartSeen'
    BY <1>1, <2>1 DEF UartSeen
  <2> QED
    BY <1>4, <2>2, <2>3, <2>4, <2>5, <2>T
<1>6. CASE uart.tx_ready
  <2>1. uart' = Transmit(uart, byte) /\ hist' = [hist EXCEPT !.written = byte]
    BY <1>6 DEF PollTransmit
  <2>2. hist.written \in Nat /\ UartBufLen \in Nat \ {0, 1}
        /\ sp.tx_end \in Slots(UartBufLen) /\ sp.tx_buf \in [Slots(UartBufLen) -> Nat]
        /\ UartTxRing = RingOf(UartBufLen, sp.tx_buf, sp.tx_start, sp.tx_end)
    BY UartFields, UartRings
  <2>3. byte \in Nat /\ 1..byte = (1..hist.written) \cup {byte} /\ \A x \in 1..hist.written : x < byte
    BY <2>2
  <2> HIDE DEF byte
  <2>4. /\ uart'.shifter = uart.shifter /\ ~uart'.tx_ready /\ uart'.tx_data = byte
        /\ uart'.rx_ready = uart.rx_ready /\ uart'.rx_data = uart.rx_data
        /\ uart'.ctrl = uart.ctrl /\ uart'.DCTS = uart.DCTS
        /\ hist'.line = hist.line /\ hist'.written = byte /\ hist'.lost = hist.lost
        /\ hist'.received = hist.received /\ hist'.arrived = hist.arrived
        /\ hist'.dropped = hist.dropped /\ hist'.turns = hist.turns
    BY <2>1 DEF UartTypeOK, Transmit
  <2>5. UartTypeOK'
    BY <1>1, <2>1, <2>3 DEF UartTypeOK, Transmit
  <2>6. UartPlace'
    BY <1>1, <1>2, <2>4 DEF UartPlace, UartOneDriver, UartSmallPlaces
  <2>7. Waiting = {} /\ Waiting' = {byte}
    BY <1>6, <2>4 DEF Waiting
  <2>8. Ordered(UartTxRing) /\ Members(UartTxRing) = {}
    BY <1>2, <2>2, RingOfNone
  <2>9. UartOut'
    <3>1. /\ Ordered(hist.line) /\ Ordered(uart.shifter)
          /\ Below(Members(hist.line), Members(uart.shifter))
          /\ Members(hist.line) \cup Members(uart.shifter) \cup hist.lost = 1..hist.written
      BY <2>7, <2>8 DEF UartOut
    <3>2. /\ Below(Members(hist.line) \cup Members(uart.shifter), {byte})
          /\ Below(Members(hist.line) \cup Members(uart.shifter) \cup {byte}, {})
      BY <2>3, <3>1 DEF Below
    <3>3. Members(hist.line) \cup Members(uart.shifter) \cup {byte} \cup {} \cup hist.lost = 1..byte
      BY <2>3, <3>1
    <3> QED
      BY <1>3, <2>4, <2>7, <2>8, <3>1, <3>2, <3>3 DEF UartOut
  <2>10. UartIn'
    BY <1>3, <2>4, UartInKept
  <2>T. UartTurns'
    BY <1>1, <1>2, <2>4, UartFields, UartTurnsKept
  <2>11. UartSeen'
    BY <1>1, <1>2, <2>4 DEF UartSeen
  <2> QED
    BY <1>4, <2>5, <2>6, <2>9, <2>10, <2>11, <2>T
<1> QED
  BY <1>5, <1>6 DEF UartTypeOK

(* And a byte that it reads, or drops for its framing error.               *)
LEMMA ReadReceivedKeeps ==
    ASSUME UartInv, ReadReceived
    PROVE  UartInv'
<1> USE DEF UartInv
<1> DEFINE byte == uart.rx_data
           all  == Append(hist.received, byte)
           gone == hist.dropped \cup {byte}
<1>1. /\ upc = "small_take" /\ upc' \in {"small_read", "return"}
      /\ UNCHANGED <<isr, seen, sp, calls, mask, resume>> /\ tmp' = {}
      /\ uart' = [uart EXCEPT !.rx_ready = FALSE]
      /\ \/ hist' = [hist EXCEPT !.dropped = gone]
         \/ hist' = [hist EXCEPT !.received = all]
  BY DEF ReadReceived, Goes
<1>2. /\ calls \in Seq(UartCalls(SmallOps)) /\ uart.ctrl = {} /\ isr = "none"
      /\ sp.tx_start = sp.tx_end /\ sp.rx_start = sp.rx_end /\ calls # <<>>
  BY <1>1 DEF UartPlace, UartOneDriver, UartRingPlaces
<1>3. UartTxRing' = UartTxRing /\ UartRxRing' = UartRxRing
  BY <1>1, RingsKept
<1>4. /\ UartBufLen \in Nat \ {0, 1} /\ hist.received \in Seq(Nat) /\ byte \in Nat
      /\ hist.dropped \in SUBSET Nat /\ gone \in SUBSET Nat
      /\ sp.rx_end \in Slots(UartBufLen) /\ sp.rx_buf \in [Slots(UartBufLen) -> Nat]
      /\ UartRxRing = RingOf(UartBufLen, sp.rx_buf, sp.rx_start, sp.rx_end)
  BY UartFields, UartRings
<1>5. Ordered(UartRxRing) /\ Members(UartRxRing) = {}
  BY <1>2, <1>4, RingOfNone
<1>6. Arrived = {byte}
  BY <1>1 DEF Arrived, UartSeen
<1> HIDE DEF byte
<1>7. /\ Ordered(hist.received) /\ Below(Members(hist.received), {byte})
      /\ Members(hist.received) \cup {byte} \cup hist.dropped = 1..hist.arrived
  <2>1. Below(Members(hist.received) \cup Members(UartRxRing), {byte})
    BY <1>6 DEF UartIn
  <2> QED
    BY <1>5, <1>6, <2>1 DEF UartIn
<1>8. all \in Seq(Nat) /\ Ordered(all) /\ Members(all) = Members(hist.received) \cup {byte}
  BY <1>4, <1>7, OrderedAppend
<1> HIDE DEF all
<1>9. /\ uart'.shifter = uart.shifter /\ uart'.tx_ready = uart.tx_ready
      /\ uart'.tx_data = uart.tx_data /\ ~uart'.rx_ready
      /\ uart'.ctrl = uart.ctrl /\ uart'.DCTS = uart.DCTS
      /\ hist'.line = hist.line /\ hist'.written = hist.written /\ hist'.lost = hist.lost
      /\ hist'.arrived = hist.arrived /\ hist'.turns = hist.turns
      /\ \/ hist'.received = hist.received /\ hist'.dropped = gone
         \/ hist'.received = all /\ hist'.dropped = hist.dropped
  BY <1>1 DEF UartTypeOK
<1>10. UartTypeOK'
  <2>1. hist' \in [line : Seq(Nat), written : Nat, lost : SUBSET Nat, received : Seq(Nat),
                   arrived : Nat, refused : SUBSET Nat, dropped : SUBSET Nat, turns : Nat]
    <3> HIDE DEF gone
    <3> QED
      BY <1>1, <1>4, <1>8 DEF UartTypeOK
  <2> QED
    BY <1>1, <2>1 DEF UartTypeOK
<1>11. UartPlace'
  BY <1>1, <1>2, <1>9 DEF UartPlace, UartOneDriver, UartSmallPlaces
<1>12. UartOut'
  BY <1>3, <1>9, UartOutKept
<1>13. UartIn'
  <2>1. Arrived' = {}
    BY <1>9 DEF Arrived
  <2>2. CASE hist'.received = hist.received /\ hist'.dropped = gone
    BY <1>3, <1>5, <1>7, <1>9, <2>1, <2>2 DEF UartIn, Below
  <2>3. CASE hist'.received = all /\ hist'.dropped = hist.dropped
    BY <1>3, <1>5, <1>7, <1>8, <1>9, <2>1, <2>3 DEF UartIn, Below
  <2> QED
    BY <1>9, <2>2, <2>3
<1>T. UartTurns'
  BY <1>1, <1>2, <1>9, UartFields, UartTurnsKept
<1>14. UartSeen'
  BY <1>1, <1>2, <1>9 DEF UartSeen
<1>15. UartPut'
  BY <1>1 DEF UartPut
<1> QED
  BY <1>10, <1>11, <1>12, <1>13, <1>14, <1>15, <1>T
--------------------------------------------------------------------------------
(* Nothing is on its way and no call is made.                              *)
LEMMA UartInvInit == UartInit => UartInv
<1> SUFFICES ASSUME UartInit PROVE UartInv
  OBVIOUS
<1> USE DEF UartInit
<1>1. UartBufLen \in Nat \ {0, 1} /\ 0 \in Slots(UartBufLen)
  BY UartAssumption DEF Slots
<1>2. InitialCtrl \in {{}, {"RRDY", "DCTS"}}
  BY DEF InitialCtrl
<1>3. /\ uart.shifter = <<>> /\ uart.tx_ready /\ ~uart.rx_ready /\ ~uart.DCTS
      /\ uart.ctrl = InitialCtrl
      /\ sp.tx_start = 0 /\ sp.tx_end = 0 /\ sp.rx_start = 0 /\ sp.rx_end = 0
      /\ hist.line = <<>> /\ hist.received = <<>> /\ hist.written = 0 /\ hist.arrived = 0
      /\ hist.lost = {} /\ hist.dropped = {}
  OBVIOUS
<1>4. UartTypeOK
  <2>1. [i \in 0..(UartBufLen - 1) |-> 0] \in [Slots(UartBufLen) -> Nat]
    BY DEF Slots
  <2>2. InitialCtrl \in SUBSET UartFlags
    BY <1>2 DEF UartFlags
  <2> HIDE DEF InitialCtrl
  <2>3. uart \in [ctrl : SUBSET UartFlags, tx_data : Nat, tx_ready : BOOLEAN, shifter : Seq(Nat),
                  rx_data : Nat, rx_ready : BOOLEAN, FE : BOOLEAN, CTS : BOOLEAN, DCTS : BOOLEAN]
    BY <2>2, OrderedNone
  <2>4. sp \in [ctrl : SUBSET UartFlags, rx_start : Slots(UartBufLen), rx_end : Slots(UartBufLen),
                tx_start : Slots(UartBufLen), tx_end : Slots(UartBufLen),
                rx_buf : [Slots(UartBufLen) -> Nat], tx_buf : [Slots(UartBufLen) -> Nat]]
    BY <1>1, <2>1, <2>2
  <2>5. hist \in [line : Seq(Nat), written : Nat, lost : SUBSET Nat, received : Seq(Nat),
                  arrived : Nat, refused : SUBSET Nat, dropped : SUBSET Nat, turns : Nat]
    BY OrderedNone
  <2> QED
    BY <2>3, <2>4, <2>5 DEF UartTypeOK
<1>5. UartPlace
  <2>1. CASE calls \in Seq(UartCalls({"write", "read", "close"}))
    BY <2>1 DEF UartPlace, UartOneDriver, UartRingPlaces
  <2>2. CASE calls \in Seq(UartCalls(SmallOps)) /\ calls # <<>>
    <3>1. calls[1] \in UartCalls(SmallOps) /\ 1 \in DOMAIN calls
      BY <2>2, EmptySeq
    <3>2. InitialCtrl = {}
      BY <3>1 DEF InitialCtrl, UartCalls
    <3> QED
      BY <1>3, <2>2, <3>2 DEF UartPlace, UartOneDriver, UartSmallPlaces
  <2>3. CASE calls = <<>>
    <3>1. <<>> \in Seq(UartCalls({"write", "read", "close"}))
      BY EmptySeq
    <3> QED
      BY <2>1, <2>3, <3>1
  <2> QED
    BY <2>1, <2>2, <2>3, UartProgramsAssumption
<1>6. /\ Ordered(UartTxRing) /\ Members(UartTxRing) = {}
      /\ Ordered(UartRxRing) /\ Members(UartRxRing) = {}
  <2>1. /\ sp.tx_buf \in [Slots(UartBufLen) -> Nat] /\ sp.rx_buf \in [Slots(UartBufLen) -> Nat]
        /\ UartTxRing = RingOf(UartBufLen, sp.tx_buf, 0, 0)
        /\ UartRxRing = RingOf(UartBufLen, sp.rx_buf, 0, 0)
    BY <1>3, <1>4, UartRings
  <2>2. \A buf \in [Slots(UartBufLen) -> Nat] :
          Ordered(RingOf(UartBufLen, buf, 0, 0)) /\ Members(RingOf(UartBufLen, buf, 0, 0)) = {}
    BY <1>1, RingOfNone
  <2> QED
    BY <2>1, <2>2
<1>7. 1..0 = {} /\ Waiting = {} /\ Arrived = {}
  BY <1>3 DEF Waiting, Arrived
<1>8. UartOut /\ UartIn
  BY <1>3, <1>6, <1>7, OrderedNone DEF UartOut, UartIn, Below
<1>9. UartSeen /\ UartPut
  BY <1>3 DEF UartSeen, UartPut
<1>10. UartTurns
  <2>1. isr = "none" /\ hist.turns = 0
    OBVIOUS
  <2>2. TurnSeen = 0 /\ TurnAhead = 0
    BY <1>3, <2>1 DEF TurnSeen, TurnAhead
  <2> QED
    BY <1>3, <2>1, <2>2, FS_EmptySet DEF UartTurns
<1> QED
  BY <1>4, <1>5, <1>8, <1>9, <1>10 DEF UartInv

LEMMA UartInvStep == UartInv /\ [UartNext]_uart_vars => UartInv'
<1> SUFFICES ASSUME UartInv, [UartNext]_uart_vars PROVE UartInv'
  OBVIOUS
<1>1. CASE UNCHANGED uart_vars
  <2> USE DEF UartInv
  <2>1. UNCHANGED <<uart, sp, isr, seen, calls, upc, tmp, mask, resume, hist>>
    BY <1>1 DEF uart_vars
  <2>2. UartTypeOK'
    BY <2>1 DEF UartTypeOK
  <2>3. UartPlace'
    BY <2>1 DEF UartPlace, UartOneDriver
  <2>4. UartTxRing' = UartTxRing /\ UartRxRing' = UartRxRing
    BY <2>1, RingsKept
  <2>5. UartOut' /\ UartIn'
    BY <2>1, <2>4, UartOutKept, UartInKept
  <2>T. UartTurns'
    BY <2>1, UartFields, UartTurnsKept
  <2>6. UartSeen'
    BY <2>1 DEF UartSeen
  <2>7. UartPut'
    BY <2>1, UartPutKept
  <2> QED
    BY <2>2, <2>3, <2>5, <2>6, <2>7, <2>T
<1>2. CASE Hardware
  BY <1>2, LoadShifterKeeps, ShiftOutKeeps, ArriveKeeps, CtsTurnsKeeps DEF Hardware
<1>3. CASE altera_avalon_uart_irq
  BY <1>3, IrqReadKeeps, IrqClearKeeps, RxirqKeeps, TxirqKeeps DEF altera_avalon_uart_irq
<1>4. CASE UartProgram
  BY <1>4, UartQuietCallKeeps, PutByteKeeps, PublishByteKeeps, TakeByteKeeps, PollTransmitKeeps,
     ReadReceivedKeeps
     DEF UartProgram, UartQuietCall, altera_avalon_uart_write, altera_avalon_uart_read,
         altera_avalon_uart_small
<1> QED
  BY <1>1, <1>2, <1>3, <1>4 DEF UartNext

LEMMA UartInvInOrder == UartInv => UartInOrder
<1> SUFFICES ASSUME UartInv PROVE UartInOrder
  OBVIOUS
<1> USE DEF UartInv
<1> DEFINE wait == IF uart.tx_ready THEN <<>> ELSE <<uart.tx_data>>
           here == IF uart.rx_ready THEN <<uart.rx_data>> ELSE <<>>
<1>1. /\ hist.line \in Seq(Nat) /\ uart.shifter \in Seq(Nat) /\ hist.received \in Seq(Nat)
      /\ UartTxRing \in Seq(Nat) /\ UartRxRing \in Seq(Nat)
      /\ uart.tx_data \in Nat /\ uart.rx_data \in Nat
  BY UartFields, UartRings
<1>2. /\ wait \in Seq(Nat) /\ Ordered(wait) /\ Members(wait) = Waiting
      /\ here \in Seq(Nat) /\ Ordered(here) /\ Members(here) = Arrived
  BY <1>1, OrderedOne, OrderedNone DEF Waiting, Arrived
<1>3. OnTheirWay = hist.line \o uart.shifter \o wait \o UartTxRing
  BY DEF OnTheirWay, UartTxRing
<1>4. ReceivedSoFar = hist.received \o UartRxRing \o here
  BY DEF ReceivedSoFar, UartRxRing
<1> HIDE DEF wait, here
<1>5. Increasing(OnTheirWay) /\ Members(OnTheirWay) \cup hist.lost = 1..hist.written
  <2> DEFINE out1 == hist.line \o uart.shifter
             out2 == out1 \o wait
             out3 == out2 \o UartTxRing
  <2>1. /\ out1 \in Seq(Nat) /\ Ordered(out1)
        /\ Members(out1) = Members(hist.line) \cup Members(uart.shifter)
    BY <1>1, OrderedConcat DEF UartOut
  <2> HIDE DEF out1
  <2>2. out2 \in Seq(Nat) /\ Ordered(out2) /\ Members(out2) = Members(out1) \cup Waiting
    <3>1. Below(Members(out1), Members(wait))
      BY <1>2, <2>1 DEF UartOut
    <3> QED
      BY <1>2, <2>1, <3>1, OrderedConcat
  <2> HIDE DEF out2
  <2>3. out3 \in Seq(Nat) /\ Ordered(out3) /\ Members(out3) = Members(out2) \cup Members(UartTxRing)
    <3>1. Ordered(UartTxRing) /\ Below(Members(out2), Members(UartTxRing))
      BY <2>1, <2>2 DEF UartOut
    <3> QED
      BY <1>1, <2>2, <3>1, OrderedConcat
  <2> HIDE DEF out3
  <2>4. OnTheirWay = out3
    BY <1>3 DEF out3, out2, out1
  <2> QED
    BY <2>1, <2>2, <2>3, <2>4, OrderedIncreases DEF UartOut
<1>6. Increasing(ReceivedSoFar) /\ Members(ReceivedSoFar) \cup hist.dropped = 1..hist.arrived
  <2> DEFINE in1 == hist.received \o UartRxRing
             in2 == in1 \o here
  <2>1. /\ in1 \in Seq(Nat) /\ Ordered(in1)
        /\ Members(in1) = Members(hist.received) \cup Members(UartRxRing)
    BY <1>1, OrderedConcat DEF UartIn
  <2> HIDE DEF in1
  <2>2. in2 \in Seq(Nat) /\ Ordered(in2) /\ Members(in2) = Members(in1) \cup Arrived
    <3>1. Below(Members(in1), Members(here))
      BY <1>2, <2>1 DEF UartIn
    <3> QED
      BY <1>2, <2>1, <3>1, OrderedConcat
  <2> HIDE DEF in2
  <2>3. ReceivedSoFar = in2
    BY <1>4 DEF in2, in1
  <2> QED
    BY <2>1, <2>2, <2>3, OrderedIncreases DEF UartIn
<1>7. Cardinality(hist.lost) <= hist.turns
  <2>1. Cardinality(hist.lost) \in Nat /\ hist.turns \in Nat
    BY UartFields, FS_CardinalityType DEF UartTurns
  <2> QED
    BY <2>1, TurnsLeft DEF UartTurns
<1> QED
  BY <1>5, <1>6, <1>7 DEF UartInOrder

(* What is written to the UART leaves in order, once and without inventing *)
(* a byte, and no turn of CTS costs more than one byte, the one in TXDATA  *)
(* that the handler for DCTS overwrites; what arrives is read in order,    *)
(* once and without inventing a byte, but for what the next byte overtakes *)
(* in RXDATA, what a full ring forgets and what the small read() drops     *)
(* after an error, whatever the handler, the lines and the calls           *)
(* interleave (altera_avalon_uart_init.c, _write.c and _read.c), for every *)
(* length of the rings and every sequence of calls.                        *)
THEOREM UartBytesInOrder == Spec => []UartInOrder
<1>1. Init => UartInv
  BY UartInvInit DEF Init
<1>2. UartInv /\ [Next]_vars => UartInv'
  <2> SUFFICES ASSUME UartInv, [Next]_vars PROVE UartInv'
    OBVIOUS
  <2>1. [UartNext]_uart_vars
    BY DEF Next, vars
  <2> QED
    BY <2>1, UartInvStep
<1> QED
  BY <1>1, <1>2, UartInvInOrder, PTL DEF Spec

(* Both consoles: every byte goes out and comes in once and in order.      *)
THEOREM BothConsolesInOrder == Spec => []BytesInOrder
<1>1. UartInOrder /\ JtagInOrder => BytesInOrder
  BY DEF BytesInOrder
<1> QED
  BY <1>1, UartBytesInOrder, JtagBytesInOrder, PTL
================================================================================
