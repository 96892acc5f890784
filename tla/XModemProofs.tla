---------------------------- MODULE XModemProofs ----------------------------
(* What XModem delivers and answers, for files of any length, any modulus  *)
(* of the sequence number and any number of troubles.                      *)
EXTENDS XModem, SequenceTheorems, TLAPS

----------------------------------------------------------------------------
(* Sequence numbers.                                                       *)

\* A packet that is one behind or ahead is told apart by its sequence number.
LEMMA NextDiffers ==
    ASSUME NEW m \in Nat \ {0, 1}, NEW n \in Nat
    PROVE  n % m # (n + 1) % m
<1>1. m \in Int /\ m > 1 /\ n \in Int /\ n + 1 \in Int
  OBVIOUS
<1> DEFINE a == n \div m
           b == (n + 1) \div m
           r == n % m
<1>2. /\ n = m * a + r
      /\ n + 1 = m * b + ((n + 1) % m)
      /\ a \in Int /\ b \in Int /\ r \in Int
  BY <1>1, SMTT(30)
<1> HIDE DEF a, b, r
<1>3. SUFFICES ASSUME (n + 1) % m = r PROVE FALSE
  BY DEF r
<1>4. m * a + r + 1 = m * b + r
  BY <1>2, <1>3
<1>5. m * (b - a) = 1
  BY <1>1, <1>2, <1>4, SMTT(30)
<1>6. b - a >= 1
  BY <1>1, <1>2, <1>5, SMTT(30)
<1> QED BY <1>1, <1>2, <1>5, <1>6, SMTT(30)

----------------------------------------------------------------------------
(* What the line, a reader and a writer do to what is on its way.          *)

Has(q, k) == \E i \in 1..Len(q) : q[i].kind = k
One(q, k) == \A i, j \in 1..Len(q) : q[i].kind = k /\ q[j].kind = k => i = j

\* The blocks on their way are between lo - 1 and hi, in order.
BodiesIn(q, n, lo, hi) ==
    \A i \in 1..Len(q) : q[i].kind = "body" =>
        /\ q[i].block \in 1..n /\ q[i].seq = q[i].block % Modulus
        /\ lo <= q[i].block + 1 /\ q[i].block <= hi
Ordered(q) ==
    \A i, j \in 1..Len(q) :
        i < j /\ q[i].kind = "body" /\ q[j].kind = "body" =>
            q[i].block <= q[j].block

\* r is what is left of q, and what it left behind is recognisable.
Thins(r, q) ==
    /\ r \in Seq(Message)
    /\ \E f \in [1..Len(r) -> 1..Len(q)] :
          /\ \A i, j \in 1..Len(r) : i < j => f[i] < f[j]
          /\ \A i \in 1..Len(r) :
                r[i] = q[f[i]] \/ r[i].kind \in {"junk", "damaged"}

LEMMA CharType ==
    ASSUME NEW c \in {"SOH", "EOT", "ACK", "NAK", "CAN", "NCG", "junk", "damaged"}
    PROVE  Char(c) \in Message /\ Char(c).kind = c
BY XModemAssumption DEF Char, Message

LEMMA BodyType ==
    ASSUME NEW n \in Nat
    PROVE  /\ Body(n) \in Message
           /\ Body(n).kind = "body" /\ Body(n).block = n /\ Body(n).seq = n % Modulus
<1>1. n % Modulus \in 0..(Modulus - 1)
  BY XModemAssumption
<1> QED BY <1>1 DEF Body, Message

\* What is true of the messages on their way stays true when some are lost.
LEMMA Thinned ==
    ASSUME NEW q \in Seq(Message), NEW r, Thins(r, q)
    PROVE  /\ \A k \in {"ACK", "EOT"} : Has(r, k) => Has(q, k)
           /\ One(q, "ACK") => One(r, "ACK")
           /\ \A n, lo, hi : BodiesIn(q, n, lo, hi) => BodiesIn(r, n, lo, hi)
           /\ Ordered(q) => Ordered(r)
<1> PICK f \in [1..Len(r) -> 1..Len(q)] :
        /\ \A i, j \in 1..Len(r) : i < j => f[i] < f[j]
        /\ \A i \in 1..Len(r) :
              r[i] = q[f[i]] \/ r[i].kind \in {"junk", "damaged"}
  BY DEF Thins
<1>0. Len(r) \in Nat /\ Len(q) \in Nat
  BY LenProperties DEF Thins
<1>1. ASSUME NEW i \in 1..Len(r), r[i].kind \notin {"junk", "damaged"}
      PROVE  f[i] \in 1..Len(q) /\ r[i] = q[f[i]]
  BY <1>1
<1>2. ASSUME NEW k \in {"ACK", "EOT"}, Has(r, k) PROVE Has(q, k)
  BY <1>1, <1>2 DEF Has
<1>3. ASSUME One(q, "ACK") PROVE One(r, "ACK")
  <2> SUFFICES ASSUME NEW i \in 1..Len(r), NEW j \in 1..Len(r),
                      r[i].kind = "ACK", r[j].kind = "ACK", i # j
               PROVE  FALSE
    BY DEF One
  <2>1. f[i] = f[j]
    BY <1>1, <1>3 DEF One
  <2>2. f[i] < f[j] \/ f[j] < f[i]
    BY <1>0
  <2> QED BY <2>1, <2>2, <1>0
<1>4. ASSUME NEW n, NEW lo, NEW hi, BodiesIn(q, n, lo, hi) PROVE BodiesIn(r, n, lo, hi)
  BY <1>1, <1>4 DEF BodiesIn
<1>5. ASSUME Ordered(q) PROVE Ordered(r)
  <2> SUFFICES ASSUME NEW i \in 1..Len(r), NEW j \in 1..Len(r), i < j,
                      r[i].kind = "body", r[j].kind = "body"
               PROVE  r[i].block <= r[j].block
    BY DEF Ordered
  <2>1. /\ f[i] \in 1..Len(q) /\ r[i] = q[f[i]]
        /\ f[j] \in 1..Len(q) /\ r[j] = q[f[j]]
        /\ f[i] < f[j]
    BY <1>1
  <2> QED BY <2>1, <1>5 DEF Ordered
<1> QED BY <1>2, <1>3, <1>4, <1>5

LEMMA ThinSame ==
    ASSUME NEW q \in Seq(Message)
    PROVE  Thins(q, q)
<1> DEFINE f == [i \in 1..Len(q) |-> i]
<1>1. f \in [1..Len(q) -> 1..Len(q)]
  OBVIOUS
<1> QED BY <1>1 DEF Thins

\* Reading the next message.
LEMMA ThinTail ==
    ASSUME NEW q \in Seq(Message), q # <<>>
    PROVE  /\ Thins(Tail(q), q)
           /\ Head(q) = q[1] /\ 1 \in 1..Len(q)
           /\ Has(Tail(q), "ACK") /\ One(q, "ACK") => q[1].kind # "ACK"
<1> DEFINE f == [i \in 1..Len(Tail(q)) |-> i + 1]
<1>1. /\ Tail(q) \in Seq(Message) /\ Len(Tail(q)) = Len(q) - 1
      /\ \A i \in 1..Len(Tail(q)) : Tail(q)[i] = q[i + 1]
      /\ Len(q) \in Nat \ {0}
  BY HeadTailProperties, EmptySeq
<1>2. f \in [1..Len(Tail(q)) -> 1..Len(q)]
  BY <1>1
<1>3. Thins(Tail(q), q)
  <2>1. \A i \in 1..Len(Tail(q)) : f[i] = i + 1 /\ Tail(q)[i] = q[f[i]]
    BY <1>1
  <2>2. \A i, j \in 1..Len(Tail(q)) : i < j => f[i] < f[j]
    BY <1>1
  <2> HIDE DEF f
  <2> QED BY <1>1, <1>2, <2>1, <2>2 DEF Thins
<1>4. Head(q) = q[1] /\ 1 \in 1..Len(q)
  <2>1. Head(q) = q[1]
    BY HeadTailProperties
  <2>2. 1 \in 1..Len(q)
    BY <1>1
  <2> QED BY <2>1, <2>2
<1>5. ASSUME Has(Tail(q), "ACK"), One(q, "ACK") PROVE q[1].kind # "ACK"
  <2>1. PICK i \in 1..Len(Tail(q)) : Tail(q)[i].kind = "ACK"
    BY <1>5 DEF Has
  <2>2. i + 1 \in 1..Len(q) /\ q[i + 1].kind = "ACK" /\ i + 1 # 1
    BY <1>1, <2>1
  <2> QED BY <2>2, <1>4, <1>5 DEF One
<1> QED BY <1>3, <1>4, <1>5

\* A message is lost, or damaged.
LEMMA ThinRemove ==
    ASSUME NEW q \in Seq(Message), NEW n \in 1..Len(q)
    PROVE  Thins(RemoveAt(q, n), q)
<1> DEFINE front == SubSeq(q, 1, n - 1)
           back == SubSeq(q, n + 1, Len(q))
           f == [i \in 1..(Len(q) - 1) |-> IF i < n THEN i ELSE i + 1]
<1>1. Len(q) \in Nat /\ \A i \in 1..Len(q) : q[i] \in Message
  BY LenProperties, ElementOfSeq
<1>2. /\ front \in Seq(Message) /\ Len(front) = n - 1
      /\ \A i \in 1..(n - 1) : front[i] = q[i]
  <2>1. 1 \in Int /\ n - 1 \in Int /\ \A i \in 1..(n - 1) : q[i] \in Message
    BY <1>1
  <2> QED BY <2>1, <1>1, SubSeqProperties
<1>3. /\ back \in Seq(Message) /\ Len(back) = Len(q) - n
      /\ \A i \in 1..(Len(q) - n) : back[i] = q[n + i]
  <2>1. n + 1 \in Int /\ Len(q) \in Int /\ \A i \in (n + 1)..Len(q) : q[i] \in Message
    BY <1>1
  <2>2. /\ back \in Seq(Message)
        /\ Len(back) = IF n + 1 <= Len(q) THEN Len(q) - (n + 1) + 1 ELSE 0
        /\ \A i \in 1..(Len(q) - (n + 1) + 1) : back[i] = q[(n + 1) + i - 1]
    BY <2>1, SubSeqProperties
  <2>3. ASSUME NEW i \in 1..(Len(q) - n) PROVE back[i] = q[n + i]
    <3>1. i \in 1..(Len(q) - (n + 1) + 1) /\ (n + 1) + i - 1 = n + i
      BY <1>1
    <3> QED BY <3>1, <2>2
  <2>4. Len(back) = Len(q) - n
    BY <2>2, <1>1
  <2> QED BY <2>2, <2>3, <2>4
<1> HIDE DEF front, back
<1>4. /\ front \o back \in Seq(Message) /\ Len(front \o back) = Len(q) - 1
      /\ \A i \in 1..(Len(q) - 1) : (front \o back)[i] =
            IF i <= n - 1 THEN front[i] ELSE back[i - (n - 1)]
  <2>1. n - 1 + (Len(q) - n) = Len(q) - 1
    BY <1>1
  <2>2. /\ front \o back \in Seq(Message)
        /\ Len(front \o back) = Len(front) + Len(back)
        /\ \A i \in 1..(Len(front) + Len(back)) : (front \o back)[i] =
              IF i <= Len(front) THEN front[i] ELSE back[i - Len(front)]
    BY ONLY <1>2, <1>3, ConcatProperties
  <2>3. Len(front) + Len(back) = Len(q) - 1
    BY <2>1, <1>2, <1>3
  <2> QED BY ONLY <2>2, <2>3, <1>2
<1>5. ASSUME NEW i \in 1..(Len(q) - 1)
      PROVE  f[i] \in 1..Len(q) /\ (front \o back)[i] = q[f[i]]
  <2>1. CASE i < n
    <3>1. i \in 1..(n - 1) /\ i <= n - 1 /\ f[i] = i
      BY <2>1, <1>1
    <3> QED BY <3>1, <1>1, <1>2, <1>4
  <2>2. CASE ~(i < n)
    <3>1. /\ ~(i <= n - 1) /\ f[i] = i + 1 /\ f[i] \in 1..Len(q)
          /\ i - (n - 1) \in 1..(Len(q) - n) /\ n + (i - (n - 1)) = i + 1
      BY <2>2, <1>1
    <3> QED BY <3>1, <1>3, <1>4
  <2> QED BY <2>1, <2>2
<1>6. f \in [1..(Len(q) - 1) -> 1..Len(q)]
  BY <1>5
<1>7. \A i, j \in 1..(Len(q) - 1) : i < j => f[i] < f[j]
  BY <1>1
<1> HIDE DEF f
<1> QED BY <1>4, <1>5, <1>6, <1>7 DEF Thins, RemoveAt, front, back

LEMMA ThinReplace ==
    ASSUME NEW q \in Seq(Message), NEW n \in 1..Len(q)
    PROVE  Thins(ReplaceAt(q, n, Damage(q[n])), q)
<1> DEFINE f == [i \in 1..Len(q) |-> i]
           r == [q EXCEPT ![n] = Damage(q[n])]
<1>1. Damage(q[n]) \in Message /\ Damage(q[n]).kind \in {"junk", "damaged"}
  BY CharType DEF Damage, Damaged
<1>2. /\ r \in Seq(Message) /\ Len(r) = Len(q)
      /\ \A i \in 1..Len(q) : r[i] = IF i = n THEN Damage(q[n]) ELSE q[i]
  BY <1>1, ExceptSeq
<1>3. f \in [1..Len(q) -> 1..Len(q)]
  OBVIOUS
<1> HIDE DEF r
<1>4. \A i \in 1..Len(q) : r[i] = q[f[i]] \/ r[i].kind \in {"junk", "damaged"}
  BY <1>1, <1>2
<1> QED BY <1>2, <1>3, <1>4 DEF Thins, ReplaceAt, r

\* What download() does not read of a packet is not taken for another one.
LEMMA ThinUnread ==
    ASSUME toDown \in Seq(Message), NEW i \in 1..Len(toDown)
    PROVE  Thins(Unread(i), toDown)
<1> DEFINE front == [j \in 1..(i - 1) |-> Char("junk")]
           back == SubSeq(toDown, i + 1, Len(toDown))
           f == [j \in 1..(Len(toDown) - 1) |-> j + 1]
<1>1. Len(toDown) \in Nat /\ \A j \in 1..Len(toDown) : toDown[j] \in Message
  BY LenProperties, ElementOfSeq
<1>2. /\ front \in Seq(Message) /\ Len(front) = i - 1
      /\ \A j \in 1..(i - 1) : front[j].kind = "junk"
  BY <1>1, CharType
<1>3. /\ back \in Seq(Message) /\ Len(back) = Len(toDown) - i
      /\ \A j \in 1..(Len(toDown) - i) : back[j] = toDown[i + j]
  <2>1. /\ i + 1 \in Int /\ Len(toDown) \in Int
        /\ \A j \in (i + 1)..Len(toDown) : toDown[j] \in Message
    BY <1>1
  <2>2. /\ back \in Seq(Message)
        /\ Len(back) = IF i + 1 <= Len(toDown) THEN Len(toDown) - (i + 1) + 1 ELSE 0
        /\ \A j \in 1..(Len(toDown) - (i + 1) + 1) : back[j] = toDown[(i + 1) + j - 1]
    BY <2>1, SubSeqProperties
  <2>3. ASSUME NEW j \in 1..(Len(toDown) - i) PROVE back[j] = toDown[i + j]
    <3>1. j \in 1..(Len(toDown) - (i + 1) + 1) /\ (i + 1) + j - 1 = i + j
      BY <1>1
    <3> QED BY <3>1, <2>2
  <2>4. Len(back) = Len(toDown) - i
    BY <2>2, <1>1
  <2> QED BY <2>2, <2>3, <2>4
<1> HIDE DEF front, back
<1>4. /\ front \o back \in Seq(Message) /\ Len(front \o back) = Len(toDown) - 1
      /\ \A j \in 1..(Len(toDown) - 1) : (front \o back)[j] =
            IF j <= i - 1 THEN front[j] ELSE back[j - (i - 1)]
  <2>1. i - 1 + (Len(toDown) - i) = Len(toDown) - 1
    BY <1>1
  <2>2. /\ front \o back \in Seq(Message)
        /\ Len(front \o back) = Len(front) + Len(back)
        /\ \A j \in 1..(Len(front) + Len(back)) : (front \o back)[j] =
              IF j <= Len(front) THEN front[j] ELSE back[j - Len(front)]
    BY <1>2, <1>3, ConcatProperties
  <2> QED BY <2>1, <2>2, <1>2, <1>3
<1>5. ASSUME NEW j \in 1..(Len(toDown) - 1)
      PROVE  \/ (front \o back)[j] = toDown[f[j]]
             \/ (front \o back)[j].kind \in {"junk", "damaged"}
  <2>1. CASE j <= i - 1
    <3>1. j \in 1..(i - 1)
      BY <2>1, <1>1
    <3> QED BY <3>1, <2>1, <1>2, <1>4
  <2>2. CASE ~(j <= i - 1)
    <3>1. /\ j - (i - 1) \in 1..(Len(toDown) - i)
          /\ i + (j - (i - 1)) = j + 1 /\ f[j] = j + 1
      BY <2>2, <1>1
    <3> QED BY <3>1, <2>2, <1>3, <1>4
  <2> QED BY <2>1, <2>2
<1>6. /\ f \in [1..(Len(toDown) - 1) -> 1..Len(toDown)]
      /\ \A j, k \in 1..(Len(toDown) - 1) : j < k => f[j] < f[k]
  BY <1>1
<1> HIDE DEF f
<1> QED BY <1>4, <1>5, <1>6 DEF Thins, Unread, front, back

\* The block that is read is not after those that follow it.
LEMMA FirstRead ==
    ASSUME toDown \in Seq(Message), 1 \in 1..Len(toDown),
           toDown[1].kind = "body", Ordered(toDown),
           NEW n, NEW lo, NEW hi, BodiesIn(toDown, n, lo, hi)
    PROVE  BodiesIn(Unread(1), n, toDown[1].block + 1, hi)
<1>1. Len(toDown) \in Nat /\ \A j \in 1..Len(toDown) : toDown[j] \in Message
  BY LenProperties, ElementOfSeq
<1>2. Unread(1) = SubSeq(toDown, 2, Len(toDown))
  <2>1. [j \in 1..(1 - 1) |-> Char("junk")] = <<>>
    OBVIOUS
  <2>2. SubSeq(toDown, 2, Len(toDown)) \in Seq(Message)
    <3>1. 2 \in Int /\ Len(toDown) \in Int
          /\ \A j \in 2..Len(toDown) : toDown[j] \in Message
      BY <1>1
    <3> QED BY <3>1, SubSeqProperties
  <2> QED BY <2>1, <2>2, ConcatEmptySeq DEF Unread
<1>3. /\ Len(Unread(1)) = Len(toDown) - 1
      /\ \A j \in 1..(Len(toDown) - 1) : Unread(1)[j] = toDown[j + 1]
  <2>1. SubSeq(toDown, 2, Len(toDown)) = Tail(toDown)
    BY <1>1
  <2>2. /\ toDown # <<>> => Len(Tail(toDown)) = Len(toDown) - 1
        /\ \A j \in 1..Len(Tail(toDown)) : Tail(toDown)[j] = toDown[j + 1]
    BY <1>1, HeadTailProperties
  <2>3. toDown # <<>>
    BY <1>1
  <2> QED BY <1>2, <2>1, <2>2, <2>3
<1> SUFFICES ASSUME NEW j \in 1..Len(Unread(1)), Unread(1)[j].kind = "body"
             PROVE  /\ Unread(1)[j].block \in 1..n
                    /\ Unread(1)[j].seq = Unread(1)[j].block % Modulus
                    /\ toDown[1].block + 1 <= Unread(1)[j].block + 1
                    /\ Unread(1)[j].block <= hi
  BY DEF BodiesIn
<1>4. j + 1 \in 1..Len(toDown) /\ 1 < j + 1 /\ Unread(1)[j] = toDown[j + 1]
  BY <1>1, <1>3
<1>5. toDown[1].block <= toDown[j + 1].block
  BY <1>4 DEF Ordered
<1>6. toDown[1].block \in Nat /\ toDown[j + 1].block \in Nat
  BY <1>1, <1>4 DEF Message
<1>7. toDown[1].block + 1 <= toDown[j + 1].block + 1
  BY ONLY <1>5, <1>6
<1>8. toDown[j + 1].kind = "body"
  BY <1>4
<1>9. /\ toDown[j + 1].block \in 1..n
      /\ toDown[j + 1].seq = toDown[j + 1].block % Modulus
      /\ toDown[j + 1].block <= hi
  BY <1>4, <1>8 DEF BodiesIn
<1> QED BY ONLY <1>4, <1>7, <1>9

----------------------------------------------------------------------------
(* What is sent.                                                           *)

\* Sending control characters, none of them k.
Quiet(s, k) == \A i \in 1..Len(s) : s[i].kind \notin {"body", k}

LEMMA Sent ==
    ASSUME NEW q \in Seq(Message), NEW s \in Seq(Message)
    PROVE  /\ q \o s \in Seq(Message)
           /\ \A k : Has(q \o s, k) => Has(q, k) \/ Has(s, k)
           /\ One(q, "ACK") /\ ~Has(s, "ACK") => One(q \o s, "ACK")
           /\ ~Has(q, "ACK") /\ One(s, "ACK") => One(q \o s, "ACK")
           /\ \A n, lo, hi : BodiesIn(q, n, lo, hi) /\ BodiesIn(s, n, lo, hi) =>
                  BodiesIn(q \o s, n, lo, hi)
           /\ Ordered(q) /\ ~Has(s, "body") => Ordered(q \o s)
           /\ \A n, lo, hi : Ordered(q) /\ Ordered(s) /\ BodiesIn(q, n, lo, hi)
                 /\ (\A i \in 1..Len(s) : s[i].kind = "body" => s[i].block = hi)
                 => Ordered(q \o s)
<1> DEFINE r == q \o s
<1>0. Len(q) \in Nat /\ Len(s) \in Nat
  BY LenProperties
<1>1. /\ r \in Seq(Message) /\ Len(r) = Len(q) + Len(s)
      /\ \A i \in 1..(Len(q) + Len(s)) :
            r[i] = IF i <= Len(q) THEN q[i] ELSE s[i - Len(q)]
  BY ConcatProperties
<1> HIDE DEF r
<1>2. ASSUME NEW i \in 1..Len(r)
      PROVE  \/ i \in 1..Len(q) /\ r[i] = q[i]
             \/ i > Len(q) /\ i - Len(q) \in 1..Len(s) /\ r[i] = s[i - Len(q)]
  BY <1>0, <1>1
<1>3. ASSUME NEW k, Has(r, k) PROVE Has(q, k) \/ Has(s, k)
  BY <1>2, <1>3 DEF Has
<1>4. ASSUME One(q, "ACK"), ~Has(s, "ACK") PROVE One(r, "ACK")
  BY <1>2, <1>4 DEF One, Has
<1>5. ASSUME ~Has(q, "ACK"), One(s, "ACK") PROVE One(r, "ACK")
  <2> SUFFICES ASSUME NEW i \in 1..Len(r), NEW j \in 1..Len(r),
                      r[i].kind = "ACK", r[j].kind = "ACK"
               PROVE  i = j
    BY DEF One
  <2>1. /\ i - Len(q) \in 1..Len(s) /\ r[i] = s[i - Len(q)]
        /\ j - Len(q) \in 1..Len(s) /\ r[j] = s[j - Len(q)]
    BY <1>2, <1>5 DEF Has
  <2>2. i - Len(q) = j - Len(q)
    BY <2>1, <1>5 DEF One
  <2> QED BY <2>2, <1>0
<1>6. ASSUME NEW n, NEW lo, NEW hi, BodiesIn(q, n, lo, hi), BodiesIn(s, n, lo, hi)
      PROVE  BodiesIn(r, n, lo, hi)
  BY <1>2, <1>6 DEF BodiesIn
<1>7. ASSUME Ordered(q), ~Has(s, "body") PROVE Ordered(r)
  BY <1>2, <1>7 DEF Ordered, Has
<1>8. ASSUME NEW n, NEW lo, NEW hi, Ordered(q), Ordered(s), BodiesIn(q, n, lo, hi),
             \A i \in 1..Len(s) : s[i].kind = "body" => s[i].block = hi
      PROVE  Ordered(r)
  <2> SUFFICES ASSUME NEW i \in 1..Len(r), NEW j \in 1..Len(r), i < j,
                      r[i].kind = "body", r[j].kind = "body"
               PROVE  r[i].block <= r[j].block
    BY DEF Ordered
  <2>1. CASE j <= Len(q)
    BY <2>1, <1>0, <1>2, <1>8 DEF Ordered
  <2>2. CASE i <= Len(q) /\ j > Len(q)
    <3>1. i \in 1..Len(q) /\ r[i] = q[i] /\ r[j].block = hi
      BY <2>2, <1>0, <1>2, <1>8
    <3> QED BY <3>1, <1>8 DEF BodiesIn
  <2>3. CASE i > Len(q)
    <3>1. /\ i - Len(q) \in 1..Len(s) /\ r[i] = s[i - Len(q)]
          /\ j - Len(q) \in 1..Len(s) /\ r[j] = s[j - Len(q)]
          /\ i - Len(q) < j - Len(q)
      BY <2>3, <1>0, <1>2
    <3> QED BY <3>1, <1>8 DEF Ordered
  <2> QED BY <2>1, <2>2, <2>3, <1>0
<1> QED BY <1>1, <1>3, <1>4, <1>5, <1>6, <1>7, <1>8 DEF r

LEMMA Controls ==
    /\ \A s \in {<<>>, Cans} :
          /\ s \in Seq(Message)
          /\ \A k \in {"ACK", "EOT", "body"} : ~Has(s, k)
          /\ \A n, lo, hi : BodiesIn(s, n, lo, hi)
    /\ \A c \in {"SOH", "EOT", "ACK", "NAK", "CAN", "NCG", "junk", "damaged"} :
          /\ <<Char(c)>> \in Seq(Message)
          /\ \A k \in {"ACK", "EOT", "body"} : Has(<<Char(c)>>, k) => k = c
          /\ One(<<Char(c)>>, "ACK")
          /\ \A n, lo, hi : BodiesIn(<<Char(c)>>, n, lo, hi)
<1>1. ASSUME NEW c \in {"SOH", "EOT", "ACK", "NAK", "CAN", "NCG", "junk", "damaged"}
      PROVE  /\ <<Char(c)>> \in Seq(Message)
             /\ \A k \in {"ACK", "EOT", "body"} : Has(<<Char(c)>>, k) => k = c
             /\ One(<<Char(c)>>, "ACK")
             /\ \A n, lo, hi : BodiesIn(<<Char(c)>>, n, lo, hi)
  <2>1. Char(c) \in Message /\ Char(c).kind = c
    BY CharType
  <2>2. Len(<<Char(c)>>) = 1 /\ \A i \in 1..1 : i = 1 /\ <<Char(c)>>[i] = Char(c)
    OBVIOUS
  <2> QED BY <2>1, <2>2 DEF Has, One, BodiesIn
<1>2. /\ <<>> \in Seq(Message)
      /\ \A k \in {"ACK", "EOT", "body"} : ~Has(<<>>, k)
      /\ \A n, lo, hi : BodiesIn(<<>>, n, lo, hi)
  BY DEF Has, BodiesIn
<1>3. /\ Cans \in Seq(Message)
      /\ \A k \in {"ACK", "EOT", "body"} : ~Has(Cans, k)
      /\ \A n, lo, hi : BodiesIn(Cans, n, lo, hi)
  <2>1. Char("CAN") \in Message /\ Char("CAN").kind = "CAN"
    BY CharType
  <2>2. /\ Cans \in Seq(Message) /\ Len(Cans) = 4
        /\ \A i \in 1..4 : Cans[i] = Char("CAN")
    BY <2>1 DEF Cans
  <2> QED BY <2>1, <2>2 DEF Has, BodiesIn
<1> QED BY <1>1, <1>2, <1>3

LEMMA Packets ==
    ASSUME NEW n \in Nat, NEW b \in 1..n, NEW lo \in Nat, lo <= b + 1
    PROVE  /\ Packet(b) \in Seq(Message)
           /\ \A k \in {"ACK", "EOT"} : ~Has(Packet(b), k)
           /\ BodiesIn(Packet(b), n, lo, b) /\ Ordered(Packet(b))
           /\ \A i \in 1..Len(Packet(b)) :
                 Packet(b)[i].kind = "body" => Packet(b)[i].block = b
<1>1. /\ Body(b) \in Message /\ Body(b).kind = "body" /\ Body(b).block = b
      /\ Body(b).seq = b % Modulus
  BY BodyType
<1>2. Char("SOH") \in Message /\ Char("SOH").kind = "SOH"
  BY CharType
<1>3. /\ Packet(b) \in Seq(Message) /\ Len(Packet(b)) = 2
      /\ Packet(b)[1] = Char("SOH") /\ Packet(b)[2] = Body(b)
  BY <1>1, <1>2 DEF Packet
<1> HIDE DEF Packet
<1>4. ASSUME NEW i \in 1..2 PROVE i = 1 \/ i = 2
  OBVIOUS
<1>5. BodiesIn(Packet(b), n, lo, b)
  BY <1>1, <1>2, <1>3, <1>4 DEF BodiesIn
<1>6. Ordered(Packet(b))
  BY <1>1, <1>2, <1>3, <1>4 DEF Ordered
<1> QED BY <1>1, <1>2, <1>3, <1>4, <1>5, <1>6 DEF Has

----------------------------------------------------------------------------
(* The inductive invariant.                                                *)

\* An end is at most one block ahead, and upload() sends a block there is.
InStep ==
    /\ up.seq <= down.seq /\ down.seq <= up.seq + 1
    /\ up.at = "reply" => up.seq <= length
    /\ up.at = "eot" => up.seq = length + 1

\* An ACK on its way is the only one: it is for the block that upload() has
\* sent, or for EOT.
ACKs ==
    /\ up.at \in {"start", "next", "reply"} /\ Has(toUp, "ACK") =>
          down.seq = up.seq + 1
    /\ up.at \in {"start", "next", "reply"} => One(toUp, "ACK")
    /\ up.at = "eot" /\ Has(toUp, "ACK") => down.at = "done" /\ down.ret

Bodies == BodiesIn(toDown, length, down.seq, up.seq) /\ Ordered(toDown)

\* EOT is on its way, or accepted, only when every block was acknowledged.
Ending ==
    Has(toDown, "EOT") \/ (down.at = "done" /\ down.ret) =>
        up.at \in {"eot", "done"} /\ up.seq = length + 1

\* What was received are the blocks before down.seq, or one more if
\* dataFunction() failed.
Delivered ==
    /\ Len(received) <= length
    /\ \A i \in 1..Len(received) : received[i] = i
    /\ Len(received) \in {down.seq - 1, down.seq}
    /\ down.at # "done" \/ down.ret => Len(received) = down.seq - 1

Succeeds == up.ret => up.at = "done" /\ down.at = "done" /\ down.ret

\* Nothing has succeeded while download() calls.
Calling == down.at \in {"call", "hello"} => ~down.ret

IndInv ==
    /\ TypeOK
    /\ InStep /\ ACKs /\ Bodies /\ Ending /\ Delivered /\ Succeeds /\ Calling


----------------------------------------------------------------------------
(* upload() keeps it.                                                      *)

\* What upload() reads and what it leaves.
LEMMA Reading ==
    ASSUME TypeOK, NEW at, NEW c, Reads(at, c)
    PROVE  /\ up.at = at /\ toUp' \in Seq(Message)
           /\ Has(toUp', "ACK") => Has(toUp, "ACK")
           /\ One(toUp, "ACK") => One(toUp', "ACK")
           /\ c = "ACK" => Has(toUp, "ACK")
           /\ c = "ACK" /\ One(toUp, "ACK") => ~Has(toUp', "ACK")
<1>1. /\ up.at = at /\ toUp # <<>> /\ Head(toUp).kind = c /\ toUp' = Tail(toUp)
      /\ toUp \in Seq(Message)
  BY DEF Reads, TypeOK
<1>2. /\ Thins(toUp', toUp) /\ Head(toUp) = toUp[1] /\ 1 \in 1..Len(toUp)
      /\ Has(toUp', "ACK") /\ One(toUp, "ACK") => toUp[1].kind # "ACK"
  BY <1>1, ThinTail
<1>3. toUp' \in Seq(Message)
  BY <1>2 DEF Thins
<1>4. /\ Has(toUp', "ACK") => Has(toUp, "ACK")
      /\ One(toUp, "ACK") => One(toUp', "ACK")
  BY <1>1, <1>2, Thinned
<1>5. c = "ACK" => Has(toUp, "ACK")
  BY <1>1, <1>2 DEF Has
<1> QED BY <1>1, <1>2, <1>3, <1>4, <1>5

\* A step of upload() that sends no body.
LEMMA UpQuiet ==
    ASSUME IndInv, NEW s \in {<<>>, Cans, <<Char("EOT")>>}, UpSends(s)
    PROVE  /\ UNCHANGED <<length, down, received>>
           /\ toDown' \in Seq(Message) /\ Ordered(toDown')
           /\ BodiesIn(toDown', length, down.seq, up.seq)
           /\ BodiesIn(toDown', length, down.seq, up.seq + 1)
           /\ Has(toDown', "EOT") => Has(toDown, "EOT") \/ s = <<Char("EOT")>>
<1>1. /\ toDown \in Seq(Message) /\ Ordered(toDown)
      /\ BodiesIn(toDown, length, down.seq, up.seq)
      /\ toDown' = toDown \o s /\ UNCHANGED <<length, down, received>>
      /\ length \in Nat /\ up.seq \in 1..(length + 1)
  BY XModemAssumption DEF IndInv, TypeOK, Bodies, UpSends
<1>2. /\ s \in Seq(Message) /\ ~Has(s, "body")
      /\ Has(s, "EOT") => s = <<Char("EOT")>>
      /\ \A n, lo, hi : BodiesIn(s, n, lo, hi)
  BY Controls
<1>3. BodiesIn(toDown, length, down.seq, up.seq + 1)
  <2> SUFFICES ASSUME NEW i \in 1..Len(toDown), toDown[i].kind = "body"
               PROVE  toDown[i].block <= up.seq + 1
    BY <1>1 DEF BodiesIn
  <2>1. toDown[i].block \in 1..length /\ toDown[i].block <= up.seq
    BY <1>1 DEF BodiesIn
  <2> QED BY <2>1, <1>1
<1> QED BY <1>1, <1>2, <1>3, Sent

\* A step of upload() that sends its block.
LEMMA UpPacket ==
    ASSUME IndInv, up.seq <= length, UpSends(Packet(up.seq))
    PROVE  /\ UNCHANGED <<length, down, received>>
           /\ toDown' \in Seq(Message) /\ Ordered(toDown')
           /\ BodiesIn(toDown', length, down.seq, up.seq)
           /\ Has(toDown', "EOT") => Has(toDown, "EOT")
<1>1. /\ toDown \in Seq(Message) /\ Ordered(toDown)
      /\ BodiesIn(toDown, length, down.seq, up.seq)
      /\ toDown' = toDown \o Packet(up.seq)
      /\ UNCHANGED <<length, down, received>>
      /\ length \in Nat /\ up.seq \in 1..length
      /\ down.seq \in Nat /\ down.seq <= up.seq + 1
  BY XModemAssumption DEF IndInv, TypeOK, InStep, Bodies, UpSends
<1>2. /\ Packet(up.seq) \in Seq(Message) /\ ~Has(Packet(up.seq), "EOT")
      /\ BodiesIn(Packet(up.seq), length, down.seq, up.seq)
      /\ Ordered(Packet(up.seq))
      /\ \A i \in 1..Len(Packet(up.seq)) : Packet(up.seq)[i].kind = "body" =>
            Packet(up.seq)[i].block = up.seq
  BY <1>1, Packets
<1> QED BY <1>1, <1>2, Sent


TroublesType ==
    troubles \in Seq({"line", "call", "late", "data"}) /\ Len(troubles) <= MaxTroubles

LEMMA Troubled ==
    ASSUME TypeOK
    PROVE  /\ \A what \in {"line", "call", "late", "data"} :
                 Trouble(what) => TroublesType'
           /\ UNCHANGED troubles => TroublesType'
<1>1. troubles \in Seq({"line", "call", "late", "data"}) /\ MaxTroubles \in Nat
      /\ Len(troubles) \in Nat /\ Len(troubles) <= MaxTroubles
  BY XModemAssumption, LenProperties DEF TypeOK
<1>2. ASSUME NEW what \in {"line", "call", "late", "data"}, Trouble(what)
      PROVE  TroublesType'
  <2>1. /\ troubles' = Append(troubles, what) /\ Len(troubles) < MaxTroubles
    BY <1>2 DEF Trouble
  <2>2. /\ troubles' \in Seq({"line", "call", "late", "data"})
        /\ Len(troubles') = Len(troubles) + 1
    BY <1>1, <2>1, AppendProperties
  <2> QED BY <1>1, <2>1, <2>2 DEF TroublesType
<1>3. ASSUME UNCHANGED troubles PROVE TroublesType'
  BY <1>1, <1>3 DEF TroublesType
<1> QED BY <1>2, <1>3

\* The invariant after a step of upload(), from what the step did.
LEMMA UpStep ==
    ASSUME IndInv, TroublesType', UNCHANGED <<length, down, received>>,
           toUp' \in Seq(Message), toDown' \in Seq(Message),
           up' \in [at : {"start", "next", "reply", "eot", "done"},
                    seq : 1..(length + 1), count : {0, 2, 4}, ret : BOOLEAN],
           InStep', ACKs', Ending',
           BodiesIn(toDown', length, down.seq, up'.seq), Ordered(toDown'),
           up'.ret => up'.at = "done" /\ down.at = "done" /\ down.ret
    PROVE  IndInv'
<1>1. TypeOK'
  BY DEF IndInv, TypeOK, TroublesType
<1>2. Bodies'
  BY DEF Bodies
<1>3. Delivered'
  BY DEF IndInv, Delivered
<1>4. Succeeds'
  BY DEF Succeeds
<1>5. Calling'
  BY DEF IndInv, Calling
<1> QED BY <1>1, <1>2, <1>3, <1>4, <1>5 DEF IndInv

\* upload() ends without success.
LEMMA Stops ==
    ASSUME IndInv, TroublesType', toUp' \in Seq(Message),
           NEW s \in {<<>>, Cans}, UpSends(s),
           \/ up' = [up EXCEPT !.at = "done"]
           \/ up' = [up EXCEPT !.at = "done", !.ret = FALSE],
           up.at # "done"
    PROVE  IndInv'
<1>1. /\ UNCHANGED <<length, down, received>>
      /\ toDown' \in Seq(Message) /\ Ordered(toDown')
      /\ BodiesIn(toDown', length, down.seq, up.seq)
      /\ Has(toDown', "EOT") => Has(toDown, "EOT")
  <2>1. s # <<Char("EOT")>>
    <3>1. ~Has(s, "EOT")
      BY Controls
    <3>2. Has(<<Char("EOT")>>, "EOT")
      <4>1. Len(<<Char("EOT")>>) = 1 /\ <<Char("EOT")>>[1].kind = "EOT"
        BY CharType
      <4> QED BY <4>1 DEF Has
    <3> QED BY <3>1, <3>2
  <2> QED BY <2>1, UpQuiet
<1>2. /\ up \in [at : {"start", "next", "reply", "eot", "done"},
                 seq : 1..(length + 1), count : {0, 2, 4}, ret : BOOLEAN]
      /\ ~up.ret
  BY DEF IndInv, TypeOK, Succeeds
<1>3. /\ up' \in [at : {"start", "next", "reply", "eot", "done"},
                  seq : 1..(length + 1), count : {0, 2, 4}, ret : BOOLEAN]
      /\ up'.at = "done" /\ up'.seq = up.seq /\ ~up'.ret
  BY <1>2
<1>4. InStep'
  BY <1>1, <1>3 DEF IndInv, InStep
<1>5. ACKs'
  BY <1>3 DEF ACKs
<1>6. Ending'
  BY <1>1, <1>3 DEF IndInv, Ending
<1> QED BY <1>1, <1>3, <1>4, <1>5, <1>6, UpStep

LEMMA UploadKeeps == IndInv /\ Upload => IndInv'
<1> SUFFICES ASSUME IndInv, Upload PROVE IndInv'
  OBVIOUS
<1> DEFINE UpType == [at : {"start", "next", "reply", "eot", "done"},
                      seq : 1..(length + 1), count : {0, 2, 4}, ret : BOOLEAN]
<1>1. /\ TypeOK /\ length \in Nat /\ up \in UpType
      /\ toUp \in Seq(Message) /\ toDown \in Seq(Message)
      /\ down.seq \in 1..(length + 1)
  BY XModemAssumption DEF IndInv, TypeOK
<1>2. UNCHANGED troubles => TroublesType'
  BY <1>1, Troubled
<1>3. ASSUME UpTimeout
      PROVE  /\ toUp = <<>> /\ up.at \in {"start", "reply", "eot"}
             /\ TroublesType'
  BY <1>1, <1>3, Troubled DEF UpTimeout, UpWaits
<1>4. up.at # "done" => ~up.ret
  BY DEF IndInv, Succeeds
<1> HIDE DEF UpType
<1>5. CASE Start
  <2>1. ASSUME Reads("start", "NCG"), up' = [up EXCEPT !.at = "next"]
        PROVE  IndInv'
    <3>1. /\ UpSends(<<>>) /\ UNCHANGED troubles
      BY <1>5 DEF Start
    <3>2. /\ UNCHANGED <<length, down, received>>
          /\ toDown' \in Seq(Message) /\ Ordered(toDown')
          /\ BodiesIn(toDown', length, down.seq, up.seq)
          /\ Has(toDown', "EOT") => Has(toDown, "EOT") \/ <<>> = <<Char("EOT")>>
      BY <3>1, UpQuiet
    <3>3. /\ up.at = "start" /\ toUp' \in Seq(Message)
          /\ Has(toUp', "ACK") => Has(toUp, "ACK")
          /\ One(toUp, "ACK") => One(toUp', "ACK")
      BY <1>1, <2>1, Reading
    <3>4. /\ up' \in UpType
          /\ up'.at = "next" /\ up'.seq = up.seq /\ up'.ret = up.ret
      BY <1>1, <2>1 DEF UpType
    <3>5. InStep'
      BY <3>2, <3>4 DEF IndInv, InStep
    <3>6. ACKs'
      BY <3>2, <3>3, <3>4 DEF IndInv, ACKs
    <3>7. Ending'
      BY <3>2, <3>3 DEF IndInv, Ending
    <3> QED BY <1>2, <1>4, <3>1, <3>2, <3>3, <3>4, <3>5, <3>6, <3>7, UpStep
            DEF UpType
  <2>2. ASSUME NEW c, Reads("start", c), up' = [up EXCEPT !.at = "done"]
        PROVE  IndInv'
    <3>1. /\ UpSends(<<>>) /\ UNCHANGED troubles
      BY <1>5 DEF Start
    <3>2. up.at = "start" /\ toUp' \in Seq(Message)
      BY <1>1, <2>2, Reading
    <3> QED BY <1>2, <2>2, <3>1, <3>2, Stops
  <2> QED BY <1>5, <2>1, <2>2 DEF Start
<1>6. CASE StartTimeout
  BY <1>1, <1>3, <1>6, Stops DEF StartTimeout
<1>7. CASE SendBlock
  <2>1. /\ up.at = "next" /\ up.seq <= length
        /\ up' = [up EXCEPT !.at = "reply", !.count = 0]
        /\ UpSends(Packet(up.seq)) /\ UNCHANGED <<toUp, troubles>>
    BY <1>7 DEF SendBlock
  <2>2. /\ UNCHANGED <<length, down, received>>
        /\ toDown' \in Seq(Message) /\ Ordered(toDown')
        /\ BodiesIn(toDown', length, down.seq, up.seq)
        /\ Has(toDown', "EOT") => Has(toDown, "EOT")
    BY <2>1, UpPacket
  <2>3. /\ up' \in UpType
        /\ up'.at = "reply" /\ up'.seq = up.seq /\ up'.ret = up.ret
    BY <1>1, <2>1 DEF UpType
  <2>4. InStep'
    BY <2>1, <2>2, <2>3 DEF IndInv, InStep
  <2>5. ACKs'
    BY <2>1, <2>2, <2>3 DEF IndInv, ACKs
  <2>6. Ending'
    BY <2>1, <2>2 DEF IndInv, Ending
  <2> QED BY <1>1, <1>2, <1>4, <2>1, <2>2, <2>3, <2>4, <2>5, <2>6, UpStep
          DEF UpType
<1>8. CASE SendEOT
  <2>1. /\ up.at = "next" /\ up.seq > length
        /\ up' = [up EXCEPT !.at = "eot"]
        /\ UpSends(<<Char("EOT")>>) /\ UNCHANGED <<toUp, troubles>>
    BY <1>8 DEF SendEOT
  <2>2. /\ UNCHANGED <<length, down, received>>
        /\ toDown' \in Seq(Message) /\ Ordered(toDown')
        /\ BodiesIn(toDown', length, down.seq, up.seq)
    BY <2>1, UpQuiet
  <2>3. /\ up' \in UpType
        /\ up'.at = "eot" /\ up'.seq = up.seq /\ up'.ret = up.ret
    BY <1>1, <2>1 DEF UpType
  <2>4. up.seq = length + 1
    BY <1>1, <2>1 DEF UpType
  <2>5. InStep'
    BY <2>2, <2>3, <2>4 DEF IndInv, InStep
  <2>6. ~Has(toUp, "ACK")
    <3>1. Has(toUp, "ACK") => down.seq = up.seq + 1
      BY <2>1 DEF IndInv, ACKs
    <3>2. down.seq # up.seq + 1
      BY <1>1, <2>4
    <3> QED BY <3>1, <3>2
  <2>7. ACKs'
    BY <2>1, <2>3, <2>6 DEF ACKs
  <2>8. Ending'
    BY <2>2, <2>3, <2>4 DEF Ending
  <2> QED BY <1>1, <1>2, <1>4, <2>1, <2>2, <2>3, <2>5, <2>7, <2>8, UpStep
          DEF UpType
<1>9. CASE SourceFails
  <2>1. TroublesType' /\ up.at = "next" /\ GiveUp /\ toUp' = toUp
    BY <1>1, <1>9, Troubled DEF SourceFails
  <2> QED BY <1>1, <2>1, Stops DEF GiveUp
<1>10. CASE ReplyACK
  <2>1. /\ Reads("reply", "ACK") /\ UpSends(<<>>) /\ UNCHANGED troubles
        /\ up' = [up EXCEPT !.at = "next", !.seq = @ + 1]
    BY <1>10 DEF ReplyACK
  <2>2. /\ UNCHANGED <<length, down, received>>
        /\ toDown' \in Seq(Message) /\ Ordered(toDown')
        /\ BodiesIn(toDown', length, down.seq, up.seq + 1)
        /\ Has(toDown', "EOT") => Has(toDown, "EOT") \/ <<>> = <<Char("EOT")>>
    BY <2>1, UpQuiet
  <2>3. /\ up.at = "reply" /\ toUp' \in Seq(Message)
        /\ Has(toUp, "ACK") /\ One(toUp, "ACK") => One(toUp', "ACK")
        /\ One(toUp, "ACK") => ~Has(toUp', "ACK")
    BY <1>1, <2>1, Reading
  <2>4. Has(toUp, "ACK") /\ One(toUp, "ACK") /\ down.seq = up.seq + 1
    BY <1>1, <2>1, <2>3, Reading DEF IndInv, ACKs
  <2>5. /\ up' \in UpType
        /\ up'.at = "next" /\ up'.seq = up.seq + 1 /\ up'.ret = up.ret
    BY <1>1, <2>1, <2>4 DEF UpType
  <2>6. InStep'
    BY <1>1, <2>2, <2>4, <2>5 DEF InStep
  <2>7. ACKs'
    BY <2>3, <2>4, <2>5 DEF ACKs
  <2>8. Ending'
    BY <2>2, <2>3 DEF IndInv, Ending
  <2> QED BY <1>2, <1>4, <2>1, <2>2, <2>3, <2>5, <2>6, <2>7, <2>8, UpStep
          DEF UpType
<1>11. CASE ReplyNCG
  <2>1. /\ Reads("reply", "NCG") /\ UpSends(<<>>) /\ UNCHANGED troubles
        /\ up' = [up EXCEPT !.at = "next"]
    BY <1>11 DEF ReplyNCG
  <2>2. /\ UNCHANGED <<length, down, received>>
        /\ toDown' \in Seq(Message) /\ Ordered(toDown')
        /\ BodiesIn(toDown', length, down.seq, up.seq)
        /\ Has(toDown', "EOT") => Has(toDown, "EOT") \/ <<>> = <<Char("EOT")>>
    BY <2>1, UpQuiet
  <2>3. /\ up.at = "reply" /\ toUp' \in Seq(Message)
        /\ Has(toUp', "ACK") => Has(toUp, "ACK")
        /\ One(toUp, "ACK") => One(toUp', "ACK")
    BY <1>1, <2>1, Reading
  <2>4. /\ up' \in UpType
        /\ up'.at = "next" /\ up'.seq = up.seq /\ up'.ret = up.ret
    BY <1>1, <2>1 DEF UpType
  <2>5. InStep'
    BY <2>2, <2>4 DEF IndInv, InStep
  <2>6. ACKs'
    BY <2>2, <2>3, <2>4 DEF IndInv, ACKs
  <2>7. Ending'
    BY <2>2, <2>3 DEF IndInv, Ending
  <2> QED BY <1>2, <1>4, <2>1, <2>2, <2>3, <2>4, <2>5, <2>6, <2>7, UpStep
          DEF UpType
<1>12. CASE ReplyCAN
  <2>1. /\ UNCHANGED troubles /\ GiveUp
        /\ up.at = "reply" /\ toUp' \in Seq(Message)
    BY <1>1, <1>12, Reading DEF ReplyCAN
  <2> QED BY <1>2, <2>1, Stops DEF GiveUp
<1>13. CASE ReplyOther
  <2>1. /\ UNCHANGED troubles /\ up.at = "reply" /\ toUp' \in Seq(Message)
        /\ Has(toUp', "ACK") => Has(toUp, "ACK")
        /\ One(toUp, "ACK") => One(toUp', "ACK")
    BY <1>1, <1>13, Reading DEF ReplyOther
  <2>2. CASE GiveUp
    BY <1>2, <2>1, <2>2, Stops DEF GiveUp
  <2>3. CASE MayRetry /\ up' = [up EXCEPT !.count = Count]
             /\ UpSends(Packet(up.seq))
    <3>1. up.seq <= length
      BY <2>1 DEF IndInv, InStep
    <3>2. /\ UNCHANGED <<length, down, received>>
          /\ toDown' \in Seq(Message) /\ Ordered(toDown')
          /\ BodiesIn(toDown', length, down.seq, up.seq)
          /\ Has(toDown', "EOT") => Has(toDown, "EOT")
      BY <2>3, <3>1, UpPacket
    <3>3. /\ up' \in UpType
          /\ up'.at = up.at /\ up'.seq = up.seq /\ up'.ret = up.ret
      <4>1. Count \in {0, 2, 4}
        BY <1>1, <2>3 DEF UpType, MayRetry, Count
      <4> QED BY <1>1, <2>3, <4>1 DEF UpType
    <3>4. InStep'
      BY <3>2, <3>3 DEF IndInv, InStep
    <3>5. ACKs'
      BY <2>1, <3>2, <3>3 DEF IndInv, ACKs
    <3>6. Ending'
      BY <2>1, <3>2, <3>3 DEF IndInv, Ending
    <3> QED BY <1>2, <1>4, <2>1, <3>2, <3>3, <3>4, <3>5, <3>6, UpStep DEF UpType
  <2> QED BY <1>13, <2>2, <2>3 DEF ReplyOther
<1>14. CASE ReplyTimeout
  <2>1. /\ TroublesType' /\ GiveUp /\ toUp' = toUp /\ up.at # "done"
    BY <1>3, <1>14 DEF ReplyTimeout
  <2> QED BY <1>1, <2>1, Stops DEF GiveUp
<1>15. CASE ReplyEOT
  <2>1. PICK c \in {"ACK", "NAK", "NCG", "CAN", "junk"} :
          /\ Reads("eot", c) /\ UNCHANGED troubles
          /\ IF Confirmed(c)
             THEN up' = [up EXCEPT !.at = "done", !.ret = TRUE] /\ UpSends(<<>>)
             ELSE GiveUp
    BY <1>15 DEF ReplyEOT
  <2>2. /\ up.at = "eot" /\ toUp' \in Seq(Message)
        /\ c = "ACK" => Has(toUp, "ACK")
    BY <1>1, <2>1, Reading
  <2>3. CASE ~Confirmed(c)
    BY <1>2, <2>1, <2>2, <2>3, Stops DEF GiveUp
  <2>4. CASE Confirmed(c)
    <3>1. down.at = "done" /\ down.ret
      BY <2>2, <2>4 DEF IndInv, ACKs, Confirmed
    <3>2. /\ UNCHANGED <<length, down, received>>
          /\ toDown' \in Seq(Message) /\ Ordered(toDown')
          /\ BodiesIn(toDown', length, down.seq, up.seq)
          /\ Has(toDown', "EOT") => Has(toDown, "EOT") \/ <<>> = <<Char("EOT")>>
      BY <2>1, <2>4, UpQuiet
    <3>3. /\ up' \in UpType /\ up'.at = "done" /\ up'.seq = up.seq
      BY <1>1, <2>1, <2>4 DEF UpType
    <3>4. InStep'
      BY <3>2, <3>3 DEF IndInv, InStep
    <3>5. ACKs'
      BY <3>3 DEF ACKs
    <3>6. Ending'
      BY <3>1, <3>2, <3>3 DEF IndInv, Ending
    <3> QED BY <1>2, <2>1, <2>2, <3>1, <3>2, <3>3, <3>4, <3>5, <3>6, UpStep
            DEF UpType
  <2> QED BY <2>3, <2>4
<1> QED BY <1>5, <1>6, <1>7, <1>8, <1>9, <1>10, <1>11, <1>12, <1>13, <1>14, <1>15
        DEF Upload

----------------------------------------------------------------------------
(* download() keeps it.                                                    *)

\* What is left for download() after it has read.
LEMMA Left ==
    ASSUME IndInv, Thins(toDown', toDown)
    PROVE  /\ toDown' \in Seq(Message) /\ Ordered(toDown')
           /\ BodiesIn(toDown', length, down.seq, up.seq)
           /\ Has(toDown', "EOT") => Has(toDown, "EOT")
<1>1. /\ toDown \in Seq(Message) /\ Ordered(toDown)
      /\ BodiesIn(toDown, length, down.seq, up.seq)
  BY DEF IndInv, TypeOK, Bodies
<1>2. toDown' \in Seq(Message)
  BY DEF Thins
<1> QED BY <1>1, <1>2, Thinned

\* A step in which download() sends no ACK.
LEMMA DownQuiet ==
    ASSUME IndInv, NEW s, DownSends(s),
           s \in {<<>>, Cans, <<Char("NCG")>>, <<Char("NAK")>>}
    PROVE  /\ UNCHANGED <<length, up>> /\ toUp' \in Seq(Message)
           /\ Has(toUp', "ACK") => Has(toUp, "ACK")
           /\ One(toUp, "ACK") => One(toUp', "ACK")
<1>1. toUp \in Seq(Message) /\ toUp' = toUp \o s /\ UNCHANGED <<length, up>>
  BY DEF IndInv, TypeOK, DownSends
<1>2. s \in Seq(Message) /\ ~Has(s, "ACK")
  BY Controls
<1> QED BY <1>1, <1>2, Sent

\* A step in which it sends an ACK, which is the only one then.
LEMMA DownACK ==
    ASSUME IndInv, DownSends(<<Char("ACK")>>)
    PROVE  /\ UNCHANGED <<length, up>> /\ toUp' \in Seq(Message)
           /\ ~Has(toUp, "ACK") => One(toUp', "ACK")
<1>1. /\ toUp \in Seq(Message) /\ toUp' = toUp \o <<Char("ACK")>>
      /\ UNCHANGED <<length, up>>
  BY DEF IndInv, TypeOK, DownSends
<1>2. <<Char("ACK")>> \in Seq(Message) /\ One(<<Char("ACK")>>, "ACK")
  BY Controls
<1> QED BY <1>1, <1>2, Sent

\* The invariant after a step of download(), from what the step did.
LEMMA DownStep ==
    ASSUME IndInv, TroublesType', UNCHANGED <<length, up>>,
           toUp' \in Seq(Message), toDown' \in Seq(Message),
           down' \in [at : {"call", "hello", "command", "block", "done"},
                      seq : 1..(length + 1), calls : 0..MaxCalls, ret : BOOLEAN],
           received' \in Seq(1..length),
           InStep', ACKs', Ending', Delivered', Calling',
           BodiesIn(toDown', length, down'.seq, up.seq), Ordered(toDown'),
           ~up.ret \/ UNCHANGED down
    PROVE  IndInv'
<1>1. TypeOK'
  BY DEF IndInv, TypeOK, TroublesType
<1>2. Bodies'
  BY DEF Bodies
<1>3. Succeeds'
  BY DEF IndInv, Succeeds
<1> QED BY <1>1, <1>2, <1>3 DEF IndInv

\* A step of download() that takes no block and sends no ACK, and after which
\* it has not accepted EOT.
LEMMA Carries ==
    ASSUME IndInv, TroublesType', Thins(toDown', toDown), UNCHANGED received,
           NEW s, DownSends(s),
           s \in {<<>>, Cans, <<Char("NCG")>>, <<Char("NAK")>>},
           down.at # "done",
           down' \in [at : {"call", "hello", "command", "block", "done"},
                      seq : 1..(length + 1), calls : 0..MaxCalls, ret : BOOLEAN],
           down'.seq = down.seq, down'.at = "done" => ~down'.ret,
           Calling'
    PROVE  IndInv'
<1>1. /\ toDown' \in Seq(Message) /\ Ordered(toDown')
      /\ BodiesIn(toDown', length, down.seq, up.seq)
      /\ Has(toDown', "EOT") => Has(toDown, "EOT")
  BY Left
<1>2. /\ UNCHANGED <<length, up>> /\ toUp' \in Seq(Message)
      /\ Has(toUp', "ACK") => Has(toUp, "ACK")
      /\ One(toUp, "ACK") => One(toUp', "ACK")
  BY DownQuiet
<1>3. InStep'
  BY <1>2 DEF IndInv, InStep
<1>4. ACKs'
  BY <1>2 DEF IndInv, ACKs
<1>5. Ending'
  BY <1>1, <1>2 DEF IndInv, Ending
<1>6. Delivered'
  BY <1>2 DEF IndInv, Delivered
<1>7. ~up.ret
  BY DEF IndInv, Succeeds
<1>8. received' \in Seq(1..length)
  BY DEF IndInv, TypeOK
<1> QED BY <1>1, <1>2, <1>3, <1>4, <1>5, <1>6, <1>7, <1>8, DownStep

\* A good block is the one that upload() has sent last and that download()
\* waits for; no ACK is on its way.
LEMMA GoodBlock ==
    ASSUME IndInv, NEW i \in DOMAIN toDown, Read(i), Good(i)
    PROVE  /\ i = 1 /\ toDown[1].kind = "body" /\ Data(i).block = down.seq
           /\ down.seq = up.seq /\ down.seq <= length
           /\ up.at # "eot"
           /\ up.at \in {"start", "next", "reply"} => ~Has(toUp, "ACK")
           /\ toDown' \in Seq(Message) /\ Ordered(toDown')
           /\ BodiesIn(toDown', length, down.seq + 1, up.seq)
           /\ Has(toDown', "EOT") => Has(toDown, "EOT")
           /\ received' = Append(received, Data(i).block) =>
                 /\ received' \in Seq(1..length) /\ Len(received') = down.seq
                 /\ \A j \in 1..Len(received') : received'[j] = j
<1>1. /\ length \in Nat /\ toDown \in Seq(Message) /\ Ordered(toDown)
      /\ down.seq \in 1..(length + 1) /\ up.seq \in 1..(length + 1)
      /\ BodiesIn(toDown, length, down.seq, up.seq)
      /\ up.seq <= down.seq /\ down.seq <= up.seq + 1
      /\ received \in Seq(1..length)
  BY XModemAssumption DEF IndInv, TypeOK, Bodies, InStep
<1>2. i \in 1..Len(toDown) /\ Len(toDown) \in Nat
  BY <1>1, LenProperties
<1>3. i = 1 /\ toDown[1].kind = "body" /\ toDown[1].seq = down.seq % Modulus
  <2>1. Damaged.kind = "damaged"
    BY CharType DEF Damaged
  <2> QED BY <2>1 DEF Good, Data, Intact
<1>4. /\ toDown[1].block \in 1..length
      /\ toDown[1].block % Modulus = down.seq % Modulus
      /\ down.seq <= toDown[1].block + 1 /\ toDown[1].block <= up.seq
  BY <1>1, <1>2, <1>3 DEF BodiesIn
<1>5. toDown[1].block = down.seq
  <2>1. CASE toDown[1].block + 1 = down.seq
    <3>1. toDown[1].block \in Nat /\ Modulus \in Nat \ {0, 1}
      BY <1>4, XModemAssumption
    <3>2. toDown[1].block % Modulus # (toDown[1].block + 1) % Modulus
      BY <3>1, NextDiffers
    <3> QED BY <2>1, <3>2, <1>4
  <2>2. /\ toDown[1].block \in Nat /\ down.seq \in Nat /\ up.seq \in Nat
        /\ toDown[1].block <= up.seq /\ up.seq <= down.seq
        /\ down.seq <= toDown[1].block + 1
    BY <1>1, <1>4
  <2>3. toDown[1].block + 1 = down.seq \/ toDown[1].block = down.seq
    BY <2>2
  <2> QED BY <2>1, <2>3
<1>6. Data(i).block = down.seq /\ down.seq = up.seq /\ down.seq <= length
  BY <1>1, <1>3, <1>4, <1>5 DEF Data
<1>7. up.at # "eot"
  BY <1>1, <1>6 DEF IndInv, InStep
<1>8. up.at \in {"start", "next", "reply"} => ~Has(toUp, "ACK")
  <2>1. down.seq # up.seq + 1
    BY <1>1, <1>6
  <2> QED BY <2>1 DEF IndInv, ACKs
<1>9. /\ Thins(toDown', toDown) /\ toDown' = Unread(1)
      /\ BodiesIn(toDown', length, down.seq + 1, up.seq)
  BY <1>1, <1>2, <1>3, <1>5, ThinUnread, FirstRead DEF Read
<1>10. /\ toDown' \in Seq(Message) /\ Ordered(toDown')
       /\ Has(toDown', "EOT") => Has(toDown, "EOT")
  BY <1>9, Left
<1>11. ASSUME received' = Append(received, Data(i).block)
       PROVE  /\ received' \in Seq(1..length) /\ Len(received') = down.seq
              /\ \A j \in 1..Len(received') : received'[j] = j
  <2>1. /\ Len(received) = down.seq - 1
        /\ \A j \in 1..Len(received) : received[j] = j
    BY DEF IndInv, Delivered, Read
  <2>2. down.seq \in 1..length
    BY <1>1, <1>6
  <2>3. /\ received' \in Seq(1..length) /\ Len(received') = Len(received) + 1
        /\ \A j \in 1..Len(received) : received'[j] = received[j]
        /\ received'[Len(received) + 1] = down.seq
    BY <1>1, <1>6, <1>11, <2>2, AppendProperties
  <2>4. Len(received') = down.seq
    BY <1>1, <2>1, <2>3
  <2>5. ASSUME NEW j \in 1..Len(received') PROVE received'[j] = j
    <3>1. \/ j \in 1..Len(received)
          \/ j = Len(received) + 1 /\ j = down.seq
      BY <1>1, <2>1, <2>4
    <3> QED BY <3>1, <2>1, <2>3
  <2> QED BY <2>3, <2>4, <2>5
<1> QED BY <1>3, <1>6, <1>7, <1>8, <1>9, <1>10, <1>11

LEMMA DownloadKeeps == IndInv /\ Download => IndInv'
<1> SUFFICES ASSUME IndInv, Download PROVE IndInv'
  OBVIOUS
<1> DEFINE DownType == [at : {"call", "hello", "command", "block", "done"},
                        seq : 1..(length + 1), calls : 0..MaxCalls, ret : BOOLEAN]
<1>1. /\ TypeOK /\ length \in Nat /\ down \in DownType
      /\ toUp \in Seq(Message) /\ toDown \in Seq(Message)
      /\ up.seq \in 1..(length + 1) /\ MaxCalls \in Nat
  BY XModemAssumption DEF IndInv, TypeOK
<1>2. UNCHANGED troubles => TroublesType'
  BY <1>1, Troubled
<1>3. ASSUME NEW what \in {"call", "late"}, DownTimeout(what)
      PROVE  TroublesType' /\ down.at \in {"hello", "command", "block"}
  BY <1>1, <1>3, Troubled DEF DownTimeout, DownWaits
<1>4. UNCHANGED toDown => Thins(toDown', toDown)
  BY <1>1, ThinSame
<1>5. down.at # "done" => ~up.ret
  BY DEF IndInv, Succeeds
<1> HIDE DEF DownType
<1>6. ASSUME NEW r \in BOOLEAN, Return(r)
      PROVE  down' \in DownType /\ down'.seq = down.seq /\ down'.ret = r
             /\ down'.at = "done" /\ Calling'
  BY <1>1, <1>6 DEF Return, DownType, Calling
<1>7. CASE Call
  <2>1. /\ down.at = "call" /\ UNCHANGED <<toDown, received, troubles>>
    BY <1>7 DEF Call
  <2>2. CASE down.calls < MaxCalls
    <3>1. /\ down' = [down EXCEPT !.at = "hello", !.calls = @ + 1]
          /\ DownSends(<<Char("NCG")>>)
      BY <1>7, <2>2 DEF Call
    <3>2. /\ down' \in DownType /\ down'.seq = down.seq
          /\ down'.at # "done" /\ down'.ret = down.ret
      <4>1. down.calls + 1 \in 0..MaxCalls
        BY <1>1, <2>2 DEF DownType
      <4> QED BY <1>1, <3>1, <4>1 DEF DownType
    <3>3. Calling'
      BY <2>1, <3>2 DEF IndInv, Calling
    <3> QED BY <1>2, <1>4, <2>1, <3>1, <3>2, <3>3, Carries DEF DownType
  <2>3. CASE ~(down.calls < MaxCalls)
    <3>1. down' = [down EXCEPT !.at = "done"] /\ DownSends(<<>>)
      BY <1>7, <2>3 DEF Call
    <3>2. /\ down' \in DownType /\ down'.seq = down.seq
          /\ down'.ret = down.ret /\ down'.at = "done"
      BY <1>1, <3>1 DEF DownType
    <3>3. ~down.ret /\ Calling'
      BY <2>1, <3>2 DEF IndInv, Calling
    <3> QED BY <1>2, <1>4, <2>1, <3>1, <3>2, <3>3, Carries DEF DownType
  <2> QED BY <2>2, <2>3
<1>8. CASE CallTimeout
  <2>1. /\ TroublesType' /\ down.at = "hello"
        /\ down' = [down EXCEPT !.at = "call"]
        /\ DownSends(<<>>) /\ UNCHANGED <<toDown, received>>
    BY <1>3, <1>8 DEF CallTimeout
  <2>2. /\ down' \in DownType /\ down'.seq = down.seq
        /\ down'.at # "done" /\ down'.ret = down.ret
    BY <1>1, <2>1 DEF DownType
  <2>3. Calling'
    BY <2>1, <2>2 DEF IndInv, Calling
  <2> QED BY <1>4, <2>1, <2>2, <2>3, Carries DEF DownType
<1>9. CASE Command
  <2>1. /\ down.at # "done" /\ toDown # <<>> /\ toDown' = Tail(toDown)
        /\ UNCHANGED <<received, troubles>>
    BY <1>9 DEF Command
  <2>2. /\ Thins(toDown', toDown) /\ Head(toDown) = toDown[1]
        /\ 1 \in 1..Len(toDown)
    BY <1>1, <2>1, ThinTail
  <2>3. PICK ret \in BOOLEAN :
          \/ /\ down' = [down EXCEPT !.at = "block", !.ret = ret]
             /\ DownSends(<<>>)
          \/ /\ Head(toDown).kind = "EOT"
             /\ Return(TRUE) /\ DownSends(<<Char("ACK")>>)
          \/ Return(FALSE) /\ DownSends(<<>>)
          \/ Fail
    <3>1. (down.at = "hello" \/ down.ret) \in BOOLEAN
      BY <1>1 DEF DownType
    <3> QED BY <1>9, <3>1 DEF Command
  <2>4. ASSUME down' = [down EXCEPT !.at = "block", !.ret = ret], DownSends(<<>>)
        PROVE  IndInv'
    <3>1. /\ down' \in DownType /\ down'.seq = down.seq
          /\ down'.at # "done" /\ Calling'
      BY <1>1, <2>4 DEF DownType, Calling
    <3> QED BY <1>2, <2>1, <2>2, <2>4, <3>1, Carries DEF DownType
  <2>5. ASSUME Head(toDown).kind = "EOT", Return(TRUE), DownSends(<<Char("ACK")>>)
        PROVE  IndInv'
    <3>1. up.at \in {"eot", "done"} /\ up.seq = length + 1
      <4>1. Has(toDown, "EOT")
        BY <2>2, <2>5 DEF Has
      <4> QED BY <4>1 DEF IndInv, Ending
    <3>2. UNCHANGED <<length, up>> /\ toUp' \in Seq(Message)
      BY <2>5, DownACK
    <3>3. /\ toDown' \in Seq(Message) /\ Ordered(toDown')
          /\ BodiesIn(toDown', length, down.seq, up.seq)
      BY <2>2, Left
    <3>4. /\ down' \in DownType /\ down'.seq = down.seq
          /\ down'.at = "done" /\ down'.ret /\ Calling'
      BY <1>6, <2>5
    <3>5. InStep'
      BY <3>2, <3>4 DEF IndInv, InStep
    <3>6. ACKs'
      BY <3>1, <3>2, <3>4 DEF ACKs
    <3>7. Ending'
      BY <3>1, <3>2 DEF Ending
    <3>8. Delivered'
      BY <2>1, <3>2, <3>4 DEF IndInv, Delivered
    <3>9. received' \in Seq(1..length)
      BY <1>1, <2>1 DEF TypeOK
    <3> QED BY <1>2, <1>5, <2>1, <3>2, <3>3, <3>4, <3>5, <3>6, <3>7, <3>8, <3>9,
               DownStep DEF DownType
  <2>6. ASSUME Return(FALSE), DownSends(<<>>) PROVE IndInv'
    BY <1>2, <1>6, <2>1, <2>2, <2>6, Carries DEF DownType
  <2>7. ASSUME Fail PROVE IndInv'
    BY <1>2, <1>6, <2>1, <2>2, <2>7, Carries DEF DownType, Fail
  <2> QED BY <2>3, <2>4, <2>5, <2>6, <2>7
<1>10. CASE CommandTimeout
  <2>1. /\ TroublesType' /\ down.at # "done" /\ Return(FALSE) /\ DownSends(Cans)
        /\ UNCHANGED <<toDown, received>>
    BY <1>3, <1>10 DEF CommandTimeout, Fail
  <2> QED BY <1>4, <1>6, <2>1, Carries DEF DownType
<1>11. ASSUME NEW i \in DOMAIN toDown, BlockNAK(i) PROVE IndInv'
  <2>1. /\ down.at = "block" /\ toDown' = Unread(i) /\ UNCHANGED <<received, troubles>>
        /\ down' = [down EXCEPT !.at = "command", !.ret = FALSE]
        /\ DownSends(<<Char("NAK")>>)
    BY <1>11 DEF BlockNAK, Read
  <2>2. Thins(toDown', toDown)
    BY <1>1, <2>1, ThinUnread
  <2>3. /\ down' \in DownType /\ down'.seq = down.seq
        /\ down'.at # "done" /\ Calling'
    BY <1>1, <2>1 DEF DownType, Calling
  <2> QED BY <1>2, <2>1, <2>2, <2>3, Carries DEF DownType
<1>12. ASSUME NEW i \in DOMAIN toDown, BlockACK(i) PROVE IndInv'
  <2>1. /\ Read(i) /\ Good(i) /\ DownSends(<<Char("ACK")>>)
        /\ down' = [down EXCEPT !.at = "command", !.seq = @ + 1]
        /\ received' = Append(received, Data(i).block) /\ UNCHANGED troubles
    BY <1>12 DEF BlockACK
  <2>2. /\ down.seq = up.seq /\ down.seq <= length /\ up.at # "eot"
        /\ up.at \in {"start", "next", "reply"} => ~Has(toUp, "ACK")
        /\ toDown' \in Seq(Message) /\ Ordered(toDown')
        /\ BodiesIn(toDown', length, down.seq + 1, up.seq)
        /\ Has(toDown', "EOT") => Has(toDown, "EOT")
        /\ received' \in Seq(1..length) /\ Len(received') = down.seq
        /\ \A j \in 1..Len(received') : received'[j] = j
    BY <2>1, GoodBlock
  <2>3. /\ UNCHANGED <<length, up>> /\ toUp' \in Seq(Message)
        /\ ~Has(toUp, "ACK") => One(toUp', "ACK")
    BY <2>1, DownACK
  <2>4. /\ down' \in DownType /\ down'.seq = down.seq + 1
        /\ down'.at = "command" /\ Calling' /\ down.at = "block"
    <3>1. down.seq + 1 \in 1..(length + 1)
      BY <1>1, <2>2 DEF DownType
    <3> QED BY <1>1, <2>1, <3>1 DEF DownType, Calling, Read
  <2>5. InStep'
    BY <1>1, <2>2, <2>3, <2>4 DEF IndInv, InStep
  <2>6. ACKs'
    BY <2>2, <2>3, <2>4 DEF ACKs
  <2>7. Ending'
    BY <2>2, <2>3, <2>4 DEF IndInv, Ending
  <2>8. Delivered'
    <3>1. Len(received') = down'.seq - 1
      BY <1>1, <2>2, <2>4 DEF DownType
    <3> QED BY <2>2, <2>3, <3>1 DEF Delivered
  <2> QED BY <1>2, <1>5, <2>1, <2>2, <2>3, <2>4, <2>5, <2>6, <2>7, <2>8, DownStep
          DEF DownType
<1>13. ASSUME NEW i \in DOMAIN toDown, SinkFails(i) PROVE IndInv'
  <2>1. /\ Read(i) /\ Good(i) /\ Return(FALSE) /\ DownSends(Cans)
        /\ received' = Append(received, Data(i).block) /\ TroublesType'
    BY <1>1, <1>13, Troubled DEF SinkFails, Fail
  <2>2. /\ down.seq = up.seq /\ down.seq <= length
        /\ toDown' \in Seq(Message)
        /\ Has(toDown', "EOT") => Has(toDown, "EOT")
        /\ received' \in Seq(1..length) /\ Len(received') = down.seq
        /\ \A j \in 1..Len(received') : received'[j] = j
    BY <2>1, GoodBlock
  <2>3. /\ UNCHANGED <<length, up>> /\ toUp' \in Seq(Message)
        /\ Has(toUp', "ACK") => Has(toUp, "ACK")
        /\ One(toUp, "ACK") => One(toUp', "ACK")
    BY <2>1, DownQuiet
  <2>4. /\ down' \in DownType /\ down'.seq = down.seq /\ down'.at = "done"
        /\ ~down'.ret /\ Calling' /\ down.at = "block"
    BY <1>6, <2>1 DEF Read
  <2>5. BodiesIn(toDown', length, down.seq, up.seq) /\ Ordered(toDown')
    <3>1. Thins(toDown', toDown)
      BY <1>1, <2>1, ThinUnread DEF Read
    <3> QED BY <3>1, Left
  <2>6. InStep'
    BY <2>3, <2>4 DEF IndInv, InStep
  <2>7. ACKs'
    BY <2>3, <2>4 DEF IndInv, ACKs
  <2>8. Ending'
    BY <2>2, <2>3, <2>4 DEF IndInv, Ending
  <2>9. Delivered'
    BY <2>2, <2>3, <2>4 DEF Delivered
  <2> QED BY <1>5, <2>1, <2>2, <2>3, <2>4, <2>5, <2>6, <2>7, <2>8, <2>9, DownStep
          DEF DownType
<1> QED BY <1>7, <1>8, <1>9, <1>10, <1>11, <1>12, <1>13 DEF Download

----------------------------------------------------------------------------
(* The line keeps it, and the theorems.                                    *)

LEMMA LineKeeps == IndInv /\ Line => IndInv'
<1> SUFFICES ASSUME IndInv, Line PROVE IndInv'
  OBVIOUS
<1>1. /\ TypeOK /\ toUp \in Seq(Message) /\ toDown \in Seq(Message)
      /\ UNCHANGED <<length, up, down, received>>
  BY DEF IndInv, TypeOK, Line
<1>2. TroublesType'
  BY <1>1, Troubled DEF Line
<1>3. ASSUME NEW q \in Seq(Message), NEW r, NEW i \in DOMAIN q,
             r \in {RemoveAt(q, i), ReplaceAt(q, i, Damage(q[i]))}
      PROVE  Thins(r, q)
  <2>1. i \in 1..Len(q)
    BY LenProperties
  <2> QED BY <1>3, <2>1, ThinRemove, ThinReplace
<1>4. Thins(toUp', toUp) /\ Thins(toDown', toDown)
  <2>1. CASE LineUp
    BY <1>1, <1>3, <2>1, ThinSame DEF LineUp
  <2>2. CASE LineDown
    BY <1>1, <1>3, <2>2, ThinSame DEF LineDown
  <2> QED BY <2>1, <2>2 DEF Line
<1>5. /\ toDown' \in Seq(Message) /\ Ordered(toDown')
      /\ BodiesIn(toDown', length, down.seq, up.seq)
      /\ Has(toDown', "EOT") => Has(toDown, "EOT")
  BY <1>4, Left
<1>6. /\ toUp' \in Seq(Message)
      /\ Has(toUp', "ACK") => Has(toUp, "ACK")
      /\ One(toUp, "ACK") => One(toUp', "ACK")
  BY <1>1, <1>4, Thinned DEF Thins
<1>7. InStep'
  BY <1>1 DEF IndInv, InStep
<1>8. ACKs'
  BY <1>1, <1>6 DEF IndInv, ACKs
<1>9. Ending'
  BY <1>1, <1>5 DEF IndInv, Ending
<1> QED BY <1>1, <1>2, <1>5, <1>6, <1>7, <1>8, <1>9, UpStep
        DEF IndInv, TypeOK, Succeeds

LEMMA Initially == Init => IndInv
<1> SUFFICES ASSUME Init PROVE IndInv
  OBVIOUS
<1>1. /\ length \in Lengths /\ length \in Nat
      /\ up = [at |-> "start", seq |-> 1, count |-> 0, ret |-> FALSE]
      /\ down = [at |-> "call", seq |-> 1, calls |-> 0, ret |-> FALSE]
      /\ toUp = <<>> /\ toDown = <<>> /\ received = <<>> /\ troubles = <<>>
  BY XModemAssumption DEF Init
<1>2. TypeOK
  <2>1. 1 \in 1..(length + 1) /\ 0 \in 0..MaxCalls /\ 0 <= MaxTroubles
    BY <1>1, XModemAssumption
  <2> QED BY <1>1, <2>1 DEF TypeOK
<1>3. InStep /\ ACKs
  BY <1>1 DEF InStep, ACKs, Has, One
<1>4. Bodies
  BY <1>1 DEF Bodies, BodiesIn, Ordered
<1>5. Ending /\ Succeeds /\ Calling
  BY <1>1 DEF Ending, Succeeds, Calling, Has
<1>6. Delivered
  BY <1>1 DEF Delivered
<1> QED BY <1>2, <1>3, <1>4, <1>5, <1>6 DEF IndInv

LEMMA Invariance == Spec => []IndInv
<1>1. IndInv /\ [Next]_vars => IndInv'
  <2> SUFFICES ASSUME IndInv, [Next]_vars PROVE IndInv'
    OBVIOUS
  <2>1. CASE UNCHANGED vars
    BY <2>1 DEF vars, IndInv, TypeOK, InStep, ACKs, Bodies, Ending, Delivered,
                Succeeds, Calling
  <2> QED BY <2>1, UploadKeeps, DownloadKeeps, LineKeeps DEF Next
<1> QED BY <1>1, Initially, PTL DEF Spec

\* The values of all variables, whatever the length of the file.
THEOREM TransferTyped == Spec => []TypeOK
<1>1. IndInv => TypeOK
  BY DEF IndInv
<1> QED BY <1>1, Invariance, PTL

\* download() gives its data function the blocks of the file in order, each
\* once, whatever happens to the line.
THEOREM TransferInOrder == Spec => []InOrder
<1>1. IndInv => InOrder
  <2> SUFFICES ASSUME IndInv PROVE InOrder
    OBVIOUS
  <2>1. /\ length \in Nat /\ received \in Seq(1..length)
        /\ Len(received) <= length
        /\ \A i \in 1..Len(received) : received[i] = i
    BY XModemAssumption DEF IndInv, TypeOK, Delivered
  <2>2. Len(received) \in Nat /\ Len(File) = length
        /\ File \in Seq(1..length) /\ \A i \in 1..length : File[i] = i
    BY <2>1, LenProperties DEF File
  <2>3. /\ SubSeq(File, 1, Len(received)) \in Seq(1..length)
        /\ Len(SubSeq(File, 1, Len(received))) = Len(received)
        /\ \A i \in 1..Len(received) : SubSeq(File, 1, Len(received))[i] = File[i]
    BY <2>1, <2>2, SubSeqProperties
  <2> HIDE DEF File
  <2>4. SubSeq(File, 1, Len(received)) = received
    BY <2>1, <2>2, <2>3, SeqEqual
  <2> QED BY <2>1, <2>2, <2>4 DEF InOrder, IsPrefix
<1> QED BY <1>1, Invariance, PTL

\* Who answers true does so rightly: download() has the whole file, and when
\* upload() answers true download() does too.
THEOREM TransferTruthful == Spec => []AnswersAreTrue
<1>1. IndInv => AnswersAreTrue
  <2> SUFFICES ASSUME IndInv PROVE AnswersAreTrue
    OBVIOUS
  <2>1. ASSUME down.ret, down.at = "done" PROVE received = File
    <3>1. /\ length \in Nat /\ received \in Seq(1..length)
          /\ \A i \in 1..Len(received) : received[i] = i
          /\ down.seq \in 1..(length + 1)
      BY XModemAssumption DEF IndInv, TypeOK, Delivered
    <3>2. Len(received) = down.seq - 1 /\ up.seq = length + 1 /\ up.seq <= down.seq
      BY <2>1 DEF IndInv, Delivered, Ending, InStep
    <3>3. Len(received) = length
      BY <3>1, <3>2
    <3>4. /\ File \in Seq(1..length) /\ Len(File) = length
          /\ \A i \in 1..length : File[i] = i
      BY <3>1 DEF File
    <3> HIDE DEF File
    <3> QED BY <3>1, <3>3, <3>4, SeqEqual
  <2> QED BY <2>1 DEF AnswersAreTrue, IndInv, Succeeds
<1> QED BY <1>1, Invariance, PTL
----------------------------------------------------------------------------
(* A transfer without trouble: upload() and download() take turns.         *)

Clean == troubles = <<>>

\* download() waits for a command and all was well so far.
Listens ==
    \/ down.at = "hello"
    \/ down.at = "command" /\ down.ret

Unheard ==
    /\ up.at = "start" /\ down.at = "call" /\ down.calls = 0
    /\ up.seq = down.seq /\ toUp = <<>> /\ toDown = <<>>

Called ==
    /\ up.at = "start" /\ down.at = "hello" /\ up.seq = down.seq
    /\ toUp = <<Char("NCG")>> /\ toDown = <<>>

UpTurn ==
    /\ up.at = "next" /\ Listens /\ up.seq = down.seq
    /\ toUp = <<>> /\ toDown = <<>>

BlockSent ==
    /\ up.at = "reply" /\ Listens /\ up.seq = down.seq
    /\ toUp = <<>> /\ toDown = Packet(up.seq)

BlockBegun ==
    /\ up.at = "reply" /\ down.at = "block" /\ down.ret /\ up.seq = down.seq
    /\ toUp = <<>> /\ toDown = <<Body(up.seq)>>

BlockTaken ==
    /\ up.at = "reply" /\ down.at = "command" /\ down.ret
    /\ down.seq = up.seq + 1
    /\ toUp = <<Char("ACK")>> /\ toDown = <<>>

EndSent ==
    /\ up.at = "eot" /\ Listens /\ toUp = <<>> /\ toDown = <<Char("EOT")>>

EndTaken ==
    /\ up.at = "eot" /\ down.at = "done" /\ down.ret
    /\ toUp = <<Char("ACK")>> /\ toDown = <<>>

BothDone == up.at = "done" /\ up.ret /\ down.at = "done" /\ down.ret

TakesTurns ==
    Clean => \/ Unheard \/ Called \/ UpTurn \/ BlockSent \/ BlockBegun
             \/ BlockTaken \/ EndSent \/ EndTaken \/ BothDone

\* Without trouble the line does nothing, nothing fails, and no timer expires while
\* the other can act.
LEMMA NoTrouble ==
    ASSUME TypeOK, Clean'
    PROVE  /\ \A what \in {"line", "call", "late", "data"} : ~Trouble(what)
           /\ ~Line /\ ~SourceFails
           /\ \A i : ~SinkFails(i)
           /\ UpTimeout => UpWaits /\ (DownWaits \/ down.at = "done")
           /\ \A what \in {"call", "late"} :
                 DownTimeout(what) => DownWaits /\ (UpWaits \/ up.at = "done")
<1>1. \A what \in {"line", "call", "late", "data"} : ~Trouble(what)
  <2> SUFFICES ASSUME NEW what \in {"line", "call", "late", "data"}, Trouble(what)
               PROVE  FALSE
    OBVIOUS
  <2>1. troubles' = Append(troubles, what)
        /\ troubles \in Seq({"line", "call", "late", "data"})
    BY DEF Trouble, TypeOK
  <2>2. Append(troubles, what) # <<>>
    BY <2>1, AppendProperties, EmptySeq
  <2> QED BY <2>1, <2>2 DEF Clean
<1>2. ~Line /\ ~SourceFails /\ \A i : ~SinkFails(i)
  BY <1>1 DEF Line, SourceFails, SinkFails
<1>3. UpTimeout => UpWaits /\ (DownWaits \/ down.at = "done")
  BY <1>1 DEF UpTimeout
<1>4. \A what \in {"call", "late"} :
         DownTimeout(what) => DownWaits /\ (UpWaits \/ up.at = "done")
  BY <1>1 DEF DownTimeout
<1> QED BY <1>1, <1>2, <1>3, <1>4

\* A run with trouble remains one.
LEMMA TroubleStays ==
    ASSUME TypeOK, [Next]_vars, Clean'
    PROVE  Clean
<1>1. Upload => UNCHANGED troubles
  <2>1. UpTimeout => UNCHANGED troubles
    BY NoTrouble DEF UpTimeout
  <2> QED BY <2>1, NoTrouble
          DEF Upload, Start, StartTimeout, SendBlock, SendEOT, ReplyACK, ReplyNCG,
              ReplyCAN, ReplyOther, ReplyTimeout, ReplyEOT
<1>2. Download => UNCHANGED troubles
  <2>1. \A what \in {"call", "late"} : DownTimeout(what) => UNCHANGED troubles
    BY NoTrouble DEF DownTimeout
  <2> QED BY <2>1, NoTrouble
          DEF Download, Call, CallTimeout, Command, CommandTimeout, BlockNAK, BlockACK
<1> QED BY <1>1, <1>2, NoTrouble DEF Next, vars, Clean

\* upload() does nothing while download() is to act.
LEMMA UpIdle ==
    ASSUME TypeOK, Clean', up.at # "next", toUp = <<>>, ~DownWaits, down.at # "done"
    PROVE  ~Upload
<1>1. \A at, c : ~Reads(at, c)
  BY DEF Reads
<1>2. ~Start /\ ~ReplyACK /\ ~ReplyNCG /\ ~ReplyCAN /\ ~ReplyOther /\ ~ReplyEOT
  BY <1>1 DEF Start, ReplyACK, ReplyNCG, ReplyCAN, ReplyOther, ReplyEOT
<1>3. ~StartTimeout /\ ~ReplyTimeout
  BY NoTrouble DEF StartTimeout, ReplyTimeout
<1>4. ~SendBlock /\ ~SendEOT /\ ~SourceFails
  BY DEF SendBlock, SendEOT, SourceFails
<1> QED BY <1>2, <1>3, <1>4 DEF Upload

\* download() does nothing while upload() is to act.
LEMMA DownIdle ==
    ASSUME TypeOK, Clean', down.at # "call", toDown = <<>>, ~UpWaits, up.at # "done"
    PROVE  ~Download
<1>1. ~Call /\ ~Command
  BY DEF Call, Command
<1>2. ~CallTimeout /\ ~CommandTimeout
  BY NoTrouble DEF CallTimeout, CommandTimeout
<1>3. DOMAIN toDown = {}
  BY 1..0 = {}
<1> QED BY <1>1, <1>2, <1>3 DEF Download

\* One message on its way.
LEMMA OneMessage ==
    ASSUME NEW q, NEW m, q = <<m>>
    PROVE  q # <<>> /\ Head(q) = m /\ Tail(q) = <<>>
OBVIOUS

LEMMA ControlsDiffer ==
    /\ Char("NCG").kind = "NCG" /\ Char("ACK").kind = "ACK"
    /\ Char("EOT").kind = "EOT" /\ Char("SOH").kind = "SOH"
BY CharType

LEMMA Nothing ==
    ASSUME NEW S, NEW q \in Seq(S)
    PROVE  <<>> \o q = q /\ q \o <<>> = q
BY ConcatEmptySeq

LEMMA UnheardStep ==
    ASSUME TypeOK, Clean', Unheard, Next
    PROVE  Called'
<1>1. ~Upload
  BY UpIdle DEF Unheard, DownWaits
<1>2. Download
  BY <1>1, NoTrouble DEF Next
<1>3. Call
  BY <1>2 DEF Download, CallTimeout, Command, CommandTimeout, BlockNAK, BlockACK,
              SinkFails, Read, Unheard
<1>4. /\ down' = [down EXCEPT !.at = "hello", !.calls = @ + 1]
      /\ toUp' = toUp \o <<Char("NCG")>> /\ UNCHANGED <<length, up, toDown>>
  BY <1>3, XModemAssumption DEF Call, DownSends, Unheard
<1>5. toUp' = <<Char("NCG")>>
  <2>1. <<Char("NCG")>> \in Seq(Message)
    BY CharType
  <2> QED BY <1>4, <2>1, Nothing DEF Unheard
<1>6. down'.at = "hello" /\ down'.seq = down.seq
  BY <1>4 DEF TypeOK
<1> QED BY <1>4, <1>5, <1>6 DEF Unheard, Called

LEMMA CalledStep ==
    ASSUME TypeOK, Clean', Called, Next
    PROVE  UpTurn'
<1>1. ~UpWaits /\ up.at = "start" /\ down.at = "hello"
  BY OneMessage DEF UpWaits, Called
<1>2. ~Download
  BY <1>1, DownIdle DEF Called
<1>3. Upload
  BY <1>2, NoTrouble DEF Next
<1>4. Head(toUp).kind = "NCG" /\ Tail(toUp) = <<>>
  BY OneMessage, ControlsDiffer DEF Called
<1>5. Start
  <2>1. ~StartTimeout
    BY <1>1, NoTrouble DEF StartTimeout
  <2> QED BY <1>1, <1>3, <2>1
          DEF Upload, SendBlock, SendEOT, SourceFails, ReplyACK, ReplyNCG,
              ReplyCAN, ReplyOther, ReplyTimeout, ReplyEOT, Reads
<1>6. /\ up' = [up EXCEPT !.at = "next"] /\ toUp' = <<>>
      /\ toDown' = toDown \o <<>> /\ UNCHANGED <<length, down>>
  BY <1>4, <1>5 DEF Start, Reads, UpSends
<1>7. up'.at = "next" /\ up'.seq = up.seq
  BY <1>6 DEF TypeOK
<1>8. toDown' = <<>>
  BY <1>6, Nothing DEF Called, TypeOK
<1> QED BY <1>6, <1>7, <1>8 DEF Called, UpTurn, Listens

LEMMA UpTurnStep ==
    ASSUME TypeOK, Clean', UpTurn, Next
    PROVE  BlockSent' \/ EndSent'
<1>1. ~UpWaits /\ up.at = "next" /\ down.at \in {"hello", "command"}
  BY DEF UpWaits, UpTurn, Listens
<1>2. ~Download
  BY <1>1, DownIdle DEF UpTurn
<1>3. Upload
  BY <1>2, NoTrouble DEF Next
<1>4. SendBlock \/ SendEOT
  BY <1>1, <1>3, NoTrouble
     DEF Upload, Start, StartTimeout, ReplyACK, ReplyNCG, ReplyCAN, ReplyOther,
         ReplyTimeout, ReplyEOT, Reads
<1>5. ASSUME SendBlock PROVE BlockSent'
  <2>1. /\ up' = [up EXCEPT !.at = "reply", !.count = 0]
        /\ toDown' = toDown \o Packet(up.seq) /\ UNCHANGED <<down, toUp>>
    BY <1>5 DEF SendBlock, UpSends
  <2>2. up'.at = "reply" /\ up'.seq = up.seq
    BY <2>1 DEF TypeOK
  <2>3. toDown' = Packet(up.seq)
    <3>1. Packet(up.seq) \in Seq(Message)
      <4>1. up.seq \in Nat
        BY XModemAssumption DEF TypeOK
      <4> QED BY <4>1, BodyType, CharType DEF Packet
    <3> QED BY <2>1, <3>1, Nothing DEF UpTurn
  <2> QED BY <2>1, <2>2, <2>3 DEF UpTurn, BlockSent, Listens
<1>6. ASSUME SendEOT PROVE EndSent'
  <2>1. /\ up' = [up EXCEPT !.at = "eot"]
        /\ toDown' = toDown \o <<Char("EOT")>> /\ UNCHANGED <<down, toUp>>
    BY <1>6 DEF SendEOT, UpSends
  <2>2. up'.at = "eot"
    BY <2>1 DEF TypeOK
  <2>3. toDown' = <<Char("EOT")>>
    <3>1. <<Char("EOT")>> \in Seq(Message)
      BY CharType
    <3> QED BY <2>1, <3>1, Nothing DEF UpTurn
  <2> QED BY <2>1, <2>2, <2>3 DEF UpTurn, EndSent, Listens
<1> QED BY <1>4, <1>5, <1>6

\* What download() does with a command when something has come.
LEMMA Commanded ==
    ASSUME TypeOK, Clean', Listens, toDown # <<>>, Download
    PROVE  Command
<1>1. down.at \in {"hello", "command"} /\ ~DownWaits
  BY DEF Listens, DownWaits
<1>2. ~CallTimeout /\ ~CommandTimeout
  BY <1>1, NoTrouble DEF CallTimeout, CommandTimeout
<1> QED BY <1>1, <1>2 DEF Download, Call, BlockNAK, BlockACK, SinkFails, Read

LEMMA BlockSentStep ==
    ASSUME TypeOK, Clean', BlockSent, Next
    PROVE  BlockBegun'
<1>1. /\ toDown # <<>> /\ Head(toDown) = Char("SOH") /\ Tail(toDown) = <<Body(up.seq)>>
      /\ down.at \in {"hello", "command"}
  BY DEF BlockSent, Packet, Listens
<1>2. ~Upload
  BY <1>1, UpIdle DEF BlockSent, DownWaits
<1>3. Command
  BY <1>1, <1>2, NoTrouble, Commanded DEF Next, BlockSent
<1>4. /\ down' = [down EXCEPT !.at = "block",
                              !.ret = (down.at = "hello" \/ down.ret)]
      /\ toUp' = toUp \o <<>> /\ toDown' = <<Body(up.seq)>> /\ UNCHANGED up
  <2>1. Head(toDown).kind = "SOH"
    BY <1>1, ControlsDiffer
  <2> QED BY <1>1, <1>3, <2>1 DEF Command, DownSends
<1>5. down'.at = "block" /\ down'.ret /\ down'.seq = down.seq
  BY <1>4 DEF TypeOK, BlockSent, Listens
<1>6. toUp' = <<>>
  BY <1>4, Nothing DEF BlockSent, TypeOK
<1> QED BY <1>4, <1>5, <1>6 DEF BlockSent, BlockBegun

LEMMA BlockBegunStep ==
    ASSUME TypeOK, Clean', BlockBegun, Next
    PROVE  BlockTaken'
<1>1. up.seq \in Nat /\ down.seq = up.seq
  BY XModemAssumption DEF TypeOK, BlockBegun
<1>2. /\ DOMAIN toDown = {1} /\ toDown[1] = Body(up.seq) /\ Len(toDown) = 1
      /\ Body(up.seq).kind = "body" /\ Body(up.seq).seq = up.seq % Modulus
  BY <1>1, BodyType DEF BlockBegun
<1>3. ~DownWaits
  BY <1>2 DEF DownWaits, NoBody, IsBody, BlockBegun
<1>4. ~Upload
  BY <1>3, UpIdle DEF BlockBegun
<1>5. BlockACK(1)
  <2>1. Good(1)
    BY <1>1, <1>2 DEF Good, Intact, Data, BlockBegun
  <2>2. ~CallTimeout /\ ~CommandTimeout
    BY <1>3, NoTrouble DEF CallTimeout, CommandTimeout
  <2>3. ~Call /\ ~Command
    BY DEF Call, Command, BlockBegun
  <2>4. Download
    BY <1>4, NoTrouble DEF Next
  <2>5. PICK i \in DOMAIN toDown : BlockNAK(i) \/ BlockACK(i) \/ SinkFails(i)
    BY <2>2, <2>3, <2>4 DEF Download
  <2>6. i = 1 /\ ~SinkFails(i)
    BY <1>2, NoTrouble
  <2> QED BY <2>1, <2>5, <2>6 DEF BlockNAK
<1>6. /\ down' = [down EXCEPT !.at = "command", !.seq = @ + 1]
      /\ toUp' = toUp \o <<Char("ACK")>> /\ toDown' = Unread(1) /\ UNCHANGED up
  BY <1>5 DEF BlockACK, Read, DownSends
<1>7. down'.at = "command" /\ down'.ret /\ down'.seq = up.seq + 1
  BY <1>1, <1>6 DEF TypeOK, BlockBegun
<1>8. toUp' = <<Char("ACK")>>
  <2>1. <<Char("ACK")>> \in Seq(Message)
    BY CharType
  <2> QED BY <1>6, <2>1, Nothing DEF BlockBegun
<1>9. toDown' = <<>>
  <2> DEFINE before == [j \in 1..(1 - 1) |-> Char("junk")]
             after == SubSeq(toDown, 1 + 1, Len(toDown))
  <2>1. before \in Seq(Message) /\ Len(before) = 0
    OBVIOUS
  <2>2. after \in Seq(Message) /\ Len(after) = 0
    <3>1. \A j \in (1 + 1)..Len(toDown) : toDown[j] \in Message
      BY <1>2
    <3> QED BY <1>2, <3>1, SubSeqProperties
  <2>3. before = <<>> /\ after = <<>>
    BY <2>1, <2>2, EmptySeq
  <2> HIDE DEF before, after
  <2>4. before \o after = <<>>
    BY <2>2, <2>3, Nothing
  <2> QED BY <1>6, <2>4 DEF Unread, before, after
<1> QED BY <1>6, <1>7, <1>8, <1>9 DEF BlockBegun, BlockTaken

LEMMA BlockTakenStep ==
    ASSUME TypeOK, Clean', BlockTaken, Next
    PROVE  UpTurn'
<1>1. ~UpWaits /\ up.at = "reply" /\ down.at = "command"
  BY OneMessage DEF UpWaits, BlockTaken
<1>2. ~Download
  BY <1>1, DownIdle DEF BlockTaken
<1>3. Upload
  BY <1>2, NoTrouble DEF Next
<1>4. Head(toUp).kind = "ACK" /\ Tail(toUp) = <<>>
  BY OneMessage, ControlsDiffer DEF BlockTaken
<1>5. ReplyACK
  <2>1. ~ReplyTimeout
    BY <1>1, NoTrouble DEF ReplyTimeout
  <2>2. ~ReplyNCG /\ ~ReplyCAN /\ ~ReplyOther
    BY <1>4 DEF ReplyNCG, ReplyCAN, ReplyOther, Reads
  <2> QED BY <1>1, <1>3, <2>1, <2>2
          DEF Upload, Start, StartTimeout, SendBlock, SendEOT, SourceFails,
              ReplyEOT, Reads
<1>6. /\ up' = [up EXCEPT !.at = "next", !.seq = @ + 1] /\ toUp' = <<>>
      /\ toDown' = toDown \o <<>> /\ UNCHANGED down
  BY <1>4, <1>5 DEF ReplyACK, Reads, UpSends
<1>7. up'.at = "next" /\ up'.seq = up.seq + 1
  BY <1>6 DEF TypeOK
<1>8. toDown' = <<>>
  BY <1>6, Nothing DEF BlockTaken, TypeOK
<1> QED BY <1>6, <1>7, <1>8 DEF BlockTaken, UpTurn, Listens

LEMMA EndSentStep ==
    ASSUME TypeOK, Clean', EndSent, Next
    PROVE  EndTaken'
<1>1. /\ toDown # <<>> /\ Head(toDown).kind = "EOT" /\ Tail(toDown) = <<>>
      /\ down.at \in {"hello", "command"}
  BY OneMessage, ControlsDiffer DEF EndSent, Listens
<1>2. ~Upload
  BY <1>1, UpIdle DEF EndSent, DownWaits
<1>3. Command
  BY <1>1, <1>2, NoTrouble, Commanded DEF Next, EndSent
<1>4. /\ down' = [down EXCEPT !.at = "done", !.ret = TRUE]
      /\ toUp' = toUp \o <<Char("ACK")>> /\ toDown' = <<>> /\ UNCHANGED up
  BY <1>1, <1>3 DEF Command, DownSends, Return, EndSent, Listens
<1>5. down'.at = "done" /\ down'.ret
  BY <1>4 DEF TypeOK
<1>6. toUp' = <<Char("ACK")>>
  <2>1. <<Char("ACK")>> \in Seq(Message)
    BY CharType
  <2> QED BY <1>4, <2>1, Nothing DEF EndSent
<1> QED BY <1>4, <1>5, <1>6 DEF EndSent, EndTaken

\* download() has returned.
LEMMA DownOver ==
    ASSUME down.at = "done"
    PROVE  ~Download
BY DEF Download, Call, CallTimeout, Command, CommandTimeout, BlockNAK, BlockACK,
       SinkFails, Read

LEMMA EndTakenStep ==
    ASSUME TypeOK, Clean', EndTaken, Next
    PROVE  BothDone'
<1>1. /\ ~UpWaits /\ up.at = "eot" /\ down.at = "done"
      /\ Head(toUp).kind = "ACK" /\ Tail(toUp) = <<>>
  BY OneMessage, ControlsDiffer DEF UpWaits, EndTaken
<1>2. Upload
  BY <1>1, DownOver, NoTrouble DEF Next
<1>3. ReplyEOT
  <2>1. ~ReplyTimeout
    BY <1>1, NoTrouble DEF ReplyTimeout
  <2> QED BY <1>1, <1>2, <2>1
          DEF Upload, Start, StartTimeout, SendBlock, SendEOT, SourceFails,
              ReplyACK, ReplyNCG, ReplyCAN, ReplyOther, Reads
<1>4. up' = [up EXCEPT !.at = "done", !.ret = TRUE] /\ UNCHANGED down
  BY <1>1, <1>3 DEF ReplyEOT, Reads, Confirmed, UpSends
<1>5. up'.at = "done" /\ up'.ret
  BY <1>4 DEF TypeOK
<1> QED BY <1>4, <1>5 DEF EndTaken, BothDone

LEMMA BothDoneStep ==
    ASSUME TypeOK, Clean', BothDone, Next
    PROVE  FALSE
<1>1. ~Upload
  BY DEF BothDone, Upload, Start, StartTimeout, SendBlock, SendEOT, SourceFails,
         ReplyACK, ReplyNCG, ReplyCAN, ReplyOther, ReplyTimeout, ReplyEOT, Reads
<1> QED BY <1>1, DownOver, NoTrouble DEF Next, BothDone

LEMMA TurnsKept ==
    ASSUME TypeOK, TakesTurns, [Next]_vars
    PROVE  TakesTurns'
<1> SUFFICES ASSUME Clean' PROVE TakesTurns'
  BY DEF TakesTurns
<1>1. Clean
  BY TroubleStays
<1>2. ASSUME UNCHANGED vars PROVE TakesTurns'
  BY <1>2 DEF vars, TakesTurns, Clean, Listens, Unheard, Called, UpTurn, BlockSent,
              BlockBegun, BlockTaken, EndSent, EndTaken, BothDone
<1>3. ASSUME Next PROVE TakesTurns'
  <2>1. \/ Unheard \/ Called \/ UpTurn \/ BlockSent \/ BlockBegun \/ BlockTaken
        \/ EndSent \/ EndTaken \/ BothDone
    BY <1>1 DEF TakesTurns
  <2> QED BY <1>3, <2>1, UnheardStep, CalledStep, UpTurnStep, BlockSentStep,
             BlockBegunStep, BlockTakenStep, EndSentStep, EndTakenStep, BothDoneStep
          DEF TakesTurns
<1> QED BY <1>2, <1>3

\* When nothing goes wrong both ends answer true (corralXModem.cpp:40-207), for
\* a file of any length.
THEOREM CleanTransfer == Spec => []CleanSucceeds
<1>1. Init => TakesTurns
  BY DEF Init, TakesTurns, Unheard
<1>2. TypeOK /\ TakesTurns /\ [Next]_vars => TakesTurns'
  BY TurnsKept
<1>3. TakesTurns => CleanSucceeds
  BY DEF TakesTurns, CleanSucceeds, Clean, Over, Unheard, Called, UpTurn, BlockSent,
         BlockBegun, BlockTaken, EndSent, EndTaken, BothDone
<1>4. IndInv => TypeOK
  BY DEF IndInv
<1> QED BY <1>1, <1>2, <1>3, <1>4, Invariance, PTL DEF Spec
=============================================================================
