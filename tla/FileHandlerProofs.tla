------------------------- MODULE FileHandlerProofs -------------------------
(***************************************************************************)
(* Theorems about HandleFile, whatever the file, its entries, the sizes of *)
(* the channels and of the reader's buffer.                                *)
(*                                                                         *)
(* NoReaderIsLeft: a file never has two readers while its context stands,  *)
(* and none is left when HandleFile has returned nil undisturbed.  The     *)
(* handler starts a chunk reader when it enters an entry and, but for the  *)
(* end of the context, leaves the entry only after the reader is off; and  *)
(* before HandleFile has its result only an interruption ends the context. *)
(*                                                                         *)
(* TypeCorrect: the types.  They rest on ReadsWhole: a BufferedReadSeeker  *)
(* that was read, measured and put back by the detection of a file's type  *)
(* then reads the whole stream from its start.  What it read is at all     *)
(* times in its file, up to a point, and behind that in its buffer.        *)
(*                                                                         *)
(* AllIsReported: what is reported of a file is a prefix of its content    *)
(* and, undisturbed, all of it.  The messages between the handler and the  *)
(* caller take what was reported from one length of the content to         *)
(* another; that other length is where the handler stands; and what a      *)
(* chunk reader has sent, holds and has yet to read is the rest of its     *)
(* entry.                                                                  *)
(***************************************************************************)
EXTENDS FileHandler, SequenceTheorems, WellFoundedInduction, TLAPS

-----------------------------------------------------------------------------

(* A set of natural numbers that is not empty has a least element.         *)
LEMMA LeastElement ==
    ASSUME NEW S, S \subseteq Nat, S # {}
    PROVE  \E m \in S : \A n \in S : m <= n
<1>1. PICK x \in S : \A y \in S : <<y, x>> \notin OpToRel(<, Nat)
  BY NatLessThanWellFounded, WFMin, Zenon
<1>2. \A y \in S : ~ (y < x)
  BY <1>1 DEF OpToRel
<1> QED BY <1>2

(* What holds of 0 and passes from k - 1 to k, up to n, holds up to n.     *)
LEMMA Counting ==
    ASSUME NEW n \in Nat, NEW T, 0 \in T, \A k \in 1..n : k - 1 \in T => k \in T
    PROVE  0..n \subseteq T
<1> DEFINE S == {k \in 0..n : k \notin T}
<1>1. SUFFICES ASSUME S # {} PROVE FALSE
  OBVIOUS
<1>2. PICK k \in S : \A m \in S : k <= m
  <2> S \subseteq Nat
    OBVIOUS
  <2> HIDE DEF S
  <2> QED BY <1>1, LeastElement
<1>3. k \in 1..n /\ k \notin T
  BY <1>2
<1>4. k - 1 \in T
  BY <1>2, <1>3
<1> QED BY <1>3, <1>4

Inductive(T, n) == 0 \in T /\ \A k \in 1..n : k - 1 \in T => k \in T

(* The same, with the induction's two facts under one name.                *)
LEMMA Counted ==
    ASSUME NEW n \in Nat, NEW T, Inductive(T, n)
    PROVE  0..n \subseteq T
BY Counting DEF Inductive

(* A function defined by recursion on 0..n exists: the iterates of g.      *)
Iterated(S, a, g, n) ==
    \E f \in [0..n -> S] : \A k \in 0..n : f[k] = IF k = 0 THEN a ELSE g[f[k - 1]]

(* The iterates exist, of any length: by induction on it.                  *)
LEMMA Iterates ==
    ASSUME NEW S, NEW a \in S, NEW g \in [S -> S], NEW n \in Nat
    PROVE  Iterated(S, a, g, n)
<1> DEFINE Is(f, m) == \A k \in 0..m : f[k] = IF k = 0 THEN a ELSE g[f[k - 1]]
           T == {m \in Nat : \E f \in [0..m -> S] : Is(f, m)}
<1>1. 0 \in T
  <2> DEFINE f == [k \in 0..0 |-> a]
  <2>1. f \in [0..0 -> S] /\ Is(f, 0)
    OBVIOUS
  <2> HIDE DEF f, Is
  <2> QED BY <2>1
<1>2. ASSUME NEW m \in 1..n, m - 1 \in T PROVE m \in T
  <2>1. PICK f \in [0..m - 1 -> S] : Is(f, m - 1)
    BY <1>2
  <2> DEFINE more == [k \in 0..m |-> IF k = m THEN g[f[m - 1]] ELSE f[k]]
  <2>2. f[m - 1] \in S
    OBVIOUS
  <2>3. more \in [0..m -> S]
    BY <2>2
  <2>4. \A k \in 0..m - 1 : more[k] = f[k]
    OBVIOUS
  <2>5. more[m] = g[f[m - 1]]
    OBVIOUS
  <2> HIDE DEF more
  <2>6. Is(more, m)
    <3> SUFFICES ASSUME NEW k \in 0..m
                 PROVE  more[k] = IF k = 0 THEN a ELSE g[more[k - 1]]
      OBVIOUS
    <3>1. CASE k = m
      BY <3>1, <2>4, <2>5
    <3>2. CASE k # m
      BY <3>2, <2>1, <2>4
    <3> QED BY <3>1, <3>2
  <2> HIDE DEF Is
  <2> QED BY <2>3, <2>6
<1>3. n \in T
  <2> HIDE DEF T
  <2>1. 0..n \subseteq T
    BY <1>1, <1>2, Counting
  <2> QED BY <2>1
<1> QED BY <1>3 DEF Iterated

(* Parts of a sequence.                                                    *)
LEMMA Part ==
    ASSUME NEW A, NEW s \in Seq(A), NEW i \in Nat \ {0}, NEW j \in Nat, j <= Len(s)
    PROVE  /\ SubSeq(s, i, j) \in Seq(A)
           /\ Len(SubSeq(s, i, j)) = IF i <= j THEN j - i + 1 ELSE 0
           /\ \A k \in 1..j - i + 1 : SubSeq(s, i, j)[k] = s[i + k - 1]
<1>1. \A k \in i..j : s[k] \in A
  OBVIOUS
<1> QED BY <1>1, SubSeqProperties

(* Two adjoining parts of a sequence make one.                             *)
LEMMA Parts ==
    ASSUME NEW s \in Seq(Nat), NEW d \in Nat, NEW g \in Nat, NEW end \in Nat,
           d <= g, g <= end, end <= Len(s)
    PROVE  /\ SubSeq(s, d + 1, g) \in Seq(Nat) /\ Len(SubSeq(s, d + 1, g)) = g - d
           /\ SubSeq(s, d + 1, g) \o SubSeq(s, g + 1, end) = SubSeq(s, d + 1, end)
<1>1. d + 1 \in Nat \ {0} /\ g + 1 \in Nat \ {0} /\ g <= Len(s)
  OBVIOUS
<1>2. /\ SubSeq(s, d + 1, g) \in Seq(Nat)
      /\ Len(SubSeq(s, d + 1, g)) = IF d + 1 <= g THEN g - (d + 1) + 1 ELSE 0
  BY <1>1, Part
<1>3. Len(SubSeq(s, d + 1, g)) = g - d
  <2> DEFINE l == Len(SubSeq(s, d + 1, g))
  <2>1. l = IF d + 1 <= g THEN g - (d + 1) + 1 ELSE 0
    BY <1>2
  <2> HIDE DEF l
  <2> QED BY <2>1
<1>4. d + 1 \in 1..Len(s) + 1 /\ g \in (d + 1) - 1..Len(s) /\ end \in g..Len(s)
  OBVIOUS
<1> QED BY <1>2, <1>3, <1>4, ConcatAdjacentSubSeq

(* The start of a sequence and the part behind it make a longer start.     *)
LEMMA PartsOfStart ==
    ASSUME NEW s \in Seq(Nat), NEW d \in Nat, NEW end \in Nat, d <= end, end <= Len(s)
    PROVE  /\ SubSeq(s, 1, d) \in Seq(Nat) /\ Len(SubSeq(s, 1, d)) = d
           /\ SubSeq(s, 1, d) \o SubSeq(s, d + 1, end) = SubSeq(s, 1, end)
<1>1. 0 \in Nat /\ 0 <= d /\ 0 + 1 = 1 /\ d - 0 = d
  OBVIOUS
<1>2. /\ SubSeq(s, 0 + 1, d) \in Seq(Nat) /\ Len(SubSeq(s, 0 + 1, d)) = d - 0
      /\ SubSeq(s, 0 + 1, d) \o SubSeq(s, d + 1, end) = SubSeq(s, 0 + 1, end)
  BY <1>1, Parts
<1> QED BY <1>1, <1>2

(* The type and the length of a part.                                      *)
LEMMA PartIs ==
    ASSUME NEW s \in Seq(Nat), NEW d \in Nat, NEW g \in Nat, d <= g, g <= Len(s)
    PROVE  SubSeq(s, d + 1, g) \in Seq(Nat) /\ Len(SubSeq(s, d + 1, g)) = g - d
<1> QED BY Parts

(* A part of a start of a sequence is a part of the sequence.              *)
LEMMA PartOfPart ==
    ASSUME NEW s \in Seq(Nat), NEW g \in Nat, g <= Len(s), NEW i \in Nat, NEW j \in Nat,
           i <= j, j <= g
    PROVE  SubSeq(SubSeq(s, 1, g), i + 1, j) = SubSeq(s, i + 1, j)
<1>1. PICK t : t = SubSeq(s, 1, g)
  OBVIOUS
<1>2. t \in Seq(Nat) /\ Len(t) = g
  BY <1>1, PartsOfStart
<1>3. /\ SubSeq(s, i + 1, j) \in Seq(Nat) /\ Len(SubSeq(s, i + 1, j)) = j - i
      /\ SubSeq(t, i + 1, j) \in Seq(Nat) /\ Len(SubSeq(t, i + 1, j)) = j - i
  <2>1. j <= Len(s) /\ j <= Len(t)
    BY <1>2
  <2> QED BY <1>2, <2>1, PartIs
<1>4. ASSUME NEW k \in 1..j - i PROVE SubSeq(t, i + 1, j)[k] = SubSeq(s, i + 1, j)[k]
  <2>1. i + 1 \in Nat \ {0} /\ j <= Len(s) /\ j <= Len(t) /\ k \in 1..j - (i + 1) + 1
    BY <1>2
  <2>2. SubSeq(s, i + 1, j)[k] = s[i + 1 + k - 1]
    BY <2>1, Part
  <2>3. SubSeq(t, i + 1, j)[k] = t[i + 1 + k - 1]
    BY <1>2, <2>1, Part
  <2>4. i + 1 + k - 1 \in 1..g - 1 + 1 /\ 1 \in Nat \ {0}
    OBVIOUS
  <2>5. SubSeq(s, 1, g)[i + 1 + k - 1] = s[1 + (i + 1 + k - 1) - 1]
    BY <2>4, Part
  <2> QED BY <1>1, <2>2, <2>3, <2>5
<1> QED BY <1>1, <1>3, <1>4, SeqEqual

-----------------------------------------------------------------------------
(* The states of a BufferedReadSeeker.                                     *)
Readers ==
    [src : Seq(Nat), got : Nat, buf : Seq(Nat), bytesRead : Nat, index : Nat,
     temp : BOOLEAN, file : Seq(Nat), foff : Nat, disk : Nat, total : Nat, known : BOOLEAN]

Reads == [br : Readers, out : Seq(Nat), eof : BOOLEAN]

(* What has been read of stream s is in the file, up to disk, and in the   *)
(* buffer.                                                                 *)
Base(b, s) ==
    /\ b \in Readers /\ b.src = s /\ b.got <= Len(s) /\ b.bytesRead = b.got
    /\ b.disk <= b.got /\ b.foff = b.disk /\ b.got - b.disk < Threshold
    /\ b.file = SubSeq(s, 1, b.disk) /\ b.buf = SubSeq(s, b.disk + 1, b.got)
    /\ b.disk = 0 <=> ~b.temp
    /\ b.temp => Threshold <= b.disk

KnownRight(b, s) == b.known => b.got = Len(s) /\ b.total = Len(s)

(* All of the stream is on disk.                                           *)
OnDisk(b, s) ==
    /\ b \in Readers /\ b.src = s /\ b.temp /\ b.known
    /\ b.file = s /\ b.total = Len(s) /\ b.index <= Len(s)
    /\ b.bytesRead = Len(s)

(* The types of a reader's fields.                                         *)
LEMMA Fields ==
    ASSUME NEW b \in Readers
    PROVE  /\ b.src \in Seq(Nat) /\ b.buf \in Seq(Nat) /\ b.file \in Seq(Nat)
           /\ b.got \in Nat /\ b.bytesRead \in Nat /\ b.index \in Nat /\ b.foff \in Nat
           /\ b.disk \in Nat /\ b.total \in Nat /\ b.temp \in BOOLEAN /\ b.known \in BOOLEAN
BY DEF Readers

(* The reader has taken the stream's units up to end.                      *)
Got(b, end, j) == [b EXCEPT !.got = end, !.index = j]

(* What writeData leaves of a reader whose source gave its next units: in  *)
(* the buffer, or in the file once the threshold is reached.               *)
LEMMA Wrote ==
    ASSUME NEW s \in Seq(Nat), NEW b \in Readers, Base(b, s),
           NEW end \in Nat, b.got <= end, end <= Len(s), NEW j \in Nat,
           NEW x, x = Got(b, end, j),
           NEW w, w = R!WriteData(x, SubSeq(s, b.got + 1, end))
    PROVE  /\ w \in Readers /\ Base(w, s) /\ w.got = end /\ w.index = j
           /\ w.known = b.known /\ w.total = b.total
           /\ end - b.disk < Threshold => w.temp = b.temp
<1>0. Threshold \in Nat \ {0} /\ Len(s) \in Nat
  BY SeekerAssumption
<1>1. /\ x \in Readers /\ x.got = end /\ x.index = j /\ x.src = b.src
      /\ x.buf = b.buf /\ x.bytesRead = b.bytesRead /\ x.temp = b.temp /\ x.file = b.file
      /\ x.foff = b.foff /\ x.disk = b.disk /\ x.total = b.total /\ x.known = b.known
  BY DEF Readers, Got
<1>2. /\ b.src = s /\ b.got <= Len(s) /\ b.bytesRead = b.got
      /\ b.disk <= b.got /\ b.foff = b.disk /\ b.file = SubSeq(s, 1, b.disk)
      /\ b.buf = SubSeq(s, b.disk + 1, b.got) /\ (b.disk = 0 <=> ~b.temp)
      /\ b.temp => Threshold <= b.disk
      /\ b.got \in Nat /\ b.disk \in Nat
  BY Fields DEF Base
<1>3. PICK units, all : units = SubSeq(s, b.got + 1, end) /\ all = SubSeq(s, b.disk + 1, end)
  OBVIOUS
<1>4. PICK g, d : g = b.got /\ d = b.disk
  OBVIOUS
<1>5. g \in Nat /\ d \in Nat /\ d <= g /\ g <= end
  BY <1>2, <1>4
<1>6. /\ SubSeq(s, g + 1, end) \in Seq(Nat) /\ Len(SubSeq(s, g + 1, end)) = end - g
      /\ SubSeq(s, d + 1, g) \o SubSeq(s, g + 1, end) = SubSeq(s, d + 1, end)
      /\ SubSeq(s, d + 1, end) \in Seq(Nat) /\ Len(SubSeq(s, d + 1, end)) = end - d
      /\ SubSeq(s, 1, d) \in Seq(Nat) /\ Len(SubSeq(s, 1, d)) = d
      /\ SubSeq(s, 1, end) \in Seq(Nat)
      /\ SubSeq(s, 1, d) \o SubSeq(s, d + 1, end) = SubSeq(s, 1, end)
  <2>1. d <= end /\ end <= end /\ end \in Nat
    BY <1>5
  <2>2. /\ SubSeq(s, g + 1, end) \in Seq(Nat) /\ Len(SubSeq(s, g + 1, end)) = end - g
        /\ SubSeq(s, d + 1, end) \in Seq(Nat) /\ Len(SubSeq(s, d + 1, end)) = end - d
    BY <1>5, <2>1, PartIs
  <2>3. SubSeq(s, d + 1, g) \o SubSeq(s, g + 1, end) = SubSeq(s, d + 1, end)
    BY <1>5, <2>1, Parts
  <2>4. /\ SubSeq(s, 1, d) \in Seq(Nat) /\ Len(SubSeq(s, 1, d)) = d
        /\ SubSeq(s, 1, end) \in Seq(Nat)
        /\ SubSeq(s, 1, d) \o SubSeq(s, d + 1, end) = SubSeq(s, 1, end)
    BY <1>5, <2>1, PartsOfStart
  <2> QED BY <2>2, <2>3, <2>4
<1>7. /\ units \in Seq(Nat) /\ Len(units) = end - g /\ all = x.buf \o units
      /\ all \in Seq(Nat) /\ Len(all) = end - d
  <2>1. units = SubSeq(s, g + 1, end) /\ all = SubSeq(s, d + 1, end)
    BY <1>3, <1>4
  <2>2. x.buf = SubSeq(s, d + 1, g)
    BY <1>1, <1>2, <1>4
  <2> QED BY <1>6, <2>1, <2>2
<1>8. PICK y : y = [x EXCEPT !.buf = all, !.bytesRead = end]
  OBVIOUS
<1>9. /\ y \in Readers /\ y.buf = all /\ y.bytesRead = end
      /\ y.got = end /\ y.index = j /\ y.src = x.src /\ y.disk = x.disk /\ y.foff = x.foff
      /\ y.file = x.file /\ y.temp = x.temp /\ y.known = x.known /\ y.total = x.total
  <2>1. x \in Readers /\ all \in Seq(Nat) /\ end \in Nat
    BY <1>1, <1>7
  <2>2. /\ y \in Readers /\ y.buf = all /\ y.bytesRead = end
        /\ y.got = x.got /\ y.index = x.index /\ y.src = x.src /\ y.disk = x.disk
        /\ y.foff = x.foff /\ y.file = x.file /\ y.temp = x.temp /\ y.known = x.known
        /\ y.total = x.total
    BY <1>8, <2>1 DEF Readers
  <2> QED BY <1>1, <2>2
<1>10. PICK z : z = [y EXCEPT !.temp = TRUE]
  OBVIOUS
<1>11. w = IF Len(y.buf) < Threshold THEN y ELSE R!Flush(z)
  <2>1. x.bytesRead + Len(units) = end
    <3>1. x.bytesRead = g
      BY <1>1, <1>2, <1>4
    <3> QED BY <1>5, <1>7, <3>1
  <2>2. y = [x EXCEPT !.buf = x.buf \o units, !.bytesRead = x.bytesRead + Len(units)]
    BY <1>7, <1>8, <2>1
  <2> QED BY <1>3, <1>10, <2>2 DEF R!WriteData
<1>12. CASE end - d < Threshold
  <2>1. w = y
    BY <1>7, <1>9, <1>11, <1>12
  <2>2. d <= end
    BY <1>5
  <2>3. Base(w, s)
    BY <1>1, <1>2, <1>3, <1>4, <1>9, <1>12, <2>1, <2>2 DEF Base
  <2> QED BY <1>1, <1>9, <2>1, <2>3
<1>13. CASE ~(end - d < Threshold)
  <2>1. w = R!Flush(z)
    BY <1>7, <1>9, <1>11, <1>13
  <2>2. /\ z \in Readers /\ z.temp = TRUE /\ z.buf = y.buf /\ z.bytesRead = y.bytesRead
        /\ z.got = y.got /\ z.index = y.index /\ z.src = y.src /\ z.disk = y.disk /\ z.foff = y.foff
        /\ z.file = y.file /\ z.known = y.known /\ z.total = y.total
    BY <1>9, <1>10 DEF Readers
  <2>3. z.foff = d /\ z.disk = d /\ z.buf = all /\ z.file = SubSeq(s, 1, d)
    BY <1>1, <1>2, <1>4, <1>9, <2>2
  <2>4. z.foff + Len(z.buf) = end /\ z.disk + Len(z.buf) = end
    BY <1>5, <1>7, <2>3
  <2>5. PICK whole : whole = SubSeq(z.file, 1, z.foff) \o z.buf
                                 \o SubSeq(z.file, end + 1, Len(z.file))
    OBVIOUS
  <2>6. whole = SubSeq(s, 1, end) /\ whole \in Seq(Nat)
    <3>1. z.file \in Seq(Nat) /\ Len(z.file) = d
      BY <1>6, <2>3
    <3>2. SubSeq(z.file, 1, z.foff) = z.file
      BY <2>3, <3>1, SubSeqFull
    <3>3. SubSeq(z.file, end + 1, Len(z.file)) = <<>>
      <4>1. end + 1 \in Int /\ d \in Int /\ d < end + 1
        BY <1>5
      <4> QED BY <3>1, <4>1, SubSeqEmpty
    <3>4. z.file \o z.buf = SubSeq(s, 1, end)
      BY <1>3, <1>4, <1>6, <2>3
    <3> QED BY <1>6, <2>5, <3>2, <3>3, <3>4, ConcatEmptySeq
  <2>7. w = [z EXCEPT !.file = whole, !.foff = end, !.disk = end, !.buf = <<>>]
    BY <2>1, <2>4, <2>5 DEF R!Flush
  <2>8. SubSeq(s, end + 1, end) = <<>> /\ <<>> \in Seq(Nat)
    BY SubSeqEmpty, EmptySeq
  <2>9. /\ w \in Readers /\ w.temp = z.temp /\ w.buf = <<>> /\ w.bytesRead = z.bytesRead
        /\ w.got = z.got /\ w.index = z.index /\ w.src = z.src /\ w.disk = end /\ w.foff = end
        /\ w.file = whole /\ w.known = z.known /\ w.total = z.total
    <3>1. PICK none : none = <<>>
      OBVIOUS
    <3>2. w = [z EXCEPT !.file = whole, !.foff = end, !.disk = end, !.buf = none]
      BY <2>7, <3>1
    <3>3. z \in Readers /\ whole \in Seq(Nat) /\ none \in Seq(Nat) /\ end \in Nat
      BY <2>2, <2>6, <2>8, <3>1
    <3>4. /\ w \in Readers /\ w.temp = z.temp /\ w.buf = none /\ w.bytesRead = z.bytesRead
          /\ w.got = z.got /\ w.index = z.index /\ w.src = z.src /\ w.disk = end /\ w.foff = end
          /\ w.file = whole /\ w.known = z.known /\ w.total = z.total
      BY <3>2, <3>3 DEF Readers
    <3> QED BY <3>1, <3>4
  <2>10. Threshold <= end /\ end - end < Threshold /\ end # 0 /\ end <= Len(s)
    BY <1>0, <1>5, <1>13
  <2>11. /\ w.temp = TRUE /\ w.bytesRead = end /\ w.got = end /\ w.index = j /\ w.src = s
         /\ w.known = b.known /\ w.total = b.total
    BY <1>1, <1>2, <1>9, <2>2, <2>9
  <2>12. Base(w, s)
    <3>1. w.buf = SubSeq(s, w.disk + 1, w.got) /\ w.file = SubSeq(s, 1, w.disk)
      BY <2>6, <2>8, <2>9, <2>11
    <3>2. w.disk <= w.got /\ w.got - w.disk < Threshold /\ w.got <= Len(s) /\ Threshold <= w.disk
      BY <2>9, <2>10, <2>11
    <3>3. w.disk # 0 /\ w.foff = w.disk
      BY <2>9, <2>10
    <3> QED BY <2>9, <2>11, <3>1, <3>2, <3>3 DEF Base
  <2> QED BY <1>4, <1>13, <2>9, <2>11, <2>12
<1> QED BY <1>4, <1>12, <1>13

(* The loops of the reader are recursive functions: each runs, inside any  *)
(* set its step stays in.                                                  *)
RestRuns(S, b, n) ==
    \E f \in [0..Len(b.src) + 1 -> S] :
        /\ f[0] = R!NothingYet(b) /\ \A k \in 1..Len(b.src) + 1 : f[k] = R!ReadMore(f[k - 1], n)
        /\ R!Rest(b, n) = f[Len(b.src) + 1].out

(* The loop that reads a unit at a time to the end of the stream.          *)
LEMMA RestLoop ==
    ASSUME NEW S, NEW b, NEW n, Len(b.src) + 1 \in Nat,
           R!NothingYet(b) \in S, \A x \in S : R!ReadMore(x, n) \in S
    PROVE  RestRuns(S, b, n)
<1> DEFINE m == Len(b.src) + 1
           a == R!NothingYet(b)
           Step(x) == R!ReadMore(x, n)
           g == [x \in S |-> Step(x)]
           Chosen == CHOOSE f : f = [k \in 0..m |-> IF k = 0 THEN a ELSE Step(f[k - 1])]
<1>1. m \in Nat /\ a \in S /\ g \in [S -> S] /\ \A x \in S : g[x] = Step(x) /\ Step(x) \in S
  OBVIOUS
<1>2. R!Rest(b, n) = Chosen[Len(b.src) + 1].out
  BY DEF R!Rest
<1> HIDE DEF m, a, g, Step
<1>3. Iterated(S, a, g, m)
  BY <1>1, Iterates
<1>4. PICK q \in [0..m -> S] : \A k \in 0..m : q[k] = IF k = 0 THEN a ELSE g[q[k - 1]]
  BY <1>3 DEF Iterated
<1>5. ASSUME NEW k \in 0..m, k # 0 PROVE g[q[k - 1]] = Step(q[k - 1])
  <2>1. k - 1 \in 0..m
    BY <1>1, <1>5
  <2> QED BY <1>1, <2>1
<1>6. q = [k \in 0..m |-> IF k = 0 THEN a ELSE Step(q[k - 1])]
  BY <1>4, <1>5
<1>7. Chosen = [k \in 0..m |-> IF k = 0 THEN a ELSE Step(Chosen[k - 1])]
  BY <1>6
<1>8. PICK f : f = Chosen
  OBVIOUS
<1> HIDE DEF Chosen
<1>9. /\ f = [k \in 0..m |-> f[k]] /\ f[0] = a
      /\ \A k \in 1..m : f[k] = Step(f[k - 1]) /\ k - 1 \in 0..m /\ k \in 0..m
  <2>1. f = [k \in 0..m |-> IF k = 0 THEN a ELSE Step(f[k - 1])]
    BY <1>7, <1>8
  <2>2. f = [k \in 0..m |-> f[k]] /\ \A k \in 0..m : f[k] = IF k = 0 THEN a ELSE Step(f[k - 1])
    BY <2>1
  <2>3. 0 \in 0..m /\ \A k \in 1..m : k # 0 /\ k - 1 \in 0..m /\ k \in 0..m
    BY <1>1
  <2> QED BY <2>2, <2>3
<1>10. 0..m \subseteq {k \in 0..m : f[k] \in S}
  <2> DEFINE T == {k \in 0..m : f[k] \in S}
  <2>1. 0 \in T
    BY <1>1, <1>9
  <2>2. ASSUME NEW k \in 1..m, k - 1 \in T PROVE k \in T
    BY <1>1, <1>9, <2>2
  <2> HIDE DEF T
  <2>3. PICK c \in Nat : c = m
    BY <1>1
  <2>4. Inductive(T, c)
    BY <2>1, <2>2, <2>3 DEF Inductive
  <2>5. 0..c \subseteq T
    BY <2>4, Counted
  <2> QED BY <2>3, <2>5 DEF T
<1>11. f \in [0..m -> S]
  BY <1>9, <1>10
<1>12. R!Rest(b, n) = f[Len(b.src) + 1].out
  BY <1>2, <1>8
<1> QED BY <1>9, <1>11, <1>12 DEF RestRuns, m, a, Step

FullRuns(S, b, n) ==
    \E f \in [0..n -> S] :
        /\ f[0] = R!NothingYet(b) /\ \A k \in 1..n : f[k] = R!ReadOn(f[k - 1], n)
        /\ R!ReadFull(b, n) = f[n]

(* The loop of io.ReadFull.                                                *)
LEMMA FullLoop ==
    ASSUME NEW S, NEW b, NEW n, n \in Nat,
           R!NothingYet(b) \in S, \A x \in S : R!ReadOn(x, n) \in S
    PROVE  FullRuns(S, b, n)
<1> DEFINE m == n
           a == R!NothingYet(b)
           Step(x) == R!ReadOn(x, n)
           g == [x \in S |-> Step(x)]
           Chosen == CHOOSE f : f = [k \in 0..m |-> IF k = 0 THEN a ELSE Step(f[k - 1])]
<1>1. m \in Nat /\ a \in S /\ g \in [S -> S] /\ \A x \in S : g[x] = Step(x) /\ Step(x) \in S
  OBVIOUS
<1>2. R!ReadFull(b, n) = Chosen[n]
  BY DEF R!ReadFull
<1> HIDE DEF m, a, g, Step
<1>3. Iterated(S, a, g, m)
  BY <1>1, Iterates
<1>4. PICK q \in [0..m -> S] : \A k \in 0..m : q[k] = IF k = 0 THEN a ELSE g[q[k - 1]]
  BY <1>3 DEF Iterated
<1>5. ASSUME NEW k \in 0..m, k # 0 PROVE g[q[k - 1]] = Step(q[k - 1])
  <2>1. k - 1 \in 0..m
    BY <1>1, <1>5
  <2> QED BY <1>1, <2>1
<1>6. q = [k \in 0..m |-> IF k = 0 THEN a ELSE Step(q[k - 1])]
  BY <1>4, <1>5
<1>7. Chosen = [k \in 0..m |-> IF k = 0 THEN a ELSE Step(Chosen[k - 1])]
  BY <1>6
<1>8. PICK f : f = Chosen
  OBVIOUS
<1> HIDE DEF Chosen
<1>9. /\ f = [k \in 0..m |-> f[k]] /\ f[0] = a
      /\ \A k \in 1..m : f[k] = Step(f[k - 1]) /\ k - 1 \in 0..m /\ k \in 0..m
  <2>1. f = [k \in 0..m |-> IF k = 0 THEN a ELSE Step(f[k - 1])]
    BY <1>7, <1>8
  <2>2. f = [k \in 0..m |-> f[k]] /\ \A k \in 0..m : f[k] = IF k = 0 THEN a ELSE Step(f[k - 1])
    BY <2>1
  <2>3. 0 \in 0..m /\ \A k \in 1..m : k # 0 /\ k - 1 \in 0..m /\ k \in 0..m
    BY <1>1
  <2> QED BY <2>2, <2>3
<1>10. 0..m \subseteq {k \in 0..m : f[k] \in S}
  <2> DEFINE T == {k \in 0..m : f[k] \in S}
  <2>1. 0 \in T
    BY <1>1, <1>9
  <2>2. ASSUME NEW k \in 1..m, k - 1 \in T PROVE k \in T
    BY <1>1, <1>9, <2>2
  <2> HIDE DEF T
  <2>3. PICK c \in Nat : c = m
    BY <1>1
  <2>4. Inductive(T, c)
    BY <2>1, <2>2, <2>3 DEF Inductive
  <2>5. 0..c \subseteq T
    BY <2>4, Counted
  <2> QED BY <2>3, <2>5 DEF T
<1>11. f \in [0..m -> S]
  BY <1>9, <1>10
<1>12. R!ReadFull(b, n) = f[n]
  BY <1>2, <1>8
<1> QED BY <1>9, <1>11, <1>12 DEF FullRuns, m, a, Step

UntilRuns(S, b, target) ==
    \E f \in [0..Len(b.src) + target + 1 -> S] :
        /\ f[0] = [br |-> b, more |-> TRUE]
        /\ \A k \in 1..Len(b.src) + target + 1 : f[k] = R!UntilOn(f[k - 1], target)
        /\ R!ReadUntil(b, target) = f[Len(b.src) + target + 1].br

(* The loop of readUntil.                                                  *)
LEMMA UntilLoop ==
    ASSUME NEW S, NEW b, NEW target, Len(b.src) + target + 1 \in Nat,
           [br |-> b, more |-> TRUE] \in S, \A x \in S : R!UntilOn(x, target) \in S
    PROVE  UntilRuns(S, b, target)
<1> DEFINE m == Len(b.src) + target + 1
           a == [br |-> b, more |-> TRUE]
           Step(x) == R!UntilOn(x, target)
           g == [x \in S |-> Step(x)]
           Chosen == CHOOSE f : f = [k \in 0..m |-> IF k = 0 THEN a ELSE Step(f[k - 1])]
<1>1. m \in Nat /\ a \in S /\ g \in [S -> S] /\ \A x \in S : g[x] = Step(x) /\ Step(x) \in S
  OBVIOUS
<1>2. R!ReadUntil(b, target) = Chosen[Len(b.src) + target + 1].br
  BY DEF R!ReadUntil
<1> HIDE DEF m, a, g, Step
<1>3. Iterated(S, a, g, m)
  BY <1>1, Iterates
<1>4. PICK q \in [0..m -> S] : \A k \in 0..m : q[k] = IF k = 0 THEN a ELSE g[q[k - 1]]
  BY <1>3 DEF Iterated
<1>5. ASSUME NEW k \in 0..m, k # 0 PROVE g[q[k - 1]] = Step(q[k - 1])
  <2>1. k - 1 \in 0..m
    BY <1>1, <1>5
  <2> QED BY <1>1, <2>1
<1>6. q = [k \in 0..m |-> IF k = 0 THEN a ELSE Step(q[k - 1])]
  BY <1>4, <1>5
<1>7. Chosen = [k \in 0..m |-> IF k = 0 THEN a ELSE Step(Chosen[k - 1])]
  BY <1>6
<1>8. PICK f : f = Chosen
  OBVIOUS
<1> HIDE DEF Chosen
<1>9. /\ f = [k \in 0..m |-> f[k]] /\ f[0] = a
      /\ \A k \in 1..m : f[k] = Step(f[k - 1]) /\ k - 1 \in 0..m /\ k \in 0..m
  <2>1. f = [k \in 0..m |-> IF k = 0 THEN a ELSE Step(f[k - 1])]
    BY <1>7, <1>8
  <2>2. f = [k \in 0..m |-> f[k]] /\ \A k \in 0..m : f[k] = IF k = 0 THEN a ELSE Step(f[k - 1])
    BY <2>1
  <2>3. 0 \in 0..m /\ \A k \in 1..m : k # 0 /\ k - 1 \in 0..m /\ k \in 0..m
    BY <1>1
  <2> QED BY <2>2, <2>3
<1>10. 0..m \subseteq {k \in 0..m : f[k] \in S}
  <2> DEFINE T == {k \in 0..m : f[k] \in S}
  <2>1. 0 \in T
    BY <1>1, <1>9
  <2>2. ASSUME NEW k \in 1..m, k - 1 \in T PROVE k \in T
    BY <1>1, <1>9, <2>2
  <2> HIDE DEF T
  <2>3. PICK c \in Nat : c = m
    BY <1>1
  <2>4. Inductive(T, c)
    BY <2>1, <2>2, <2>3 DEF Inductive
  <2>5. 0..c \subseteq T
    BY <2>4, Counted
  <2> QED BY <2>3, <2>5 DEF T
<1>11. f \in [0..m -> S]
  BY <1>9, <1>10
<1>12. R!ReadUntil(b, target) = f[Len(b.src) + target + 1].br
  BY <1>2, <1>8
<1> QED BY <1>9, <1>11, <1>12 DEF UntilRuns, m, a, Step

ToEndRuns(S, b) ==
    \E f \in [0..Len(b.src) -> S] :
        /\ f[0] = b /\ \A k \in 1..Len(b.src) : f[k] = R!CopyOn(f[k - 1])
        /\ R!ReadToEnd(b) = R!EndKnown(R!FlushRest(f[Len(b.src)]))

(* The loop of readToEnd, and what follows it.                             *)
LEMMA ToEndLoop ==
    ASSUME NEW S, NEW b, Len(b.src) \in Nat,
           b \in S, \A x \in S : R!CopyOn(x) \in S
    PROVE  ToEndRuns(S, b)
<1> DEFINE m == Len(b.src)
           a == b
           Step(x) == R!CopyOn(x)
           g == [x \in S |-> Step(x)]
           Chosen == CHOOSE f : f = [k \in 0..m |-> IF k = 0 THEN a ELSE Step(f[k - 1])]
<1>1. m \in Nat /\ a \in S /\ g \in [S -> S] /\ \A x \in S : g[x] = Step(x) /\ Step(x) \in S
  OBVIOUS
<1>2. R!ReadToEnd(b) = R!EndKnown(R!FlushRest(Chosen[Len(b.src)]))
  BY DEF R!ReadToEnd
<1> HIDE DEF m, a, g, Step
<1>3. Iterated(S, a, g, m)
  BY <1>1, Iterates
<1>4. PICK q \in [0..m -> S] : \A k \in 0..m : q[k] = IF k = 0 THEN a ELSE g[q[k - 1]]
  BY <1>3 DEF Iterated
<1>5. ASSUME NEW k \in 0..m, k # 0 PROVE g[q[k - 1]] = Step(q[k - 1])
  <2>1. k - 1 \in 0..m
    BY <1>1, <1>5
  <2> QED BY <1>1, <2>1
<1>6. q = [k \in 0..m |-> IF k = 0 THEN a ELSE Step(q[k - 1])]
  BY <1>4, <1>5
<1>7. Chosen = [k \in 0..m |-> IF k = 0 THEN a ELSE Step(Chosen[k - 1])]
  BY <1>6
<1>8. PICK f : f = Chosen
  OBVIOUS
<1> HIDE DEF Chosen
<1>9. /\ f = [k \in 0..m |-> f[k]] /\ f[0] = a
      /\ \A k \in 1..m : f[k] = Step(f[k - 1]) /\ k - 1 \in 0..m /\ k \in 0..m
  <2>1. f = [k \in 0..m |-> IF k = 0 THEN a ELSE Step(f[k - 1])]
    BY <1>7, <1>8
  <2>2. f = [k \in 0..m |-> f[k]] /\ \A k \in 0..m : f[k] = IF k = 0 THEN a ELSE Step(f[k - 1])
    BY <2>1
  <2>3. 0 \in 0..m /\ \A k \in 1..m : k # 0 /\ k - 1 \in 0..m /\ k \in 0..m
    BY <1>1
  <2> QED BY <2>2, <2>3
<1>10. 0..m \subseteq {k \in 0..m : f[k] \in S}
  <2> DEFINE T == {k \in 0..m : f[k] \in S}
  <2>1. 0 \in T
    BY <1>1, <1>9
  <2>2. ASSUME NEW k \in 1..m, k - 1 \in T PROVE k \in T
    BY <1>1, <1>9, <2>2
  <2> HIDE DEF T
  <2>3. PICK c \in Nat : c = m
    BY <1>1
  <2>4. Inductive(T, c)
    BY <2>1, <2>2, <2>3 DEF Inductive
  <2>5. 0..c \subseteq T
    BY <2>4, Counted
  <2> QED BY <2>3, <2>5 DEF T
<1>11. f \in [0..m -> S]
  BY <1>9, <1>10
<1>12. R!ReadToEnd(b) = R!EndKnown(R!FlushRest(f[Len(b.src)]))
  BY <1>2, <1>8
<1> QED BY <1>9, <1>11, <1>12 DEF ToEndRuns, m, a, Step

(* The reader moved to index i.                                            *)
At(b, i) == [b EXCEPT !.index = i]

(* A reader moved to another index is otherwise the same.                  *)
LEMMA AtFields ==
    ASSUME NEW b \in Readers, NEW i \in Nat
    PROVE  /\ At(b, i) \in Readers /\ At(b, i).index = i /\ At(b, i).src = b.src
           /\ At(b, i).got = b.got /\ At(b, i).buf = b.buf /\ At(b, i).bytesRead = b.bytesRead
           /\ At(b, i).temp = b.temp /\ At(b, i).file = b.file /\ At(b, i).foff = b.foff
           /\ At(b, i).disk = b.disk /\ At(b, i).total = b.total /\ At(b, i).known = b.known
<1>1. PICK x : x = At(b, i)
  OBVIOUS
<1>2. /\ x \in Readers /\ x.index = i /\ x.src = b.src
      /\ x.got = b.got /\ x.buf = b.buf /\ x.bytesRead = b.bytesRead
      /\ x.temp = b.temp /\ x.file = b.file /\ x.foff = b.foff
      /\ x.disk = b.disk /\ x.total = b.total /\ x.known = b.known
  BY <1>1 DEF At, Readers
<1> QED BY <1>1, <1>2

(* Moved to where it stands, a reader is the same.                         *)
LEMMA AtIndex ==
    ASSUME NEW b \in Readers
    PROVE  At(b, b.index) = b
BY DEF At, Readers

(* A move is forgotten with the next.                                      *)
LEMMA AtTwice ==
    ASSUME NEW b \in Readers, NEW i \in Nat, NEW end \in Nat, NEW j \in Nat
    PROVE  Got(At(b, i), end, j) = Got(b, end, j)
BY DEF At, Got, Readers

(* What Read returns of units at hand, and where it leaves the index.      *)
LEMMA GivenReads ==
    ASSUME NEW r \in Reads, NEW units \in Seq(Nat), NEW x, x = R!Given(r, units)
    PROVE  /\ x = [br |-> At(r.br, r.br.index + Len(units)), out |-> r.out \o units, eof |-> r.eof]
           /\ x \in Reads
<1>1. PICK j, all : j = r.br.index + Len(units) /\ all = r.out \o units
  OBVIOUS
<1>2. x = [r EXCEPT !.out = all, !.br.index = j]
  BY <1>1 DEF R!Given
<1>3. x = [br |-> [r.br EXCEPT !.index = j], out |-> all, eof |-> r.eof]
  BY <1>2 DEF Reads
<1>4. r.br \in Readers /\ r.out \in Seq(Nat) /\ r.eof \in BOOLEAN
  BY DEF Reads
<1>5. r.br.index \in Nat /\ Len(units) \in Nat
  BY <1>4, Fields
<1>6. j \in Nat /\ all \in Seq(Nat)
  BY <1>1, <1>4, <1>5
<1>7. At(r.br, j) \in Readers
  BY <1>4, <1>6, AtFields
<1>8. x = [br |-> At(r.br, j), out |-> all, eof |-> r.eof]
  BY <1>3 DEF At
<1>9. x \in Reads
  BY <1>4, <1>6, <1>7, <1>8 DEF Reads
<1> QED BY <1>1, <1>8, <1>9

(* What Slice takes, in a stream that is at hand from its start.           *)
LEMMA SliceIs ==
    ASSUME NEW s \in Seq(Nat), NEW i \in Nat, NEW n \in Nat
    PROVE  R!Slice(s, i, n) = SubSeq(s, i + 1, IF i + n < Len(s) THEN i + n ELSE Len(s))
BY DEF R!Slice, R!Least

-----------------------------------------------------------------------------
(* A reader whose index is where the stream was read up to, or that holds  *)
(* all it read in memory.                                                  *)
Reading(b, s) ==
    /\ Base(b, s) /\ KnownRight(b, s) /\ b.index <= b.got
    /\ b.temp => b.index = b.got

(* Read of a reader that has not all on disk: the next units, and the end  *)
(* of the stream at the end of the stream.                                 *)
LEMMA ReadsOn ==
    ASSUME NEW s \in Seq(Nat), NEW b \in Readers, Reading(b, s), ~(b.known /\ b.temp),
           NEW n \in Nat, NEW r, r = R!Read(b, n)
    PROVE  /\ r \in Reads /\ Reading(r.br, s)
           /\ r.br.index = IF b.index + n < Len(s) THEN b.index + n ELSE Len(s)
           /\ r.out = SubSeq(s, b.index + 1, r.br.index)
           /\ r.eof => r.br.index = Len(s)
           /\ b.index = Len(s) /\ n > 0 => r.eof
           /\ ~b.temp /\ (b.index + n < Threshold \/ Len(s) < Threshold) => ~r.br.temp
<1>0. Threshold \in Nat \ {0} /\ EOFWithData \in BOOLEAN /\ Len(s) \in Nat
  BY SeekerAssumption
<1>1. /\ b.src = s /\ b.got <= Len(s) /\ b.disk <= b.got
      /\ b.buf = SubSeq(s, b.disk + 1, b.got) /\ b.got - b.disk < Threshold
      /\ b.index <= b.got /\ (b.disk = 0 <=> ~b.temp)
      /\ b.temp => b.index = b.got /\ Threshold <= b.disk
      /\ b.got \in Nat /\ b.disk \in Nat /\ b.index \in Nat
      /\ KnownRight(b, s) /\ Base(b, s)
  BY Fields DEF Base, Reading
<1>2. PICK i, g, d : i = b.index /\ g = b.got /\ d = b.disk
  OBVIOUS
<1>3. i \in Nat /\ g \in Nat /\ d \in Nat /\ i <= g /\ d <= g /\ g <= Len(s)
  BY <1>1, <1>2
<1>4. PICK i1 : i1 = IF i + n < g THEN i + n ELSE g
  OBVIOUS
<1>5. i1 \in Nat /\ i <= i1 /\ i1 <= g
  BY <1>3, <1>4
<1>6. PICK r0, r1 : r0 = R!NothingYet(b) /\ r1 = R!FromBuffer(r0, n)
  OBVIOUS
<1>7. r0 \in Reads /\ r0.br = b /\ r0.out = <<>> /\ r0.eof = FALSE
  BY <1>6 DEF R!NothingYet, Reads
<1>8. b.buf = SubSeq(s, d + 1, g) /\ b.buf \in Seq(Nat) /\ Len(b.buf) = g - d
  <2>1. SubSeq(s, d + 1, g) \in Seq(Nat) /\ Len(SubSeq(s, d + 1, g)) = g - d
    BY <1>3, PartIs
  <2>2. b.buf = SubSeq(s, d + 1, g)
    BY <1>1, <1>2
  <2> QED BY <2>1, <2>2
(* From the buffer.                                                        *)
<1>9. r1 = [br |-> At(b, i1), out |-> SubSeq(s, i + 1, i1), eof |-> FALSE] /\ r1 \in Reads
  <2>1. CASE b.index < Len(b.buf)
    <3>1. d = 0 /\ ~b.temp
      BY <1>0, <1>1, <1>2, <1>3, <1>8, <2>1
    <3>2. PICK units : units = R!Slice(b.buf, i, n)
      OBVIOUS
    <3>3. b.buf = SubSeq(s, 1, g) /\ Len(b.buf) = g
      BY <1>8, <3>1, <1>3
    <3>4. units = SubSeq(b.buf, i + 1, i1)
      BY <1>3, <1>4, <1>8, <3>2, <3>3, SliceIs
    <3>5. units = SubSeq(s, i + 1, i1) /\ units \in Seq(Nat) /\ Len(units) = i1 - i
      <4>1. SubSeq(s, i + 1, i1) \in Seq(Nat) /\ Len(SubSeq(s, i + 1, i1)) = i1 - i
        BY <1>3, <1>5, PartIs
      <4> QED BY <1>3, <1>5, <3>3, <3>4, <4>1, PartOfPart
    <3>6. r1 = R!Given(r0, units)
      BY <1>2, <1>6, <1>7, <2>1, <3>2 DEF R!FromBuffer
    <3>7. /\ r1 = [br |-> At(r0.br, r0.br.index + Len(units)), out |-> r0.out \o units, eof |-> r0.eof]
          /\ r1 \in Reads
      BY <1>7, <3>5, <3>6, GivenReads
    <3>8. r0.br.index + Len(units) = i1 /\ r0.out \o units = units
      BY <1>2, <1>3, <1>5, <1>7, <3>5, ConcatEmptySeq
    <3> QED BY <1>7, <3>5, <3>7, <3>8
  <2>2. CASE ~(b.index < Len(b.buf))
    <3>1. i = g
      <4>1. CASE b.temp
        BY <1>1, <1>2, <4>1
      <4>2. CASE ~b.temp
        <5>1. d = 0 /\ ~(i < g - d)
          BY <1>1, <1>2, <1>8, <2>2, <4>2
        <5> QED BY <1>3, <5>1
      <4> QED BY <4>1, <4>2
    <3>2. i1 = i /\ i1 = b.index
      BY <1>2, <1>3, <1>4, <3>1
    <3>3. SubSeq(s, i + 1, i1) = <<>>
      BY <1>3, <3>2, SubSeqEmpty
    <3>4. r1 = r0 /\ At(b, i1) = b
      BY <1>6, <1>7, <2>2, <3>2, AtIndex DEF R!FromBuffer
    <3> QED BY <1>6, <1>7, <3>3, <3>4 DEF R!NothingYet
  <2> QED BY <2>1, <2>2
(* Nothing from the file, whose end is behind the index.                   *)
<1>10. r1.br = At(b, i1) /\ r1.out = SubSeq(s, i + 1, i1) /\ r1.eof = FALSE /\ Len(r1.out) = i1 - i
  BY <1>3, <1>5, <1>9, PartIs
<1>11. /\ r1.br \in Readers /\ r1.br.index = i1 /\ r1.br.src = s /\ r1.br.got = g
       /\ r1.br.temp = b.temp /\ r1.br.disk = d
  <2>1. PICK a : a = At(b, i1)
    OBVIOUS
  <2>2. /\ a \in Readers /\ a.index = i1 /\ a.src = b.src /\ a.got = b.got
        /\ a.temp = b.temp /\ a.disk = b.disk
    BY <1>5, <2>1, AtFields
  <2>3. b.src = s
    BY <1>1
  <2> QED BY <1>2, <1>10, <2>1, <2>2, <2>3
<1>12. R!FromFile(r1, n) = r1 /\ ~R!Spans(r1, n)
  <2>1. b.temp => i1 = g
    BY <1>1, <1>2, <1>3, <1>4
  <2>2. ~(r1.br.temp /\ r1.br.index < r1.br.disk)
    BY <1>3, <1>11, <2>1
  <2> QED BY <2>2 DEF R!FromFile, R!Spans
<1>13. r = R!FromReader(r1, n)
  BY <1>6, <1>12 DEF R!Read
<1>14. PICK end : end = IF i + n < Len(s) THEN i + n ELSE Len(s)
  OBVIOUS
<1>15. end \in Nat /\ end <= Len(s) /\ i <= end /\ i1 <= end
  BY <1>0, <1>3, <1>4, <1>14
<1>16. CASE Len(r1.out) = n
  <2>1. r = r1
    BY <1>13, <1>16 DEF R!FromReader
  <2>2. i1 = i + n /\ i1 = end
    <3>1. i1 - i = n
      BY <1>10, <1>16
    <3> QED BY <1>3, <1>4, <1>5, <1>14, <3>1
  <2>3. Reading(r.br, s) /\ r.br.index = end /\ r.br.got = b.got /\ r.br.index <= b.got
    <3>1. /\ r.br.src = b.src /\ r.br.got = b.got /\ r.br.buf = b.buf /\ r.br.bytesRead = b.bytesRead
          /\ r.br.temp = b.temp /\ r.br.file = b.file /\ r.br.foff = b.foff
          /\ r.br.disk = b.disk /\ r.br.total = b.total /\ r.br.known = b.known
          /\ r.br \in Readers /\ r.br.index = i1
      <4>1. PICK a : a = At(b, i1)
        OBVIOUS
      <4>2. /\ a.src = b.src /\ a.got = b.got /\ a.buf = b.buf /\ a.bytesRead = b.bytesRead
            /\ a.temp = b.temp /\ a.file = b.file /\ a.foff = b.foff
            /\ a.disk = b.disk /\ a.total = b.total /\ a.known = b.known
            /\ a \in Readers /\ a.index = i1
        BY <1>5, <4>1, AtFields
      <4>3. r.br = a
        BY <1>10, <2>1, <4>1
      <4> QED BY <4>2, <4>3
    <3>2. Base(r.br, s) /\ KnownRight(r.br, s)
      BY <1>1, <3>1 DEF Base, KnownRight
    <3>3. r.br.index <= r.br.got /\ (r.br.temp => r.br.index = r.br.got)
      BY <1>1, <1>2, <1>3, <1>4, <1>5, <3>1
    <3> QED BY <1>2, <1>5, <2>2, <3>1, <3>2, <3>3 DEF Reading
  <2>4. ~(b.index = Len(s) /\ n > 0)
    BY <1>0, <1>2, <1>3, <1>5, <2>2
  <2>5. r.br.temp = b.temp
    BY <1>11, <2>1
  <2> QED BY <1>2, <1>9, <1>10, <1>14, <2>1, <2>2, <2>3, <2>4, <2>5
<1>17. CASE Len(r1.out) # n
  <2>1. i1 = g /\ i1 - i < n /\ g + (n - (i1 - i)) = i + n /\ n - (i1 - i) \in Nat
    BY <1>3, <1>4, <1>5, <1>10, <1>17
  <2>2. PICK units : units = SubSeq(s, g + 1, end)
    OBVIOUS
  <2>3. R!Slice(r1.br.src, r1.br.got, n - Len(r1.out)) = units
    <3>1. R!Slice(s, g, n - (i1 - i))
            = SubSeq(s, g + 1, IF g + (n - (i1 - i)) < Len(s) THEN g + (n - (i1 - i)) ELSE Len(s))
      BY <1>3, <2>1, SliceIs
    <3> QED BY <1>10, <1>11, <1>14, <2>1, <2>2, <3>1
  <2>4. units \in Seq(Nat) /\ Len(units) = end - g /\ g <= end
    BY <1>3, <1>15, <2>1, <2>2, PartIs
  <2>5. PICK w : w = R!WriteData(Got(b, end, end), units)
    OBVIOUS
  <2>6. r = R!Received(w, units, r1.out \o units)
    <3>1. r1.br.got + Len(units) = end /\ r1.br.index + Len(units) = end
      BY <1>3, <1>11, <1>15, <2>1, <2>4
    <3>2. Got(r1.br, end, end) = Got(b, end, end)
      BY <1>5, <1>10, <1>15, AtTwice
    <3>3. [r1.br EXCEPT !.got = r1.br.got + Len(units), !.index = r1.br.index + Len(units)] = Got(b, end, end)
      BY <3>1, <3>2 DEF Got
    <3> QED BY <1>13, <1>17, <2>3, <2>5, <3>3 DEF R!FromReader, R!ReceivedOn
  <2>7. /\ w \in Readers /\ Base(w, s) /\ w.got = end /\ w.index = end
        /\ w.known = b.known /\ w.total = b.total
        /\ end - b.disk < Threshold => w.temp = b.temp
    <3>1. b.got <= end
      BY <1>2, <2>4
    <3>2. Base(b, s) /\ w = R!WriteData(Got(b, end, end), SubSeq(s, b.got + 1, end))
      BY <1>1, <1>2, <2>2, <2>5
    <3>3. end \in Nat /\ end <= Len(s)
      BY <1>15
    <3> QED BY <3>1, <3>2, <3>3, Wrote
  <2>8. PICK taken : taken = r1.out \o units
    OBVIOUS
  <2>9. taken = SubSeq(s, i + 1, end) /\ taken \in Seq(Nat)
    <3>1. SubSeq(s, i + 1, g) \o SubSeq(s, g + 1, end) = SubSeq(s, i + 1, end)
      <4>1. i <= g /\ g <= end /\ end <= Len(s)
        BY <1>3, <1>15, <2>4
      <4> QED BY <1>3, <1>15, <4>1, Parts
    <3>2. SubSeq(s, i + 1, end) \in Seq(Nat)
      BY <1>3, <1>15, PartIs
    <3> QED BY <1>10, <2>1, <2>2, <2>8, <3>1, <3>2
  <2>12. PICK v : v = R!EndKnown(w)
    OBVIOUS
  <2>16. ~b.temp /\ (b.index + n < Threshold \/ Len(s) < Threshold) => ~w.temp
    <3>1. SUFFICES ASSUME ~b.temp, i + n < Threshold \/ Len(s) < Threshold PROVE ~w.temp
      BY <1>2
    <3>2. d = 0
      BY <1>1, <1>2, <3>1
    <3>3. end - d < Threshold
      BY <1>0, <1>3, <1>14, <3>1, <3>2
    <3> QED BY <1>2, <2>7, <3>1, <3>3
  <2>14. CASE R!AtEnd(w, units)
    <3>1. end = Len(s)
      BY <2>7, <2>14 DEF R!AtEnd, Base
    <3>2. v = [w EXCEPT !.total = w.bytesRead, !.known = TRUE] /\ w.bytesRead = end
      BY <2>7, <2>12 DEF R!EndKnown, Base
    <3>3. /\ v \in Readers /\ v.total = end /\ v.known = TRUE
          /\ v.index = w.index /\ v.src = w.src /\ v.got = w.got /\ v.buf = w.buf
          /\ v.bytesRead = w.bytesRead /\ v.temp = w.temp /\ v.file = w.file
          /\ v.foff = w.foff /\ v.disk = w.disk
      <4>1. v = [w EXCEPT !.total = end, !.known = TRUE]
        BY <3>2
      <4> QED BY <1>15, <2>7, <4>1 DEF Readers
    <3>4. Base(v, s)
      BY <2>7, <3>3 DEF Base
    <3>5. Reading(v, s)
      BY <1>15, <2>7, <3>1, <3>3, <3>4 DEF Reading, KnownRight
    <3>6. r = [br |-> v, out |-> taken, eof |-> TRUE]
      BY <2>6, <2>8, <2>12, <2>14 DEF R!Received
    <3>7. r \in Reads
      BY <2>9, <3>3, <3>6 DEF Reads
    <3>8. r.br.index = end /\ r.br.got = end /\ r.br.temp = w.temp /\ Reading(r.br, s) /\ r.out = taken
      BY <2>7, <3>3, <3>5, <3>6
    <3> QED BY <1>2, <1>14, <2>9, <2>16, <3>1, <3>6, <3>7, <3>8
  <2>15. CASE ~R!AtEnd(w, units)
    <3>1. r = [br |-> w, out |-> taken, eof |-> FALSE]
      <4>1. R!AtEnd(w, units) \in BOOLEAN
        BY DEF R!AtEnd
      <4>2. R!AtEnd(w, units) = FALSE
        BY <2>15, <4>1
      <4> QED BY <2>6, <2>8, <4>2 DEF R!Received
    <3>2. KnownRight(w, s)
      BY <1>1, <1>2, <1>3, <2>4, <2>7, <1>15 DEF KnownRight
    <3>3. Reading(w, s)
      BY <2>7, <1>15, <3>2 DEF Reading
    <3>4. r \in Reads
      BY <2>7, <2>9, <3>1 DEF Reads
    <3>5. ~(b.index = Len(s) /\ n > 0)
      <4>1. SUFFICES ASSUME i = Len(s) PROVE FALSE
        BY <1>2
      <4>2. end = Len(s) /\ g = Len(s) /\ units = <<>>
        BY <1>3, <1>15, <2>1, <2>4, <4>1
      <4> QED BY <2>7, <2>15, <4>2 DEF R!AtEnd, Base
    <3>6. r.br = w /\ r.out = taken /\ r.eof = FALSE
      BY <3>1
    <3> QED BY <1>2, <1>14, <2>7, <2>9, <2>16, <3>3, <3>4, <3>5, <3>6
  <2> QED BY <2>14, <2>15
<1> QED BY <1>16, <1>17

(* Read of a reader that has all on disk.                                  *)
LEMMA ReadsFile ==
    ASSUME NEW s \in Seq(Nat), NEW b \in Readers, OnDisk(b, s),
           NEW n \in Nat \ {0}, NEW r, r = R!Read(b, n)
    PROVE  /\ r \in Reads /\ OnDisk(r.br, s)
           /\ r.br.index = IF b.index + n < Len(s) THEN b.index + n ELSE Len(s)
           /\ r.out = SubSeq(s, b.index + 1, r.br.index)
           /\ r.eof => r.br.index = Len(s)
           /\ b.index = Len(s) => r.eof
<1>0. Len(s) \in Nat
  OBVIOUS
<1>1. /\ b.src = s /\ b.file = s /\ b.total = Len(s) /\ b.index <= Len(s) /\ b.bytesRead = Len(s)
      /\ b.index \in Nat /\ b.known = TRUE /\ b.temp = TRUE
  BY Fields DEF OnDisk
<1>2. PICK i : i = b.index
  OBVIOUS
<1>3. i \in Nat /\ i <= Len(s)
  BY <1>1, <1>2
<1>4. PICK r0 : r0 = R!NothingYet(b)
  OBVIOUS
<1>5. r0 \in Reads /\ r0.br = b /\ r0.out = <<>> /\ r0.eof = FALSE
  BY <1>4 DEF R!NothingYet, Reads
<1>6. r = R!FromFileOnly(r0, n)
  BY <1>1, <1>4 DEF R!Read
<1>7. CASE i >= Len(s)
  <2>1. r = [r0 EXCEPT !.eof = TRUE]
    BY <1>1, <1>2, <1>5, <1>6, <1>7 DEF R!FromFileOnly
  <2>2. r \in Reads /\ r.br = b /\ r.out = <<>> /\ r.eof = TRUE
    BY <1>5, <2>1 DEF Reads
  <2>3. i = Len(s) /\ SubSeq(s, i + 1, i) = <<>> /\ i = IF i + n < Len(s) THEN i + n ELSE Len(s)
    BY <1>3, <1>7, SubSeqEmpty
  <2> QED BY <1>2, <2>2, <2>3
<1>8. CASE ~(i >= Len(s))
  <2>1. PICK units : units = R!Slice(s, i, n)
    OBVIOUS
  <2>2. PICK end : end = IF i + n < Len(s) THEN i + n ELSE Len(s)
    OBVIOUS
  <2>3. end \in Nat /\ i <= end /\ end <= Len(s)
    BY <1>0, <1>3, <2>2
  <2>4. units = SubSeq(s, i + 1, end) /\ units \in Seq(Nat) /\ Len(units) = end - i
    <3>1. units = SubSeq(s, i + 1, end)
      BY <1>3, <2>1, <2>2, SliceIs
    <3>2. SubSeq(s, i + 1, end) \in Seq(Nat) /\ Len(SubSeq(s, i + 1, end)) = end - i
      BY <1>3, <2>3, PartIs
    <3> QED BY <3>1, <3>2
  <2>5. PICK x : x = R!Given(r0, units)
    OBVIOUS
  <2>6. /\ x = [br |-> At(r0.br, r0.br.index + Len(units)), out |-> r0.out \o units, eof |-> r0.eof]
        /\ x \in Reads
    BY <1>5, <2>4, <2>5, GivenReads
  <2>7. r0.br.index + Len(units) = end /\ r0.out \o units = units
    BY <1>2, <1>3, <1>5, <2>3, <2>4, ConcatEmptySeq
  <2>8. x = [br |-> At(b, end), out |-> units, eof |-> FALSE]
    BY <1>5, <2>6, <2>7
  <2>9. PICK a : a = At(b, end)
    OBVIOUS
  <2>10. /\ a \in Readers /\ a.index = end /\ a.src = b.src /\ a.total = b.total /\ a.file = b.file
         /\ a.temp = b.temp /\ a.known = b.known /\ a.bytesRead = b.bytesRead
    BY <2>3, <2>9, AtFields
  <2>11. PICK y : y = R!GivenFromFile(r0, i, units)
    OBVIOUS
  <2>12. y = [x EXCEPT !.br.foff = end]
    <3>1. i + Len(units) = end
      BY <1>3, <2>3, <2>4
    <3> QED BY <2>5, <2>11, <3>1 DEF R!GivenFromFile
  <2>13. y \in Reads /\ y.br = [a EXCEPT !.foff = end] /\ y.out = units /\ y.eof = FALSE
    <3>1. x.br = a /\ x.out = units /\ x.eof = FALSE
      BY <2>8, <2>9
    <3>2. y.br = [x.br EXCEPT !.foff = end] /\ y.out = x.out /\ y.eof = x.eof
      BY <2>6, <2>12 DEF Reads
    <3>3. [a EXCEPT !.foff = end] \in Readers
      BY <2>3, <2>10 DEF Readers
    <3>4. y = [br |-> [a EXCEPT !.foff = end], out |-> units, eof |-> FALSE]
      <4>1. y = [br |-> [x.br EXCEPT !.foff = end], out |-> x.out, eof |-> x.eof]
        BY <2>6, <2>12 DEF Reads
      <4> QED BY <3>1, <4>1
    <3> QED BY <2>4, <3>3, <3>4 DEF Reads
  <2>14. PICK c : c = [a EXCEPT !.foff = end]
    OBVIOUS
  <2>15. /\ c \in Readers /\ c.index = a.index /\ c.src = a.src /\ c.total = a.total /\ c.file = a.file
         /\ c.temp = a.temp /\ c.known = a.known /\ c.bytesRead = a.bytesRead
    BY <2>3, <2>10, <2>14 DEF Readers
  <2>16. r = [y EXCEPT !.eof = (units = <<>>)]
    <3>1. ~(b.index >= b.total)
      BY <1>1, <1>2, <1>8
    <3> QED BY <1>1, <1>2, <1>5, <1>6, <2>1, <2>11, <3>1 DEF R!FromFileOnly
  <2>17. r \in Reads /\ r.br = c /\ r.out = units /\ r.eof = FALSE
    <3>1. PICK last \in BOOLEAN : last = (units = <<>>)
      OBVIOUS
    <3>2. last = FALSE
      <4>1. Len(units) # 0
        BY <1>3, <1>8, <2>2, <2>4
      <4>2. units # <<>>
        BY <4>1
      <4> QED BY <3>1, <4>2
    <3>3. r = [y EXCEPT !.eof = FALSE]
      BY <2>16, <3>1, <3>2
    <3>4. r.br = y.br /\ r.out = y.out /\ r.eof = FALSE /\ r \in Reads
      BY <2>13, <3>3 DEF Reads
    <3> QED BY <2>13, <2>14, <3>4
  <2>18. OnDisk(c, s)
    BY <1>1, <2>3, <2>10, <2>15 DEF OnDisk
  <2>19. c.index = end /\ b.index = i
    BY <1>2, <2>10, <2>15
  <2>20. i # Len(s)
    BY <1>0, <1>3, <1>8
  <2> QED BY <2>2, <2>4, <2>17, <2>18, <2>19, <2>20
<1> QED BY <1>7, <1>8

-----------------------------------------------------------------------------
(* A reader that can be read to the end.                                   *)
Readable(b, s) == Reading(b, s) \/ OnDisk(b, s)

(* Read of one unit, of a reader that has not all on disk.                 *)
LEMMA ReadsUnitOn ==
    ASSUME NEW s \in Seq(Nat), NEW b \in Readers, Reading(b, s), ~(b.known /\ b.temp),
           NEW r, r = R!Read(b, 1)
    PROVE  /\ r \in Reads /\ Reading(r.br, s)
           /\ r.br.index = IF b.index + 1 < Len(s) THEN b.index + 1 ELSE Len(s)
           /\ r.out = SubSeq(s, b.index + 1, r.br.index)
           /\ r.eof => r.br.index = Len(s)
           /\ b.index = Len(s) => r.eof
<1>1. PICK n \in Nat : n = 1
  OBVIOUS
<1>2. n > 0 /\ r = R!Read(b, n)
  BY <1>1
<1>3. /\ r \in Reads /\ Reading(r.br, s)
      /\ r.br.index = IF b.index + n < Len(s) THEN b.index + n ELSE Len(s)
      /\ r.out = SubSeq(s, b.index + 1, r.br.index)
      /\ r.eof => r.br.index = Len(s)
      /\ b.index = Len(s) /\ n > 0 => r.eof
  BY <1>2, ReadsOn
<1> QED BY <1>1, <1>2, <1>3

UnitRead(b, s, r) ==
    /\ r \in Reads /\ Readable(r.br, s)
    /\ r.br.index = IF b.index < Len(s) THEN b.index + 1 ELSE b.index
    /\ r.out = SubSeq(s, b.index + 1, r.br.index)
    /\ r.eof => r.br.index = Len(s)
    /\ b.index = Len(s) => r.eof
    /\ b.index \in 0..Len(s)

(* Read of one unit, of any reader that can be read to the end.            *)
LEMMA ReadsUnit ==
    ASSUME NEW s \in Seq(Nat), NEW b \in Readers, Readable(b, s), NEW r, r = R!Read(b, 1)
    PROVE  UnitRead(b, s, r)
<1>0. Len(s) \in Nat /\ b.index \in Nat /\ 1 \in Nat /\ 1 > 0
  BY Fields
<1>1. CASE OnDisk(b, s)
  <2>1. b.index <= Len(s)
    BY <1>1 DEF OnDisk
  <2>2. /\ r \in Reads /\ OnDisk(r.br, s)
        /\ r.br.index = IF b.index + 1 < Len(s) THEN b.index + 1 ELSE Len(s)
        /\ r.out = SubSeq(s, b.index + 1, r.br.index)
        /\ r.eof => r.br.index = Len(s)
        /\ b.index = Len(s) => r.eof
    <3>1. 1 \in Nat \ {0}
      OBVIOUS
    <3> QED BY <1>1, <3>1, ReadsFile
  <2>3. r.br.index = IF b.index < Len(s) THEN b.index + 1 ELSE b.index
    <3>1. PICK i, n : i = b.index /\ n = Len(s)
      OBVIOUS
    <3>2. (IF i + 1 < n THEN i + 1 ELSE n) = IF i < n THEN i + 1 ELSE i
      BY <1>0, <2>1, <3>1
    <3> QED BY <2>2, <3>1, <3>2
  <2>4. b.index \in 0..Len(s)
    BY <1>0, <2>1
  <2> QED BY <2>2, <2>3, <2>4 DEF Readable, UnitRead
<1>2. CASE Reading(b, s) /\ b.known /\ b.temp
  <2>1. b.index = Len(s) /\ b.total = Len(s)
    BY <1>2 DEF Reading, KnownRight
  <2>2. PICK r0 : r0 = R!NothingYet(b)
    OBVIOUS
  <2>3. r0 \in Reads /\ r0.br = b /\ r0.out = <<>> /\ r0.eof = FALSE
    BY <2>2 DEF R!NothingYet, Reads
  <2>4. r = [r0 EXCEPT !.eof = TRUE]
    BY <1>2, <2>1, <2>2, <2>3 DEF R!Read, R!FromFileOnly
  <2>5. r \in Reads /\ r.br = b /\ r.out = <<>> /\ r.eof = TRUE
    BY <2>3, <2>4 DEF Reads
  <2>6. SubSeq(s, b.index + 1, b.index) = <<>>
    BY <1>0, SubSeqEmpty
  <2>7. b.index \in 0..Len(s) /\ ~(b.index < Len(s)) /\ r.br.index = b.index
    BY <1>0, <2>1, <2>5
  <2> QED BY <1>2, <2>1, <2>5, <2>6, <2>7 DEF Readable, UnitRead
<1>3. CASE Reading(b, s) /\ ~(b.known /\ b.temp)
  <2>1. b.index <= Len(s)
    <3>1. b.got \in Nat /\ b.index <= b.got /\ b.got <= Len(s)
      BY <1>3, Fields DEF Reading, Base
    <3> QED BY <1>0, <3>1
  <2>2. /\ r \in Reads /\ Reading(r.br, s)
        /\ r.br.index = IF b.index + 1 < Len(s) THEN b.index + 1 ELSE Len(s)
        /\ r.out = SubSeq(s, b.index + 1, r.br.index)
        /\ r.eof => r.br.index = Len(s)
        /\ b.index = Len(s) => r.eof
    BY <1>3, ReadsUnitOn
  <2>3. r.br.index = IF b.index < Len(s) THEN b.index + 1 ELSE b.index
    <3>1. PICK i, n : i = b.index /\ n = Len(s)
      OBVIOUS
    <3>2. (IF i + 1 < n THEN i + 1 ELSE n) = IF i < n THEN i + 1 ELSE i
      BY <1>0, <2>1, <3>1
    <3> QED BY <2>2, <3>1, <3>2
  <2>4. b.index \in 0..Len(s)
    BY <1>0, <2>1
  <2> QED BY <2>2, <2>3, <2>4 DEF Readable, UnitRead
<1> QED BY <1>1, <1>2, <1>3 DEF Readable, UnitRead

(* Reading a unit at a time to the end returns what is left of the stream. *)
LEMMA RestIsStream ==
    ASSUME NEW s \in Seq(Nat), NEW b \in Readers, Readable(b, s), b.index = 0
    PROVE  R!Rest(b, 1) = s
<1>0. Len(s) \in Nat /\ b.src = s
  BY DEF Readable, Reading, OnDisk, Base
<1> DEFINE S == {r \in Reads :
                  /\ Readable(r.br, s) /\ r.out = SubSeq(s, 1, r.br.index)
                  /\ r.br.index \in 0..Len(s) /\ (r.eof => r.br.index = Len(s))}
           Step(r) == R!ReadMore(r, 1)
<1>1. R!NothingYet(b) \in S
  <2>1. PICK r0 : r0 = R!NothingYet(b)
    OBVIOUS
  <2>2. r0 \in Reads /\ r0.br = b /\ r0.out = <<>> /\ r0.eof = FALSE
    BY <2>1 DEF R!NothingYet, Reads
  <2>3. SubSeq(s, 1, 0) = <<>> /\ 0 \in 0..Len(s)
    BY <1>0, SubSeqEmpty
  <2> QED BY <2>1, <2>2, <2>3
<1>2. ASSUME NEW r \in S PROVE /\ Step(r) \in S
                               /\ r.eof => Step(r).eof
                               /\ ~r.eof => Step(r).eof \/ Step(r).br.index = r.br.index + 1
  <2>1. CASE r.eof
    BY <2>1 DEF R!ReadMore
  <2>2. CASE ~r.eof
    <3>1. PICK q : q = R!Read(r.br, 1)
      OBVIOUS
    <3>2. r \in Reads /\ r.br \in Readers /\ r.out \in Seq(Nat) /\ r.out = SubSeq(s, 1, r.br.index)
      BY DEF Reads
    <3>3. PICK i, j : i = r.br.index /\ j = q.br.index
      OBVIOUS
    <3>4. /\ q \in Reads /\ Readable(q.br, s)
          /\ j = IF i < Len(s) THEN i + 1 ELSE i
          /\ q.out = SubSeq(s, i + 1, j)
          /\ q.eof => j = Len(s)
          /\ i = Len(s) => q.eof
          /\ i \in 0..Len(s)
      <4>0. Readable(r.br, s)
        OBVIOUS
      <4> HIDE DEF S
      <4>1. /\ q \in Reads /\ Readable(q.br, s)
            /\ q.br.index = IF r.br.index < Len(s) THEN r.br.index + 1 ELSE r.br.index
            /\ q.out = SubSeq(s, r.br.index + 1, q.br.index)
            /\ q.eof => q.br.index = Len(s)
            /\ r.br.index = Len(s) => q.eof
            /\ r.br.index \in 0..Len(s)
        <5>1. UnitRead(r.br, s, q)
          BY <3>1, <3>2, <4>0, ReadsUnit
        <5> QED BY <5>1 DEF UnitRead
      <4> QED BY <3>3, <4>1
    <3>5. i \in Nat /\ j \in Nat /\ i <= j /\ j <= Len(s)
      BY <1>0, <3>4
    <3>6. r.out \o q.out = SubSeq(s, 1, j) /\ SubSeq(s, 1, j) \in Seq(Nat)
      <4>1. SubSeq(s, 1, i) \o SubSeq(s, i + 1, j) = SubSeq(s, 1, j) /\ SubSeq(s, 1, j) \in Seq(Nat)
        <5>1. SubSeq(s, 1, i) \o SubSeq(s, i + 1, j) = SubSeq(s, 1, j)
          BY <3>5, PartsOfStart
        <5>2. j <= j
          BY <3>5
        <5>3. SubSeq(s, 1, j) \in Seq(Nat)
          BY <3>5, <5>2, PartsOfStart
        <5> QED BY <5>1, <5>3
      <4> QED BY <3>2, <3>3, <3>4, <4>1
    <3>7. PICK x : x = Step(r)
      OBVIOUS
    <3>8. x = [q EXCEPT !.out = SubSeq(s, 1, j)]
      BY <2>2, <3>1, <3>6, <3>7 DEF R!ReadMore, R!Joined
    <3>9. x \in Reads /\ x.br = q.br /\ x.out = SubSeq(s, 1, j) /\ x.eof = q.eof
      BY <3>4, <3>6, <3>8 DEF Reads
    <3>10. j \in 0..Len(s)
      BY <1>0, <3>5
    <3>11. x \in S
      BY <3>3, <3>4, <3>9, <3>10
    <3>12. x.eof \/ x.br.index = r.br.index + 1
      <4>1. i = Len(s) => x.eof
        BY <3>4, <3>9
      <4>2. i # Len(s) => j = i + 1
        BY <1>0, <3>4, <3>5
      <4> QED BY <3>3, <3>9, <4>1, <4>2
    <3> QED BY <2>2, <3>7, <3>11, <3>12
  <2> QED BY <2>1, <2>2
<1>3. RestRuns(S, b, 1)
  <2>1. Len(b.src) + 1 \in Nat /\ \A r \in S : R!ReadMore(r, 1) \in S
    BY <1>0, <1>2
  <2> HIDE DEF S
  <2> QED BY <1>1, <2>1, RestLoop
<1>4. PICK n \in Nat : n = Len(s) + 1
  BY <1>0
<1>5. PICK f \in [0..n -> S] :
          /\ f[0] = R!NothingYet(b) /\ \A k \in 1..n : f[k] = Step(f[k - 1])
          /\ R!Rest(b, 1) = f[n].out
  <2> HIDE DEF S
  <2> QED BY <1>0, <1>3, <1>4 DEF RestRuns
<1> DEFINE T == {k \in 0..n : f[k].eof \/ f[k].br.index = k}
<1>6. 0 \in T
  <2>1. R!NothingYet(b).br = b
    BY DEF R!NothingYet
  <2> QED BY <1>5, <2>1
<1>7. ASSUME NEW k \in 1..n, k - 1 \in T PROVE k \in T
  <2>1. PICK r : r = f[k - 1]
    OBVIOUS
  <2>2. r \in S /\ (r.eof \/ r.br.index = k - 1)
    BY <1>7, <2>1
  <2>3. k \in 0..n /\ k - 1 + 1 = k
    OBVIOUS
  <2>4. f[k] = Step(r)
    BY <1>5, <2>1
  <2> HIDE DEF S, Step
  <2> QED BY <1>2, <2>2, <2>3, <2>4
<1>8. n \in T
  <2> HIDE DEF T
  <2>1. n \in 0..n
    OBVIOUS
  <2> QED BY <1>6, <1>7, <2>1, Counting
<1>9. f[n].br.index = Len(s) /\ f[n].out = SubSeq(s, 1, Len(s))
  <2>1. f[n] \in S
    OBVIOUS
  <2>2. f[n].eof \/ f[n].br.index = n
    BY <1>8
  <2>3. f[n].br.index \in 0..Len(s) /\ (f[n].eof => f[n].br.index = Len(s))
    BY <2>1
  <2>4. f[n].br.index = Len(s)
    BY <1>0, <1>4, <2>2, <2>3
  <2> QED BY <2>1, <2>4
<1> QED BY <1>5, <1>9, SubSeqFull

(* A reader that may seek: what it has read is in memory, or all of the    *)
(* stream is on disk.                                                      *)
Held(b, s) == (Reading(b, s) /\ ~b.temp) \/ OnDisk(b, s)
Start(b, s) == b \in Readers /\ Held(b, s) /\ b.index = 0

(* Seek to what was read before.                                           *)
LEMMA Seeks ==
    ASSUME NEW s \in Seq(Nat), NEW b \in Readers, Held(b, s),
           NEW t \in Nat, t <= b.bytesRead, NEW x, x = R!SeekTo(b, t)
    PROVE  /\ x = At(b, t) /\ x \in Readers /\ Held(x, s) /\ x.index = t
           /\ x.bytesRead = b.bytesRead
<1>1. b.bytesRead \in Nat /\ b.index \in Nat /\ b.got \in Nat
  BY Fields
<1>2. x = R!MoveTo(b, t) /\ ~(t > b.bytesRead)
  BY <1>1 DEF R!SeekTo
<1>3. x = [b EXCEPT !.index = t, !.bytesRead = b.bytesRead]
  BY <1>2 DEF R!MoveTo
<1>4. x = At(b, t)
  BY <1>3 DEF At, Readers
<1>5. /\ x \in Readers /\ x.index = t /\ x.src = b.src
      /\ x.got = b.got /\ x.buf = b.buf /\ x.bytesRead = b.bytesRead
      /\ x.temp = b.temp /\ x.file = b.file /\ x.foff = b.foff
      /\ x.disk = b.disk /\ x.total = b.total /\ x.known = b.known
  BY <1>4, AtFields
<1>6. CASE Reading(b, s) /\ ~b.temp
  <2>1. b.bytesRead = b.got
    BY <1>6 DEF Reading, Base
  <2>2. t <= x.got
    BY <1>5, <2>1
  <2>3. Base(x, s) /\ KnownRight(x, s)
    BY <1>5, <1>6 DEF Reading, Base, KnownRight
  <2> QED BY <1>4, <1>5, <1>6, <2>2, <2>3 DEF Held, Reading
<1>7. CASE OnDisk(b, s)
  <2>1. OnDisk(x, s)
    BY <1>5, <1>7 DEF OnDisk
  <2> QED BY <1>4, <1>5, <2>1 DEF Held
<1> QED BY <1>6, <1>7 DEF Held

HeldRead(b, n, s, r) ==
    /\ r \in Reads /\ Held(r.br, s)
    /\ r.br.index = IF b.index + n < Len(s) THEN b.index + n ELSE Len(s)
    /\ r.out = SubSeq(s, b.index + 1, r.br.index)
    /\ b.index <= Len(s)

(* Read of a reader that may seek leaves one that may seek, below the      *)
(* threshold.                                                              *)
LEMMA HeldReads ==
    ASSUME NEW s \in Seq(Nat), NEW b \in Readers, Held(b, s),
           NEW n \in Nat \ {0}, b.index + n < Threshold \/ Len(s) < Threshold,
           NEW r, r = R!Read(b, n)
    PROVE  HeldRead(b, n, s, r)
<1>1. CASE Reading(b, s) /\ ~b.temp
  <2>1. /\ r \in Reads /\ Reading(r.br, s)
        /\ r.br.index = IF b.index + n < Len(s) THEN b.index + n ELSE Len(s)
        /\ r.out = SubSeq(s, b.index + 1, r.br.index)
        /\ ~r.br.temp
    BY <1>1, ReadsOn
  <2>2. b.index <= Len(s)
    <3>1. b.got \in Nat /\ b.index \in Nat /\ b.index <= b.got /\ b.got <= Len(s)
      BY <1>1, Fields DEF Reading, Base
    <3> QED BY <3>1
  <2> QED BY <2>1, <2>2 DEF HeldRead, Held
<1>2. CASE OnDisk(b, s)
  <2>1. /\ r \in Reads /\ OnDisk(r.br, s)
        /\ r.br.index = IF b.index + n < Len(s) THEN b.index + n ELSE Len(s)
        /\ r.out = SubSeq(s, b.index + 1, r.br.index)
    BY <1>2, ReadsFile
  <2> QED BY <1>2, <2>1 DEF HeldRead, Held, OnDisk
<1> QED BY <1>1, <1>2 DEF Held

(* The detection of the type leaves the reader as it found it, at its      *)
(* start.                                                                  *)
LEMMA SniffHeld ==
    ASSUME NEW s \in Seq(Nat), NEW b, Start(b, s)
    PROVE  Start(Sniff(b), s)
<1>0. Header \in Nat \ {0} /\ Header < Threshold /\ Threshold \in Nat \ {0} /\ Len(s) \in Nat
  BY HeaderAssumption, SeekerAssumption
<1> DEFINE S == {r \in Reads :
                  Held(r.br, s) /\ Len(r.out) = r.br.index /\ r.br.index <= Header}
<1>1. R!NothingYet(b) \in S
  <2>1. PICK r : r = R!NothingYet(b)
    OBVIOUS
  <2>2. r \in Reads /\ r.br = b /\ r.out = <<>>
    BY <2>1 DEF R!NothingYet, Reads, Start
  <2> QED BY <1>0, <2>1, <2>2 DEF Start
<1>2. ASSUME NEW r \in S PROVE R!ReadOn(r, Header) \in S
  <2>1. CASE r.eof \/ Len(r.out) = Header
    BY <2>1 DEF R!ReadOn
  <2>2. CASE ~(r.eof \/ Len(r.out) = Header)
    <3>1. PICK c \in Readers : c = r.br
      BY DEF Reads
    <3>2. PICK n : n = Header - Len(r.out)
      OBVIOUS
    <3>3. PICK q : q = R!Read(c, n)
      OBVIOUS
    <3>4. PICK i : i = c.index
      OBVIOUS
    <3>5. i \in Nat /\ i <= Header /\ Len(r.out) = i /\ r.out \in Seq(Nat) /\ Held(c, s) /\ i # Header
      BY <2>2, <3>1, <3>4, Fields DEF Reads
    <3>6. n \in Nat \ {0} /\ i + n = Header
      BY <1>0, <3>2, <3>5
    <3>7. HeldRead(c, n, s, q)
      <4>1. c.index + n < Threshold
        BY <1>0, <3>4, <3>6
      <4> QED BY <3>3, <3>5, <3>6, <4>1, HeldReads
    <3>8. PICK j : j = q.br.index
      OBVIOUS
    <3>9. /\ j = IF Header < Len(s) THEN Header ELSE Len(s)
          /\ q.out = SubSeq(s, i + 1, j) /\ i <= Len(s) /\ q \in Reads /\ Held(q.br, s)
      BY <3>4, <3>6, <3>7, <3>8 DEF HeldRead
    <3>10. j \in Nat /\ i <= j /\ j <= Len(s) /\ j <= Header
      BY <1>0, <3>5, <3>9
    <3>11. q.out \in Seq(Nat) /\ Len(q.out) = j - i
      BY <3>5, <3>9, <3>10, PartIs
    <3>12. PICK all : all = r.out \o q.out
      OBVIOUS
    <3>13. all \in Seq(Nat) /\ Len(all) = j
      <4>1. all \in Seq(Nat) /\ Len(all) = Len(r.out) + Len(q.out)
        BY <3>5, <3>11, <3>12, ConcatProperties
      <4>2. Len(all) = i + (j - i)
        BY <3>5, <3>11, <4>1
      <4> QED BY <3>5, <3>10, <4>1, <4>2
    <3>14. PICK x : x = R!ReadOn(r, Header)
      OBVIOUS
    <3>15. x = [q EXCEPT !.out = all]
      BY <2>2, <3>1, <3>2, <3>3, <3>12, <3>14 DEF R!ReadOn, R!Joined
    <3>16. x \in Reads /\ x.br = q.br /\ x.out = all
      BY <3>9, <3>13, <3>15 DEF Reads
    <3> QED BY <3>8, <3>9, <3>10, <3>13, <3>14, <3>16
  <2> QED BY <2>1, <2>2
<1>3. R!ReadFull(b, Header) \in S
  <2> HIDE DEF S
  <2>1. FullRuns(S, b, Header)
    BY <1>0, <1>1, <1>2, FullLoop
  <2>2. PICK f \in [0..Header -> S] : R!ReadFull(b, Header) = f[Header]
    BY <2>1 DEF FullRuns
  <2>3. Header \in 0..Header
    BY <1>0
  <2> QED BY <2>2, <2>3
<1>4. PICK c \in Readers : c = R!ReadFull(b, Header).br /\ Held(c, s)
  BY <1>3 DEF Reads
<1>5. PICK x : x = R!SeekTo(c, 0)
  OBVIOUS
<1>6. x \in Readers /\ Held(x, s) /\ x.index = 0
  <2>1. 0 \in Nat /\ 0 <= c.bytesRead
    BY Fields
  <2> QED BY <1>4, <1>5, <2>1, Seeks
<1> QED BY <1>4, <1>5, <1>6 DEF Start, Sniff

(* readToEnd, from the start of the stream.                                *)
Copying(b, s) == b \in Readers /\ Base(b, s) /\ b.index = 0 /\ ~b.known

(* A round of readToEnd copies the next units.                             *)
LEMMA CopyingOn ==
    ASSUME NEW s \in Seq(Nat), NEW b, Copying(b, s)
    PROVE  /\ Copying(R!CopyOn(b), s)
           /\ R!CopyOn(b).got = IF b.got + CopySize < Len(s) THEN b.got + CopySize ELSE Len(s)
<1>0. CopySize \in Nat \ {0} /\ Len(s) \in Nat /\ b \in Readers /\ Base(b, s) /\ b.index = 0
  BY SeekerAssumption DEF Copying
<1>1. PICK g : g = b.got
  OBVIOUS
<1>2. g \in Nat /\ g <= Len(s) /\ b.src = s
  BY <1>0, <1>1, Fields DEF Base
<1>3. PICK end : end = IF g + CopySize < Len(s) THEN g + CopySize ELSE Len(s)
  OBVIOUS
<1>4. end \in Nat /\ g <= end /\ end <= Len(s)
  BY <1>0, <1>2, <1>3
<1>5. PICK units : units = SubSeq(s, g + 1, end)
  OBVIOUS
<1>6. units \in Seq(Nat) /\ Len(units) = end - g
  BY <1>2, <1>4, <1>5, PartIs
<1>7. PICK x : x = R!CopyOn(b)
  OBVIOUS
<1>8. x = R!Copied(b, units)
  <2>1. R!Slice(s, g, CopySize) = SubSeq(s, g + 1, IF g + CopySize < Len(s) THEN g + CopySize ELSE Len(s))
    BY <1>0, <1>2, SliceIs
  <2> QED BY <1>1, <1>2, <1>3, <1>5, <1>7, <2>1 DEF R!CopyOn
<1>9. CASE units = <<>>
  <2>1. x = b /\ Len(units) = 0
    BY <1>8, <1>9 DEF R!Copied
  <2>2. end = g
    BY <1>2, <1>4, <1>6, <2>1
  <2> QED BY <1>1, <1>3, <1>7, <2>1, <2>2
<1>10. CASE units # <<>>
  <2>1. g + Len(units) = end
    BY <1>2, <1>4, <1>6
  <2>2. PICK y : y = [b EXCEPT !.got = end]
    OBVIOUS
  <2>3. y = Got(b, end, 0)
    BY <1>0, <2>2 DEF Got, Readers
  <2>4. x = R!WriteData(y, units)
    <3>1. y = [b EXCEPT !.got = b.got + Len(units)]
      BY <1>1, <2>1, <2>2
    <3> QED BY <1>8, <1>10, <3>1 DEF R!Copied
  <2>5. /\ x \in Readers /\ Base(x, s) /\ x.got = end /\ x.index = 0
        /\ x.known = b.known
    <3>1. b.got <= end /\ 0 \in Nat /\ x = R!WriteData(y, SubSeq(s, b.got + 1, end))
      BY <1>1, <1>4, <1>5, <2>4
    <3> QED BY <1>0, <1>4, <2>3, <3>1, Wrote
  <2> QED BY <1>1, <1>3, <1>7, <2>5 DEF Copying
<1> QED BY <1>9, <1>10

(* readToEnd copies the whole stream.                                      *)
LEMMA CopiedAll ==
    ASSUME NEW s \in Seq(Nat), NEW b, Copying(b, s)
    PROVE  \E c : /\ Copying(c, s) /\ c.got = Len(s)
                  /\ R!ReadToEnd(b) = R!EndKnown(R!FlushRest(c))
<1>0. CopySize \in Nat \ {0} /\ Len(s) \in Nat /\ b.src = s /\ b \in Readers
  BY SeekerAssumption DEF Copying, Base
<1> DEFINE S == {c \in Readers : Copying(c, s)}
<1>1. b \in S /\ \A c \in S : R!CopyOn(c) \in S
  BY <1>0, CopyingOn DEF Copying
<1>2. ToEndRuns(S, b)
  <2> HIDE DEF S
  <2> QED BY <1>0, <1>1, ToEndLoop
<1>3. PICK n \in Nat : n = Len(s)
  BY <1>0
<1>4. PICK f \in [0..n -> S] :
          /\ f[0] = b /\ \A k \in 1..n : f[k] = R!CopyOn(f[k - 1])
          /\ R!ReadToEnd(b) = R!EndKnown(R!FlushRest(f[n]))
  <2> HIDE DEF S
  <2> QED BY <1>0, <1>2, <1>3 DEF ToEndRuns
<1> DEFINE T == {k \in 0..n : k <= f[k].got}
<1>5. 0 \in T
  BY <1>0, <1>4, Fields
<1>6. ASSUME NEW k \in 1..n, k - 1 \in T PROVE k \in T
  <2>1. PICK c : c = f[k - 1]
    OBVIOUS
  <2>2. PICK g : g = c.got
    OBVIOUS
  <2>3. k - 1 \in 0..n /\ k \in 0..n
    OBVIOUS
  <2>4. c \in Readers /\ Copying(c, s) /\ g \in Nat /\ k - 1 <= g
    BY <1>6, <2>1, <2>2, <2>3, Fields
  <2>5. f[k].got = IF g + CopySize < Len(s) THEN g + CopySize ELSE Len(s)
    BY <1>4, <2>1, <2>2, <2>4, CopyingOn
  <2>6. k <= f[k].got
    BY <1>0, <1>3, <2>4, <2>5
  <2> QED BY <2>3, <2>6
<1>7. n \in T
  <2> HIDE DEF T
  <2>1. n \in 0..n
    OBVIOUS
  <2> QED BY <1>5, <1>6, <2>1, Counting
<1>8. PICK c : c = f[n]
  OBVIOUS
<1>9. c \in Readers /\ Copying(c, s) /\ n <= c.got
  BY <1>7, <1>8
<1>10. c.got <= Len(s) /\ c.got \in Nat
  BY <1>9, Fields DEF Copying, Base
<1>11. c.got = Len(s)
  BY <1>3, <1>9, <1>10
<1> QED BY <1>4, <1>8, <1>9, <1>11

(* What Size leaves is in memory or on disk, all of it.                    *)
LEMMA EndHeld ==
    ASSUME NEW s \in Seq(Nat), NEW c, Copying(c, s), c.got = Len(s),
           NEW e, e = R!EndKnown(R!FlushRest(c))
    PROVE  /\ e \in Readers /\ Held(e, s) /\ e.index = 0
           /\ e.bytesRead = Len(s) /\ e.total = Len(s)
<1>0. Len(s) \in Nat /\ c \in Readers /\ c.index = 0
  BY DEF Copying
<1>1. /\ c.src = s /\ c.bytesRead = c.got /\ c.disk <= c.got /\ c.foff = c.disk
      /\ c.file = SubSeq(s, 1, c.disk) /\ c.buf = SubSeq(s, c.disk + 1, c.got)
      /\ (c.disk = 0 <=> ~c.temp) /\ c.disk \in Nat /\ c.buf \in Seq(Nat) /\ c.temp \in BOOLEAN
  BY <1>0, Fields DEF Copying, Base
<1>2. PICK d : d = c.disk
  OBVIOUS
<1>3. PICK n \in Nat : n = Len(s)
  BY <1>0
<1>4. /\ d \in Nat /\ d <= n /\ c.got = n /\ c.bytesRead = n /\ c.foff = d
      /\ c.file = SubSeq(s, 1, d) /\ c.buf = SubSeq(s, d + 1, n)
  BY <1>1, <1>2, <1>3
<1>5. /\ SubSeq(s, 1, d) \in Seq(Nat) /\ Len(SubSeq(s, 1, d)) = d
      /\ SubSeq(s, 1, d) \o SubSeq(s, d + 1, n) = SubSeq(s, 1, n)
      /\ SubSeq(s, d + 1, n) \in Seq(Nat) /\ Len(SubSeq(s, d + 1, n)) = n - d
  <2>1. n <= Len(s) /\ d <= n /\ d \in Nat
    BY <1>3, <1>4
  <2>2. /\ SubSeq(s, 1, d) \in Seq(Nat) /\ Len(SubSeq(s, 1, d)) = d
        /\ SubSeq(s, 1, d) \o SubSeq(s, d + 1, n) = SubSeq(s, 1, n)
    BY <2>1, PartsOfStart
  <2>3. SubSeq(s, d + 1, n) \in Seq(Nat) /\ Len(SubSeq(s, d + 1, n)) = n - d
    BY <2>1, PartIs
  <2> QED BY <2>2, <2>3
<1>6. SubSeq(s, 1, n) = s
  BY <1>3, SubSeqFull
<1>7. PICK w : w = R!FlushRest(c)
  OBVIOUS
<1>8. CASE ~c.temp
  <2>1. w = c
    BY <1>7, <1>8 DEF R!FlushRest
  <2>2. e = [c EXCEPT !.total = n, !.known = TRUE]
    BY <1>4, <1>7, <2>1 DEF R!EndKnown
  <2>3. /\ e \in Readers /\ e.total = n /\ e.known = TRUE /\ e.index = c.index
        /\ e.src = c.src /\ e.got = c.got /\ e.buf = c.buf /\ e.bytesRead = c.bytesRead
        /\ e.temp = c.temp /\ e.file = c.file /\ e.foff = c.foff /\ e.disk = c.disk
    BY <1>0, <2>2 DEF Readers
  <2>4. Base(e, s)
    BY <2>3 DEF Base, Copying
  <2>5. e.index = 0 /\ e.got = n /\ ~e.temp
    BY <1>0, <1>4, <1>8, <2>3
  <2>6. Reading(e, s)
    BY <1>3, <2>3, <2>4, <2>5 DEF Reading, KnownRight
  <2> QED BY <1>3, <1>4, <2>3, <2>5, <2>6 DEF Held
<1>9. CASE c.temp
  <2>1. /\ w \in Readers /\ w.src = s /\ w.file = s /\ w.index = 0
        /\ w.bytesRead = n /\ w.temp = TRUE
    <3>1. CASE c.buf = <<>>
      <4>1. w = c
        BY <1>7, <3>1 DEF R!FlushRest
      <4>2. n - d = 0
        BY <1>4, <1>5, <3>1
      <4>3. n = d
        BY <1>4, <4>2
      <4> QED BY <1>0, <1>1, <1>4, <1>6, <1>9, <4>1, <4>3
    <3>2. CASE c.buf # <<>>
      <4>1. w = R!Flush(c)
        BY <1>7, <1>9, <3>2 DEF R!FlushRest
      <4>2. c.file \in Seq(Nat) /\ Len(c.file) = d /\ Len(c.buf) = n - d
        BY <1>4, <1>5
      <4>3. c.foff + Len(c.buf) = n /\ c.disk + Len(c.buf) = n
        BY <1>2, <1>4, <4>2
      <4>4. PICK whole : whole = SubSeq(c.file, 1, c.foff) \o c.buf
                                     \o SubSeq(c.file, n + 1, Len(c.file))
        OBVIOUS
      <4>5. whole = s
        <5>1. SubSeq(c.file, 1, c.foff) = c.file
          BY <1>4, <4>2, SubSeqFull
        <5>2. SubSeq(c.file, n + 1, Len(c.file)) = <<>>
          <6>1. n + 1 \in Int /\ d \in Int /\ d < n + 1
            BY <1>4
          <6> QED BY <4>2, <6>1, SubSeqEmpty
        <5>3. c.file \o c.buf = s
          BY <1>4, <1>5, <1>6
        <5> QED BY <4>4, <5>1, <5>2, <5>3, ConcatEmptySeq
      <4>6. w = [c EXCEPT !.file = s, !.foff = n, !.disk = n, !.buf = <<>>]
        BY <4>1, <4>3, <4>4, <4>5 DEF R!Flush
      <4>7. /\ w \in Readers /\ w.src = c.src /\ w.file = s /\ w.index = c.index
            /\ w.bytesRead = c.bytesRead /\ w.temp = c.temp
        <5>1. <<>> \in Seq(Nat)
          OBVIOUS
        <5> QED BY <1>0, <4>6, <5>1 DEF Readers
      <4> QED BY <1>0, <1>1, <1>4, <1>9, <4>7
    <3> QED BY <3>1, <3>2
  <2>2. e = [w EXCEPT !.total = n, !.known = TRUE]
    BY <1>7, <2>1 DEF R!EndKnown
  <2>3. /\ e \in Readers /\ e.total = n /\ e.known = TRUE /\ e.index = w.index
        /\ e.src = w.src /\ e.bytesRead = w.bytesRead /\ e.temp = w.temp /\ e.file = w.file
    BY <2>1, <2>2 DEF Readers
  <2>4. OnDisk(e, s)
    BY <1>3, <2>1, <2>3 DEF OnDisk
  <2> QED BY <1>3, <2>1, <2>3, <2>4 DEF Held
<1> QED BY <1>1, <1>8, <1>9

(* Size leaves a reader at its start, with all of the stream at hand.      *)
LEMMA SizeHeld ==
    ASSUME NEW s \in Seq(Nat), NEW b, Start(b, s)
    PROVE  Start(R!Size(b), s) /\ R!Size(b).bytesRead = Len(s)
<1>0. Len(s) \in Nat /\ b \in Readers /\ b.index = 0 /\ Held(b, s)
  BY DEF Start
<1>1. CASE b.known
  <2>1. R!Size(b) = b
    BY <1>1 DEF R!Size
  <2>2. b.bytesRead = Len(s)
    BY <1>0, <1>1 DEF Held, Reading, OnDisk, Base, KnownRight
  <2> QED BY <2>1, <2>2
<1>2. CASE ~b.known
  <2>1. Copying(b, s)
    BY <1>0, <1>2 DEF Held, Reading, OnDisk, Copying
  <2>2. PICK e : e = R!ReadToEnd(b)
    OBVIOUS
  <2>3. /\ e \in Readers /\ Held(e, s) /\ e.index = 0
        /\ e.bytesRead = Len(s) /\ e.total = Len(s)
    BY <2>1, <2>2, CopiedAll, EndHeld
  <2>4. PICK n \in Nat : n = Len(s)
    BY <1>0
  <2>5. PICK x : x = R!SeekTo(e, n)
    OBVIOUS
  <2>6. x \in Readers /\ Held(x, s) /\ x.index = n /\ x.bytesRead = n
    BY <2>3, <2>4, <2>5, Seeks
  <2>7. PICK y : y = R!SeekTo(x, 0)
    OBVIOUS
  <2>8. y \in Readers /\ Held(y, s) /\ y.index = 0 /\ y.bytesRead = n
    <3>1. 0 \in Nat /\ 0 <= x.bytesRead
      BY <2>6
    <3> QED BY <2>6, <2>7, <3>1, Seeks
  <2>9. PICK z : z = R!Size(b)
    OBVIOUS
  <2>10. z = [y EXCEPT !.total = n, !.known = TRUE]
    <3>1. e.total + 0 = n
      BY <2>3, <2>4
    <3>2. R!SeekEnd(b, 0) = x
      BY <1>2, <2>2, <2>5, <3>1 DEF R!SeekEnd, R!FromEnd
    <3> QED BY <1>0, <1>2, <2>6, <2>7, <2>9, <3>2 DEF R!Size, R!Measured
  <2>11. /\ z \in Readers /\ z.total = n /\ z.known = TRUE /\ z.index = y.index
         /\ z.src = y.src /\ z.got = y.got /\ z.buf = y.buf /\ z.bytesRead = y.bytesRead
         /\ z.temp = y.temp /\ z.file = y.file /\ z.foff = y.foff /\ z.disk = y.disk
    BY <2>8, <2>10 DEF Readers
  <2>12. Held(z, s)
    <3>1. CASE OnDisk(y, s)
      <4>1. OnDisk(z, s)
        BY <2>4, <2>11, <3>1 DEF OnDisk
      <4> QED BY <4>1 DEF Held
    <3>2. CASE Reading(y, s) /\ ~y.temp
      <4>1. Base(z, s) /\ z.got = n /\ ~z.temp /\ z.index <= z.got
        BY <2>8, <2>11, <3>2 DEF Reading, Base
      <4>2. Reading(z, s)
        BY <2>4, <2>11, <4>1 DEF Reading, KnownRight
      <4> QED BY <4>1, <4>2 DEF Held
    <3> QED BY <2>8, <3>1, <3>2 DEF Held
  <2> QED BY <2>4, <2>8, <2>9, <2>11, <2>12 DEF Start
<1> QED BY <1>0, <1>1, <1>2, Fields

(* Looking for an APK in a zip that is not empty.                          *)
LEMMA SearchHeld ==
    ASSUME NEW s \in Seq(Nat), s # <<>>, NEW b, Start(b, s)
    PROVE  Start(Search(b), s)
<1>0. Header \in Nat \ {0} /\ Header < Threshold /\ Threshold \in Nat \ {0}
  BY HeaderAssumption, SeekerAssumption
<1>1. PICK n \in Nat : n = Len(s)
  OBVIOUS
<1>2. 1 \in Nat /\ 1 <= n
  BY <1>1, EmptySeq
<1>3. PICK z \in Readers : z = R!Size(b) /\ Held(z, s) /\ z.index = 0 /\ z.bytesRead = n
  BY <1>1, SizeHeld DEF Start
<1>4. PICK x : x = R!SeekTo(z, 1)
  OBVIOUS
<1>5. x = At(z, 1) /\ x \in Readers /\ Held(x, s) /\ x.index = 1 /\ x.bytesRead = n
  BY <1>2, <1>3, <1>4, Seeks
<1>6. PICK r : r = R!Read(x, Header)
  OBVIOUS
<1>7. r \in Reads /\ Held(r.br, s)
  <2>1. CASE OnDisk(x, s)
    <3>1. r \in Reads /\ OnDisk(r.br, s)
      BY <1>0, <1>5, <1>6, <2>1, ReadsFile
    <3> QED BY <3>1 DEF Held
  <2>2. CASE Reading(x, s) /\ ~x.temp
    <3>1. x.disk = 0 /\ x.got = n /\ x.got - x.disk < Threshold
      BY <1>5, <2>2 DEF Reading, Base
    <3>2. Len(s) < Threshold
      BY <1>0, <1>1, <3>1
    <3> QED BY <1>0, <1>5, <1>6, <3>2, HeldReads DEF HeldRead
  <2> QED BY <1>5, <2>1, <2>2 DEF Held
<1>8. PICK c \in Readers : c = r.br
  BY <1>7 DEF Reads
<1>9. 0 \in Nat /\ 0 <= c.bytesRead
  BY Fields
<1>10. PICK y : y = R!SeekTo(c, 0)
  OBVIOUS
<1>11. y \in Readers /\ Held(y, s) /\ y.index = 0
  BY <1>7, <1>8, <1>9, <1>10, Seeks
<1>12. R!ReadAt(z, Header, 1).br = IF r.eof THEN c ELSE y
  <2>1. CASE r.eof
    BY <1>3, <1>4, <1>6, <1>8, <2>1 DEF R!ReadAt, R!PutBack
  <2>2. CASE ~r.eof
    <3>1. R!ReadAt(z, Header, 1) = [r EXCEPT !.br = y]
      BY <1>3, <1>4, <1>6, <1>8, <1>10, <2>2 DEF R!ReadAt, R!PutBack
    <3> QED BY <1>7, <2>2, <3>1 DEF Reads
  <2> QED BY <2>1, <2>2
<1>13. PICK d \in Readers : d = R!ReadAt(z, Header, 1).br /\ Held(d, s)
  BY <1>7, <1>8, <1>11, <1>12
<1>14. PICK q : q = R!SeekTo(d, 0)
  OBVIOUS
<1>15. 0 \in Nat /\ 0 <= d.bytesRead
  BY Fields
<1>16. q \in Readers /\ Held(q, s) /\ q.index = 0
  BY <1>13, <1>14, <1>15, Seeks
<1> QED BY <1>3, <1>13, <1>14, <1>16 DEF Search, Start

-----------------------------------------------------------------------------
(* An empty stream: a seek behind its end leaves the reader there, and     *)
(* nothing is ever read.                                                   *)
Empty(b) == b \in Readers /\ b.src = <<>> /\ ~b.temp /\ b.got = 0 /\ b.buf = <<>>

(* A read of an empty stream returns nothing.                              *)
LEMMA EmptyReads ==
    ASSUME NEW b, Empty(b), NEW n \in Nat, NEW r, r = R!Read(b, n)
    PROVE  r \in Reads /\ Empty(r.br) /\ r.out = <<>>
<1>0. Threshold \in Nat \ {0} /\ b \in Readers /\ b.index \in Nat /\ b.bytesRead \in Nat
  BY SeekerAssumption, Fields DEF Empty
<1>1. b.src = <<>> /\ b.temp = FALSE /\ b.got = 0 /\ b.buf = <<>>
  BY Fields DEF Empty
<1>2. PICK r0 : r0 = R!NothingYet(b)
  OBVIOUS
<1>3. r0 \in Reads /\ r0.br = b /\ r0.out = <<>> /\ r0.eof = FALSE
  BY <1>0, <1>2 DEF R!NothingYet, Reads
<1>4. R!FromBuffer(r0, n) = r0
  BY <1>0, <1>1, <1>3 DEF R!FromBuffer
<1>5. R!FromFile(r0, n) = r0 /\ ~R!Spans(r0, n)
  BY <1>1, <1>3 DEF R!FromFile, R!Spans
<1>6. r = R!FromReader(r0, n)
  BY <1>1, <1>2, <1>4, <1>5 DEF R!Read
<1>7. CASE Len(r0.out) = n
  BY <1>3, <1>6, <1>7 DEF R!FromReader, Empty
<1>8. CASE Len(r0.out) # n
  <2>1. R!Slice(r0.br.src, r0.br.got, n - Len(r0.out)) = <<>>
    <3>1. n - Len(r0.out) = n /\ r0.br.src = <<>> /\ r0.br.got = 0 /\ <<>> \in Seq(Nat)
      BY <1>1, <1>3
    <3>2. R!Least(0 + n, Len(<<>>)) = 0
      BY DEF R!Least
    <3>3. R!Slice(<<>>, 0, n) = SubSeq(<<>>, 1, 0)
      BY <3>2 DEF R!Slice
    <3> QED BY <3>1, <3>3, SubSeqEmpty
  <2>2. r = R!ReceivedOn(r0, <<>>)
    BY <1>6, <1>8, <2>1 DEF R!FromReader
  <2>3. [b EXCEPT !.got = 0, !.index = b.index] = b
    BY <1>1, <1>0 DEF Readers
  <2>4. [b EXCEPT !.buf = <<>>, !.bytesRead = b.bytesRead] = b
    BY <1>1, <1>0 DEF Readers
  <2>5. R!WriteData(b, <<>>) = b
    <3>1. b.buf \o <<>> = <<>> /\ b.bytesRead + Len(<<>>) = b.bytesRead /\ Len(b.buf) < Threshold
      BY <1>0, <1>1
    <3> QED BY <2>4, <3>1 DEF R!WriteData
  <2>6. r = R!Received(b, <<>>, <<>>)
    <3>1. b.got + Len(<<>>) = 0 /\ b.index + Len(<<>>) = b.index /\ r0.out \o <<>> = <<>>
      BY <1>0, <1>1, <1>3
    <3>2. [r0.br EXCEPT !.got = r0.br.got + Len(<<>>), !.index = r0.br.index + Len(<<>>)] = b
      <4>1. PICK g, i : g = r0.br.got + Len(<<>>) /\ i = r0.br.index + Len(<<>>)
        OBVIOUS
      <4>2. g = 0 /\ i = b.index
        BY <1>3, <3>1, <4>1
      <4>3. [r0.br EXCEPT !.got = g, !.index = i] = b
        BY <1>3, <2>3, <4>2
      <4> QED BY <4>1, <4>3
    <3> QED BY <2>2, <2>5, <3>1, <3>2 DEF R!ReceivedOn
  <2>7. R!AtEnd(b, <<>>) = TRUE
    BY <1>1 DEF R!AtEnd
  <2>8. PICK e : e = R!EndKnown(b)
    OBVIOUS
  <2>9. /\ e \in Readers /\ e.src = b.src /\ e.temp = b.temp /\ e.got = b.got /\ e.buf = b.buf
    BY <1>0, <2>8 DEF R!EndKnown, Readers
  <2>10. r = [br |-> e, out |-> <<>>, eof |-> TRUE]
    BY <2>6, <2>7, <2>8 DEF R!Received
  <2> QED BY <1>1, <2>9, <2>10 DEF Reads, Empty
<1> QED BY <1>7, <1>8

EmptyRead(r) == r \in Reads /\ Empty(r.br) /\ r.out = <<>>

(* So does no read,                                                        *)
LEMMA EmptyStarts ==
    ASSUME NEW b, Empty(b)
    PROVE  EmptyRead(R!NothingYet(b))
<1>1. PICK r0 : r0 = R!NothingYet(b)
  OBVIOUS
<1>2. r0 \in Reads /\ r0.br = b /\ r0.out = <<>>
  BY <1>1 DEF R!NothingYet, Reads, Empty
<1> QED BY <1>1, <1>2 DEF EmptyRead

(* two reads one after the other,                                          *)
LEMMA EmptyJoins ==
    ASSUME NEW r, EmptyRead(r), NEW n \in Nat
    PROVE  EmptyRead(R!Joined(r, R!Read(r.br, n)))
<1>1. PICK q : q = R!Read(r.br, n)
  OBVIOUS
<1>2. q \in Reads /\ Empty(q.br) /\ q.out = <<>> /\ r.out = <<>>
  BY <1>1, EmptyReads DEF EmptyRead
<1>3. PICK x : x = R!Joined(r, q)
  OBVIOUS
<1>4. x = [q EXCEPT !.out = <<>>]
  BY <1>2, <1>3 DEF R!Joined
<1>5. x \in Reads /\ x.br = q.br /\ x.out = <<>>
  BY <1>2, <1>4 DEF Reads
<1> QED BY <1>1, <1>2, <1>3, <1>5 DEF EmptyRead

(* all reads to the end,                                                   *)
LEMMA EmptyRest ==
    ASSUME NEW b, Empty(b)
    PROVE  R!Rest(b, 1) = <<>>
<1> DEFINE S == {r \in Reads : EmptyRead(r)}
<1>1. R!NothingYet(b) \in S
  BY EmptyStarts DEF EmptyRead
<1>2. ASSUME NEW r \in S PROVE R!ReadMore(r, 1) \in S
  <2>1. EmptyRead(R!Joined(r, R!Read(r.br, 1)))
    BY EmptyJoins
  <2> QED BY <2>1 DEF R!ReadMore, EmptyRead
<1>3. RestRuns(S, b, 1)
  <2>1. Len(b.src) + 1 \in Nat
    BY DEF Empty
  <2> HIDE DEF S
  <2> QED BY <1>1, <1>2, <2>1, RestLoop
<1>4. PICK f \in [0..1 -> S] : R!Rest(b, 1) = f[1].out
  <2>1. Len(b.src) + 1 = 1
    BY DEF Empty
  <2> HIDE DEF S
  <2> QED BY <1>3, <2>1 DEF RestRuns
<1>5. f[1] \in S
  OBVIOUS
<1> QED BY <1>4, <1>5 DEF EmptyRead

(* and a read of a given length.                                           *)
LEMMA EmptyFull ==
    ASSUME NEW b, Empty(b), NEW n \in Nat
    PROVE  EmptyRead(R!ReadFull(b, n))
<1> DEFINE S == {r \in Reads : EmptyRead(r)}
<1>1. R!NothingYet(b) \in S
  BY EmptyStarts DEF EmptyRead
<1>2. ASSUME NEW r \in S PROVE R!ReadOn(r, n) \in S
  <2>1. Len(r.out) = 0 /\ n - 0 = n
    BY DEF EmptyRead
  <2>2. EmptyRead(R!Joined(r, R!Read(r.br, n)))
    BY EmptyJoins
  <2> QED BY <2>1, <2>2 DEF R!ReadOn, EmptyRead
<1>3. FullRuns(S, b, n)
  <2> HIDE DEF S
  <2> QED BY <1>1, <1>2, FullLoop
<1>4. PICK f \in [0..n -> S] : R!ReadFull(b, n) = f[n]
  <2> HIDE DEF S
  <2> QED BY <1>3 DEF FullRuns
<1>5. f[n] \in S
  OBVIOUS
<1> QED BY <1>4, <1>5

(* A seek leaves an empty stream empty, wherever it goes,                  *)
LEMMA EmptySeeks ==
    ASSUME NEW b, Empty(b), NEW t \in Nat
    PROVE  Empty(R!SeekTo(b, t))
<1> DEFINE S == {u \in [br : Readers, more : BOOLEAN] : Empty(u.br)}
<1>1. [br |-> b, more |-> TRUE] \in S
  BY DEF Empty
<1>2. ASSUME NEW u \in S PROVE R!UntilOn(u, t) \in S
  <2>1. CASE ~u.more \/ u.br.bytesRead >= t
    BY <2>1 DEF R!UntilOn
  <2>2. CASE ~(~u.more \/ u.br.bytesRead >= t)
    <3>1. PICK n : n = t - u.br.bytesRead
      OBVIOUS
    <3>2. u.br.bytesRead \in Nat /\ ~(u.br.bytesRead >= t)
      BY <2>2, Fields
    <3>3. n \in Nat
      BY <3>1, <3>2
    <3>4. PICK r : r = R!ReadFull(u.br, n)
      OBVIOUS
    <3>5. EmptyRead(r)
      BY <3>3, <3>4, EmptyFull
    <3>6. PICK some \in BOOLEAN : some = (r.out # <<>>)
      OBVIOUS
    <3>7. R!UntilOn(u, t) = [br |-> r.br, more |-> some]
      BY <2>2, <3>1, <3>4, <3>6 DEF R!UntilOn, R!Progress
    <3> QED BY <3>5, <3>7 DEF EmptyRead, Empty
  <2> QED BY <2>1, <2>2
<1>3. UntilRuns(S, b, t)
  <2>1. Len(b.src) + t + 1 \in Nat
    BY DEF Empty
  <2> HIDE DEF S
  <2> QED BY <1>1, <1>2, <2>1, UntilLoop
<1>4. Empty(R!ReadUntil(b, t))
  <2>1. PICK n \in Nat : n = Len(b.src) + t + 1
    BY DEF Empty
  <2>2. PICK f \in [0..n -> S] : R!ReadUntil(b, t) = f[n].br
    <3> HIDE DEF S
    <3> QED BY <1>3, <2>1 DEF UntilRuns
  <2>3. f[n] \in S
    OBVIOUS
  <2> QED BY <2>2, <2>3
<1>5. PICK c : c = IF t > b.bytesRead THEN R!ReadUntil(b, t) ELSE b
  OBVIOUS
<1>6. Empty(c)
  BY <1>4, <1>5
<1>7. PICK x : x = R!MoveTo(c, t)
  OBVIOUS
<1>8. PICK k \in Nat : k = IF t > c.bytesRead THEN t ELSE c.bytesRead
  BY <1>6, Fields DEF Empty
<1>9. x = [c EXCEPT !.index = t, !.bytesRead = k]
  BY <1>7, <1>8 DEF R!MoveTo
<1>10. x \in Readers /\ x.src = c.src /\ x.temp = c.temp /\ x.got = c.got /\ x.buf = c.buf
  BY <1>6, <1>9 DEF Empty, Readers
<1> QED BY <1>5, <1>6, <1>7, <1>10 DEF R!SeekTo, Empty

(* and so do the detection of the type,                                    *)
LEMMA EmptySniff ==
    ASSUME NEW b, Empty(b)
    PROVE  Empty(Sniff(b))
<1>1. EmptyRead(R!ReadFull(b, Header))
  BY EmptyFull, HeaderAssumption
<1> QED BY <1>1, EmptySeeks DEF EmptyRead, Sniff

(* the reading to the end,                                                 *)
LEMMA EmptyEnd ==
    ASSUME NEW b, Empty(b)
    PROVE  Empty(R!ReadToEnd(b)) /\ R!ReadToEnd(b).total \in Nat
<1>0. b \in Readers /\ Len(b.src) = 0 /\ CopySize \in Nat \ {0} /\ b.src = <<>> /\ b.got = 0
  BY SeekerAssumption DEF Empty
<1> DEFINE S == {c \in Readers : c = b}
<1>1. b \in S /\ Len(b.src) \in Nat
  BY <1>0
<1>2. R!CopyOn(b) = b
  <2>1. R!Least(0 + CopySize, Len(<<>>)) = 0
    BY <1>0 DEF R!Least
  <2>2. R!Slice(<<>>, 0, CopySize) = SubSeq(<<>>, 1, 0)
    BY <2>1 DEF R!Slice
  <2>3. R!Slice(b.src, b.got, CopySize) = <<>>
    BY <1>0, <2>2, SubSeqEmpty
  <2> QED BY <2>3 DEF R!CopyOn, R!Copied
<1>3. ToEndRuns(S, b)
  <2>1. \A c \in S : R!CopyOn(c) \in S
    BY <1>0, <1>2
  <2> HIDE DEF S
  <2> QED BY <1>1, <2>1, ToEndLoop
<1>4. R!ReadToEnd(b) = R!EndKnown(R!FlushRest(b))
  <2>1. PICK f \in [0..0 -> S] : R!ReadToEnd(b) = R!EndKnown(R!FlushRest(f[0]))
    <3> HIDE DEF S
    <3> QED BY <1>0, <1>3 DEF ToEndRuns
  <2>2. f[0] = b
    OBVIOUS
  <2> QED BY <2>1, <2>2
<1>5. PICK e : e = R!EndKnown(b)
  OBVIOUS
<1>6. e = R!ReadToEnd(b)
  BY <1>4, <1>5 DEF R!FlushRest, Empty
<1>7. e \in Readers /\ e.src = b.src /\ e.temp = b.temp /\ e.got = b.got /\ e.buf = b.buf /\ e.total \in Nat
  BY <1>0, <1>5 DEF R!EndKnown, Readers
<1> QED BY <1>6, <1>7 DEF Empty

(* the measuring of the stream,                                            *)
LEMMA EmptySize ==
    ASSUME NEW b, Empty(b)
    PROVE  Empty(R!Size(b))
<1>1. CASE b.known
  BY <1>1 DEF R!Size
<1>2. CASE ~b.known
  <2>1. PICK e : e = R!ReadToEnd(b)
    OBVIOUS
  <2>2. Empty(e) /\ e.total \in Nat
    BY <2>1, EmptyEnd
  <2>3. e.total + 0 = e.total
    BY <2>2
  <2>4. PICK x : x = R!SeekTo(e, e.total)
    OBVIOUS
  <2>5. Empty(x) /\ b.index \in Nat /\ x.index \in Nat
    BY <2>2, <2>4, EmptySeeks, Fields DEF Empty
  <2>6. PICK y : y = R!SeekTo(x, b.index)
    OBVIOUS
  <2>7. Empty(y)
    BY <2>5, <2>6, EmptySeeks
  <2>8. PICK z : z = R!Size(b)
    OBVIOUS
  <2>9. z = [y EXCEPT !.total = x.index, !.known = TRUE]
    BY <1>2, <2>1, <2>3, <2>4, <2>6, <2>8 DEF R!Size, R!Measured, R!SeekEnd, R!FromEnd
  <2>10. z \in Readers /\ z.src = y.src /\ z.temp = y.temp /\ z.got = y.got /\ z.buf = y.buf
    BY <2>5, <2>7, <2>9 DEF Empty, Readers
  <2> QED BY <2>7, <2>8, <2>10 DEF Empty
<1> QED BY <1>1, <1>2

(* and the search for an APK.                                              *)
LEMMA EmptySearch ==
    ASSUME NEW b, Empty(b)
    PROVE  Empty(Search(b))
<1>1. PICK z : z = R!Size(b)
  OBVIOUS
<1>2. Empty(z) /\ z.index \in Nat /\ Header \in Nat
  BY <1>1, EmptySize, Fields, HeaderAssumption DEF Empty
<1>3. PICK x : x = R!SeekTo(z, 1)
  OBVIOUS
<1>4. Empty(x)
  BY <1>2, <1>3, EmptySeeks
<1>5. PICK r : r = R!Read(x, Header)
  OBVIOUS
<1>6. r \in Reads /\ Empty(r.br)
  BY <1>2, <1>4, <1>5, EmptyReads
<1>7. PICK y : y = R!SeekTo(r.br, z.index)
  OBVIOUS
<1>8. Empty(y)
  BY <1>2, <1>6, <1>7, EmptySeeks
<1>9. Empty(R!ReadAt(z, Header, 1).br)
  <2>1. CASE r.eof
    BY <1>3, <1>5, <1>6, <2>1 DEF R!ReadAt, R!PutBack
  <2>2. CASE ~r.eof
    <3>1. R!ReadAt(z, Header, 1) = [r EXCEPT !.br = y]
      BY <1>3, <1>5, <1>7, <2>2 DEF R!ReadAt, R!PutBack
    <3>2. R!ReadAt(z, Header, 1).br = y
      BY <1>6, <3>1 DEF Reads
    <3> QED BY <1>8, <3>2
  <2> QED BY <2>1, <2>2
<1> QED BY <1>1, <1>9, EmptySeeks DEF Search

-----------------------------------------------------------------------------
(* A reader of a stream that was just opened.                              *)
LEMMA FreshIs ==
    ASSUME NEW s \in Seq(Nat), NEW b, b = R!NewBufferedReaderSeeker(s)
    PROVE  Start(b, s) /\ (s = <<>> => Empty(b))
<1>0. Threshold \in Nat \ {0}
  BY SeekerAssumption
<1>1. /\ b \in Readers /\ b.src = s /\ b.got = 0 /\ b.buf = <<>> /\ b.bytesRead = 0
      /\ b.index = 0 /\ b.temp = FALSE /\ b.file = <<>> /\ b.foff = 0 /\ b.disk = 0
      /\ b.total = 0 /\ b.known = FALSE
  BY DEF R!NewBufferedReaderSeeker, Readers
<1>2. SubSeq(s, 1, 0) = <<>> /\ SubSeq(s, 0 + 1, 0) = <<>> /\ 0 <= Len(s)
  BY SubSeqEmpty
<1>3. Base(b, s)
  BY <1>0, <1>1, <1>2 DEF Base
<1>4. Reading(b, s)
  BY <1>1, <1>3 DEF Reading, KnownRight
<1> QED BY <1>1, <1>4 DEF Start, Held, Empty

(* However the type of an entry is detected, a chunk reader then reads it  *)
(* whole, from its start: newFileReader of handlers.go over pkg/iobuf.     *)
THEOREM ReadsWhole ==
    ASSUME NEW n \in Nat, NEW type \in Types
    PROVE  R!Rest(Sniffed(n, type), 1) = [i \in 1..n |-> i]
<1>1. PICK s : s = [i \in 1..n |-> i]
  OBVIOUS
<1>2. s \in Seq(Nat) /\ Len(s) = n
  BY <1>1
<1>3. PICK b : b = Fresh(n)
  OBVIOUS
<1>4. Start(b, s) /\ (s = <<>> => Empty(b))
  BY <1>1, <1>2, <1>3, FreshIs DEF Fresh
<1>5. \A c : Start(c, s) => R!Rest(c, 1) = s
  BY <1>2, RestIsStream DEF Start, Held, Readable
<1>6. \A c : Start(c, s) => Start(Sniff(c), s)
  BY <1>2, SniffHeld
<1>7. CASE type = "text"
  BY <1>1, <1>3, <1>4, <1>5, <1>6, <1>7 DEF Sniffed
<1>8. CASE type = "other"
  BY <1>1, <1>3, <1>4, <1>5, <1>6, <1>8 DEF Sniffed
<1>9. CASE type = "zip" /\ s # <<>>
  <2>1. \A c : Start(c, s) => Start(Search(c), s)
    BY <1>2, <1>9, SearchHeld
  <2> QED BY <1>1, <1>3, <1>4, <1>5, <1>6, <1>9, <2>1 DEF Sniffed
<1>10. CASE type = "zip" /\ s = <<>>
  <2>1. R!Rest(Sniff(Search(Sniff(b))), 1) = <<>>
    BY <1>4, <1>10, EmptySniff, EmptySearch, EmptyRest
  <2> QED BY <1>1, <1>3, <1>10, <2>1 DEF Sniffed
<1> QED BY <1>7, <1>8, <1>9, <1>10 DEF Types

-----------------------------------------------------------------------------
Active == {"read", "send", "fail", "plain"}

Shape ==
    /\ hpc \in {"new", "next", "content", "write", "plain", "measure", "close", "done"}
    /\ rpc \in [Ents -> Active \cup {"new", "off"}]
    /\ after \in {"next", "close"}

(* A reader is that of an entry the file has.                              *)
RealEntries ==
    /\ file \in Files /\ ent \in Nat \ {0}
    /\ \A e \in Ents : rpc[e] \in Active => e <= Len(file.entries)

(* While the context stands, the entry the handler reads has the only      *)
(* reader.                                                                 *)
OneReader ==
    ~ctxDone => \A e \in Ents : rpc[e] \in Active => e = ent /\ hpc \in {"content", "write"}

(* Before the handler starts there is no reader.                           *)
NotStarted == hpc = "new" => \A e \in Ents : rpc[e] = "new"

(* The context ends with an interruption, or after the result.             *)
WhyDone == ctxDone => interrupted \/ res # "none"

(* The result nil comes after the handler.                                 *)
NilIsLast ==
    res = "nil" /\ ~interrupted =>
        hpc \in {"new", "done"} /\ \A e \in Ents : rpc[e] \notin Active

IInv == Shape /\ RealEntries /\ OneReader /\ NotStarted /\ WhyDone /\ NilIsLast

-----------------------------------------------------------------------------
(* Where the handler goes when it leaves an entry or fails.                *)
LEMMA LeaveGoes ==
    ASSUME NEW what, Leave(what)
    PROVE  /\ hpc' \in {"next", "plain", "close", "measure"}
           /\ after' \in {after, "next", "close"} /\ ent' \in {ent, ent + 1}
<1>1. CASE UNCHANGED <<out, after>> /\ (To("next", ent + 1) \/ To("close", ent))
  BY <1>1 DEF To
<1>2. CASE SendPlainly(Warning, "next") \/ SendPlainly(Fatal, "close")
  BY <1>2 DEF SendPlainly, To
<1>3. CASE Fail(what = "cut")
  BY <1>3 DEF Fail, To
<1> QED BY <1>1, <1>2, <1>3 DEF Leave

(* The handler's steps keep the invariant.                                 *)
LEMMA HandlerKeeps == IInv /\ HandlerStep => IInv'
<1> SUFFICES ASSUME IInv, HandlerStep PROVE IInv'
  OBVIOUS
<1> USE DEF IInv, callerVars, readerVars
<1>0. ~interrupted => res # "nil"
  BY DEF NilIsLast, HandlerStep, NextEntry, TakeChunk, ContentDone, Write,
         PlainSend, Measure, CloseData
<1>a. ASSUME UNCHANGED <<ctxDone, interrupted, res>>, Shape', OneReader', hpc' # "new",
             ent' \in {ent, ent + 1},
             \A e \in Ents : rpc'[e] \in Active => e <= Len(file.entries)
      PROVE  IInv'
  <2>1. file' = file
    BY DEF HandlerStep, NextEntry, TakeChunk, ContentDone, Write, PlainSend, Measure,
           CloseData
  <2> QED BY <1>0, <1>a, <2>1 DEF RealEntries, NotStarted, WhyDone, NilIsLast
<1>b. ASSUME UNCHANGED <<rpc, ctxDone>>, \A e \in Ents : rpc[e] \notin Active
      PROVE  OneReader'
  BY <1>b DEF OneReader
<1>1. CASE NextEntry
  <2>1. /\ hpc = "next" /\ UNCHANGED <<ctxDone, interrupted, res>>
    BY <1>1 DEF NextEntry
  <2>2. ~ctxDone => \A e \in Ents : rpc[e] \notin Active
    BY <2>1 DEF OneReader
  <2>3. CASE ctxDone /\ file.kind \in {"archive", "ar", "rpm"} /\ ~LoadFails
    BY <1>1, <1>a, <2>1, <2>3 DEF NextEntry, Fail, To, Shape, OneReader, RealEntries
  <2>4. CASE /\ ~(ctxDone /\ file.kind \in {"archive", "ar", "rpm"} /\ ~LoadFails)
             /\ ent > Len(file.entries)
    <3>1. hpc' = "close" /\ UNCHANGED <<ent, after, rpc>>
      BY <1>1, <2>4 DEF NextEntry, To
    <3>2. Shape'
      BY <3>1 DEF Shape
    <3>3. OneReader'
      BY <1>b, <2>1, <2>2, <3>1 DEF OneReader
    <3> QED BY <1>a, <2>1, <3>1, <3>2, <3>3 DEF RealEntries
  <2>5. CASE /\ ~(ctxDone /\ file.kind \in {"archive", "ar", "rpm"} /\ ~LoadFails)
             /\ ~(ent > Len(file.entries))
             /\ file.entries[ent].open = "ok"
    <3>1. /\ hpc' = "content" /\ ent' = ent /\ after' = after
          /\ rpc' = [rpc EXCEPT ![ent] = "read"]
      BY <1>1, <2>5 DEF NextEntry, To
    <3>2. Shape'
      BY <3>1 DEF Shape, Active
    <3>3. OneReader'
      BY <2>1, <2>2, <3>1 DEF OneReader, Shape
    <3>4. \A e \in Ents : rpc'[e] \in Active => e <= Len(file.entries)
      <4>1. ent \in Nat /\ Len(file.entries) \in Nat
        BY FilesAssumption DEF RealEntries, File
      <4> QED BY <2>5, <3>1, <4>1 DEF RealEntries, Shape, Ents
    <3> QED BY <1>a, <2>1, <3>1, <3>2, <3>3, <3>4
  <2>6. CASE /\ ~(ctxDone /\ file.kind \in {"archive", "ar", "rpm"} /\ ~LoadFails)
             /\ ~(ent > Len(file.entries))
             /\ file.entries[ent].open # "ok"
    <3>1. Leave(file.entries[ent].open) /\ UNCHANGED rpc
      BY <1>1, <2>6 DEF NextEntry
    <3>2. /\ hpc' \in {"next", "plain", "close", "measure"}
          /\ after' \in {after, "next", "close"} /\ ent' \in {ent, ent + 1}
      BY <3>1, LeaveGoes
    <3>3. Shape'
      BY <3>1, <3>2 DEF Shape
    <3>4. OneReader'
      BY <2>1, <2>2, <3>1 DEF OneReader
    <3> QED BY <1>a, <2>1, <3>1, <3>2, <3>3, <3>4 DEF RealEntries
  <2> QED BY <2>3, <2>4, <2>5, <2>6
<1>2. CASE TakeChunk
  <2>1. hpc = "content" /\ UNCHANGED <<ctxDone, interrupted, res, rpc>>
    BY <1>2 DEF TakeChunk
  <2>2. CASE ctxDone
    <3>1. Leave("cut")
      BY <1>2, <2>2 DEF TakeChunk
    <3>2. /\ hpc' \in {"next", "plain", "close", "measure"}
          /\ after' \in {after, "next", "close"} /\ ent' \in {ent, ent + 1}
      BY <3>1, LeaveGoes
    <3> QED BY <1>a, <2>1, <2>2, <3>2 DEF Shape, OneReader, RealEntries
  <2>3. CASE ~ctxDone
    <3>1. hpc' = "write" /\ ent' = ent /\ after' = after
      BY <1>2, <2>3 DEF TakeChunk, To
    <3> QED BY <1>a, <2>1, <3>1 DEF Shape, OneReader, RealEntries
  <2> QED BY <2>2, <2>3
<1>3. CASE ContentDone
  <2>1. /\ hpc' = "next" /\ rpc[ent] = "off" /\ ent' = ent + 1
        /\ UNCHANGED <<ctxDone, interrupted, res, rpc, after>>
    BY <1>3 DEF ContentDone, To
  <2> QED BY <1>a, <2>1 DEF Shape, OneReader, RealEntries, Active
<1>4. CASE Write
  <2>1. hpc = "write" /\ UNCHANGED <<ctxDone, interrupted, res, rpc>>
    BY <1>4 DEF Write
  <2>2. CASE ctxDone /\ Leave("cut")
    <3>1. /\ hpc' \in {"next", "plain", "close", "measure"}
          /\ after' \in {after, "next", "close"} /\ ent' \in {ent, ent + 1}
      BY <2>2, LeaveGoes
    <3> QED BY <1>a, <2>1, <2>2, <3>1 DEF Shape, OneReader, RealEntries
  <2>3. CASE hpc' = "content" /\ ent' = ent /\ after' = after
    BY <1>a, <2>1, <2>3 DEF Shape, OneReader, RealEntries
  <2> QED BY <1>4, <2>2, <2>3 DEF Write, To
<1>5. CASE PlainSend \/ Measure \/ CloseData
  <2>1. /\ hpc \in {"plain", "measure", "close"} /\ hpc' \in {"close", "next", "done"}
        /\ ent' \in {ent, ent + 1}
        /\ UNCHANGED <<ctxDone, interrupted, res, rpc, after>>
    BY <1>5 DEF PlainSend, Measure, CloseData, To, Shape
  <2> QED BY <1>a, <2>1 DEF Shape, OneReader, RealEntries
<1> QED BY <1>1, <1>2, <1>3, <1>4, <1>5 DEF HandlerStep

(* So do the chunk readers', and those of the caller and the timer.        *)
LEMMA OthersKeep ==
    ASSUME IInv, [Next]_vars, ~HandlerStep
    PROVE  IInv'
<1> USE DEF IInv, callerVars, handlerVars, readerVars
<1>1. ASSUME NEW e \in Ents, ReaderStep(e) PROVE IInv'
  <2>1. rpc[e] \in Active /\ UNCHANGED <<file, hpc, ent, after, ctxDone, interrupted, res>>
    BY <1>1 DEF ReaderStep, ReadNext, SendChunk, Send, Active
  <2>2. \E x \in Active \cup {"off"} : rpc' = [rpc EXCEPT ![e] = x]
    <3>1. CASE ReadNext(e) /\ view[e] # <<>>
      BY <3>1 DEF ReadNext, Active
    <3>2. CASE ReadNext(e) /\ ~(view[e] # <<>>)
      <4>1. file.entries \in Seq(Entry) /\ e \in 1..Len(file.entries)
        BY <2>1, FilesAssumption DEF RealEntries, File, Ents
      <4>2. file.entries[e] \in Entry
        BY <4>1
      <4>3. file.entries[e].end \in {"eof", "error", "panic"}
        BY <4>2 DEF Entry
      <4> QED BY <3>2, <4>3 DEF ReadNext, Active
    <3>3. CASE Send(e)
      BY <3>3 DEF Send, Active
    <3>4. CASE rpc' = [rpc EXCEPT ![e] = "off"]
      BY <3>4
    <3> QED BY <1>1, <3>1, <3>2, <3>3, <3>4 DEF ReaderStep, SendChunk
  <2>3. Shape'
    BY <2>1, <2>2 DEF Shape
  <2>4. \A d \in Ents : rpc'[d] \in Active => rpc[d] \in Active
    BY <2>1, <2>2 DEF Shape
  <2>5. hpc # "new"
    BY <2>1 DEF NotStarted, Active
  <2> QED BY <2>1, <2>3, <2>4, <2>5
           DEF RealEntries, OneReader, NotStarted, WhyDone, NilIsLast
<1>2. CASE Begin
  <2>1. /\ hpc = "new" /\ hpc' \in {"new", "next", "done"} /\ res = "none"
        /\ UNCHANGED <<file, rpc, ent, after, ctxDone, interrupted>>
        /\ res' # res => hpc' = "new"
    BY <1>2 DEF Begin
  <2>2. \A e \in Ents : rpc[e] \notin Active
    BY <2>1 DEF NotStarted, Active
  <2> QED BY <2>1, <2>2 DEF Shape, RealEntries, OneReader, NotStarted, WhyDone, NilIsLast
<1>3. CASE Receive
  <2>1. /\ res = "none" /\ UNCHANGED <<file, hpc, rpc, ent, after, ctxDone, interrupted>>
        /\ res' = "nil" => hpc = "done"
    BY <1>3 DEF Receive, Waiting
  <2>2. ~interrupted => ~ctxDone
    BY <2>1 DEF WhyDone
  <2> QED BY <2>1, <2>2 DEF Shape, RealEntries, OneReader, NotStarted, WhyDone, NilIsLast
<1>4. CASE GiveUp \/ ReportFails
  <2>1. UNCHANGED <<file, hpc, rpc, ent, after, ctxDone, interrupted>> /\ res' \in {"ctx", "refused"}
    BY <1>4 DEF GiveUp, ReportFails
  <2> QED BY <2>1 DEF Shape, RealEntries, OneReader, NotStarted, WhyDone, NilIsLast
<1>5. CASE Return
  <2>1. /\ UNCHANGED <<file, hpc, rpc, ent, after, interrupted, res>> /\ res # "none"
        /\ ctxDone'
    BY <1>5 DEF Return
  <2> QED BY <2>1 DEF Shape, RealEntries, OneReader, NotStarted, WhyDone, NilIsLast
<1>6. CASE Interrupt
  <2>1. UNCHANGED <<file, hpc, rpc, ent, after>> /\ ctxDone' /\ interrupted'
    BY <1>6 DEF Interrupt
  <2> QED BY <2>1 DEF Shape, RealEntries, OneReader, NotStarted, WhyDone, NilIsLast
<1>7. CASE ReportChunk \/ UNCHANGED vars
  <2>1. UNCHANGED <<file, hpc, rpc, ent, after, ctxDone, interrupted, res>>
    BY <1>7 DEF ReportChunk, vars
  <2> QED BY <2>1 DEF Shape, RealEntries, OneReader, NotStarted, WhyDone, NilIsLast
<1> QED BY <1>1, <1>2, <1>3, <1>4, <1>5, <1>6, <1>7 DEF Next, CallerStep

(* Nobody reads a file that is no longer theirs: an archive's stream never *)
(* has two readers while the context stands, and nothing that could touch  *)
(* the buffer Close gave back is left when HandleFile returns nil without  *)
(* an interruption.                                                        *)
THEOREM NoReaderIsLeft == Spec => []ReadersAreJoined
<1>1. Init => IInv
  BY DEF Init, IInv, Shape, RealEntries, OneReader, NotStarted, WhyDone, NilIsLast, Active
<1>2. IInv /\ [Next]_vars => IInv'
  BY HandlerKeeps, OthersKeep
<1>3. IInv => ReadersAreJoined
  BY DEF IInv, Shape, OneReader, NilIsLast, Active, ReadersAreJoined
<1> QED BY <1>1, <1>2, <1>3, PTL DEF Spec

-----------------------------------------------------------------------------
(* What a file is.                                                         *)
LEMMA FileIs ==
    ASSUME file \in Files
    PROVE  /\ file.kind \in Kinds \cup Unhandled /\ file.entries \in Seq(Entry)
           /\ Len(file.entries) \in Nat /\ Len(file.entries) <= MaxEntries
           /\ MaxEntries \in Nat /\ MaxChunks \in Nat
<1>1. file \in File /\ Len(file.entries) <= MaxEntries /\ MaxEntries \in Nat /\ MaxChunks \in Nat
  BY FilesAssumption
<1>2. file.kind \in Kinds \cup Unhandled /\ file.entries \in Seq(Entry)
  BY <1>1 DEF File
<1> QED BY <1>1, <1>2

(* What an entry of a file is.                                             *)
LEMMA EntryIs ==
    ASSUME file \in Files, NEW e \in 1..Len(file.entries)
    PROVE  /\ file.entries[e] \in Entry /\ file.entries[e].open \in Openings
           /\ file.entries[e].chunks \in 0..MaxChunks
           /\ file.entries[e].end \in {"eof", "error", "panic"} /\ e \in Ents
<1>1. file.entries[e] \in Entry
  BY FileIs
<1> QED BY <1>1, FileIs DEF Entry, Ents

(* A chunk reader reads the chunks of its entry, whatever the type that    *)
(* was detected before it.                                                 *)
LEMMA ViewsAre ==
    ASSUME file \in Files, NEW e \in 1..Len(file.entries), NEW v \in Views(file.entries[e])
    PROVE  v = [i \in 1..file.entries[e].chunks |-> i] /\ v \in Seq(Positions)
<1>1. PICK c \in 0..MaxChunks : c = file.entries[e].chunks
  BY EntryIs
<1>2. MaxChunks \in Nat /\ c \in Nat /\ c <= MaxChunks
  BY FileIs
<1>3. v = [i \in 1..c |-> i]
  <2>1. CASE file.kind \notin {"default", "archive"}
    BY <1>1, <2>1 DEF Views
  <2>2. CASE file.kind \in {"default", "archive"}
    <3>1. PICK q \in Readings : q.chunks = c /\ v = q.view
      BY <1>1, <2>2 DEF Views
    <3>2. PICK n \in 0..MaxChunks, type \in Types :
              q = [chunks |-> n, type |-> type, view |-> R!Rest(Sniffed(n, type), 1)]
      BY <3>1 DEF Readings
    <3>3. n \in Nat /\ n = c /\ v = R!Rest(Sniffed(n, type), 1)
      BY <1>2, <3>1, <3>2
    <3> QED BY <3>3, ReadsWhole
  <2> QED BY <2>1, <2>2
<1>4. \A i \in 1..c : i \in Positions
  BY <1>2 DEF Positions
<1>5. v \in Seq(Positions)
  BY <1>2, <1>3, <1>4
<1> QED BY <1>1, <1>3, <1>5

-----------------------------------------------------------------------------
(* The type invariant.  The handler stands at an entry of the file, or     *)
(* just behind the last.                                                   *)
Standing ==
    /\ ent <= Len(file.entries) + 1
    /\ hpc \in {"content", "write"} \/ (hpc = "plain" /\ after = "next") =>
           ent <= Len(file.entries)

Typed ==
    /\ TypeOK /\ Standing
    /\ chunks \in [Ents -> Seq(0..MaxChunks)] /\ view \in [Ents -> Seq(Positions)]

(* Where the handler goes when it leaves an entry, and what it sends.      *)
LEMMA LeaveDoes ==
    ASSUME NEW what, Leave(what)
    PROVE  /\ hpc' \in {"next", "plain", "close", "measure"}
           /\ after' \in {after, "next", "close"} /\ out' \in {out, Warning, Fatal}
           /\ ent' = IF hpc' = "next" THEN ent + 1 ELSE ent
<1>1. CASE UNCHANGED <<out, after>> /\ (To("next", ent + 1) \/ To("close", ent))
  BY <1>1 DEF To
<1>2. CASE SendPlainly(Warning, "next") \/ SendPlainly(Fatal, "close")
  BY <1>2 DEF SendPlainly, To
<1>3. CASE Fail(what = "cut")
  BY <1>3 DEF Fail, To
<1> QED BY <1>1, <1>2, <1>3 DEF Leave

HandlerType ==
    /\ hpc \in {"new", "next", "content", "write", "plain", "measure", "close", "done"}
    /\ ent \in 1..MaxEntries + 1 /\ out \in Messages /\ after \in {"next", "close"}

(* Leaving an entry of the file.                                           *)
LEMMA LeaveTyped ==
    ASSUME Typed, NEW what, Leave(what), ent <= Len(file.entries), file' = file
    PROVE  HandlerType' /\ Standing'
<1>1. /\ hpc' \in {"next", "plain", "close", "measure"}
      /\ after' \in {after, "next", "close"} /\ out' \in {out, Warning, Fatal}
      /\ ent' = IF hpc' = "next" THEN ent + 1 ELSE ent
  BY LeaveDoes
<1>2. Len(file.entries) \in Nat /\ Len(file.entries) <= MaxEntries /\ MaxEntries \in Nat
  BY FileIs DEF Typed, TypeOK
<1>3. ent \in 1..MaxEntries + 1 /\ out \in Messages /\ after \in {"next", "close"}
  BY DEF Typed, TypeOK
<1>4. HandlerType'
  BY <1>1, <1>2, <1>3 DEF HandlerType, Messages
<1>5. Standing'
  BY <1>1, <1>2, <1>3 DEF Standing
<1> QED BY <1>4, <1>5

(* A step of the handler.                                                  *)
LEMMA HandlerTyped == Typed /\ HandlerStep => Typed'
<1> SUFFICES ASSUME Typed, HandlerStep PROVE Typed'
  OBVIOUS
<1>1. /\ file \in Files /\ Len(file.entries) \in Nat /\ Len(file.entries) <= MaxEntries
      /\ MaxEntries \in Nat /\ MaxChunks \in Nat /\ ent \in Nat /\ ent \in 1..MaxEntries + 1
      /\ HandlerType
  BY FileIs DEF Typed, TypeOK, HandlerType
<1>a. ASSUME HandlerType', Standing', UNCHANGED <<file, ctxDone, interrupted, callerVars>>,
             UNCHANGED <<data, rpc, pos, view, chunks>>
      PROVE  Typed'
  BY <1>a DEF Typed, TypeOK, HandlerType, callerVars
<1>b. ASSUME HandlerType', Standing', UNCHANGED <<file, ctxDone, interrupted, callerVars>>,
             UNCHANGED <<rpc, pos, view, chunks>>, Len(data) < DataCap,
             data' = Append(data, out)
      PROVE  Typed'
  <2>1. data' \in Seq(Messages) /\ Len(data') <= DataCap
    BY <1>b, CapAssumption DEF Typed, TypeOK
  <2> QED BY <1>b, <2>1 DEF Typed, TypeOK, HandlerType, callerVars
<1>2. CASE NextEntry
  <2>1. hpc = "next" /\ UNCHANGED <<file, ctxDone, interrupted, callerVars, data, pos, chunks>>
    BY <1>2 DEF NextEntry
  <2>2. CASE ctxDone /\ file.kind \in {"archive", "ar", "rpm"} /\ ~LoadFails
    <3>1. Fail(TRUE) /\ UNCHANGED <<rpc, view>>
      BY <1>2, <2>2 DEF NextEntry
    <3>2. hpc' \in {"close", "measure"} /\ ent' = ent /\ out' \in {Fatal, Warning} /\ after' = after
      BY <3>1 DEF Fail, To
    <3>3. HandlerType'
      BY <1>1, <3>2 DEF HandlerType, Messages
    <3>4. Standing'
      BY <1>1, <2>1, <3>2 DEF Standing, Typed
    <3> QED BY <1>a, <2>1, <3>1, <3>3, <3>4
  <2>3. CASE ~(ctxDone /\ file.kind \in {"archive", "ar", "rpm"} /\ ~LoadFails) /\ ent > Len(file.entries)
    <3>1. hpc' = "close" /\ UNCHANGED <<ent, out, after, rpc, view>>
      BY <1>2, <2>3 DEF NextEntry, To
    <3>2. HandlerType' /\ Standing'
      BY <1>1, <2>1, <3>1 DEF HandlerType, Standing, Typed
    <3> QED BY <1>a, <2>1, <3>1, <3>2
  <2>4. CASE /\ ~(ctxDone /\ file.kind \in {"archive", "ar", "rpm"} /\ ~LoadFails) /\ ~(ent > Len(file.entries))
             /\ file.entries[ent].open = "ok"
    <3>1. PICK v \in Views(file.entries[ent]) :
              /\ hpc' = "content" /\ UNCHANGED <<ent, out, after>>
              /\ rpc' = [rpc EXCEPT ![ent] = "read"] /\ view' = [view EXCEPT ![ent] = v]
      BY <1>2, <2>4 DEF NextEntry, To
    <3>2. ent \in 1..Len(file.entries)
      BY <1>1, <2>4
    <3>3. v \in Seq(Positions) /\ ent \in Ents
      BY <1>1, <3>2, ViewsAre, EntryIs
    <3>4. HandlerType' /\ Standing'
      BY <1>1, <2>1, <3>1, <3>2 DEF HandlerType, Standing
    <3>5. view' \in [Ents -> Seq(Positions)]
      BY <3>1, <3>3 DEF Typed
    <3>6. rpc' \in [Ents -> {"new", "read", "send", "fail", "plain", "off"}]
      BY <3>1 DEF Typed, TypeOK
    <3> QED BY <2>1, <3>4, <3>5, <3>6 DEF Typed, TypeOK, HandlerType, callerVars
  <2>5. CASE /\ ~(ctxDone /\ file.kind \in {"archive", "ar", "rpm"} /\ ~LoadFails) /\ ~(ent > Len(file.entries))
             /\ file.entries[ent].open # "ok"
    <3>1. Leave(file.entries[ent].open) /\ UNCHANGED <<rpc, view>>
      BY <1>2, <2>5 DEF NextEntry
    <3>2. ent <= Len(file.entries)
      BY <1>1, <2>5
    <3>3. HandlerType' /\ Standing'
      BY <2>1, <3>1, <3>2, LeaveTyped
    <3> QED BY <1>a, <2>1, <3>1, <3>3
  <2> QED BY <2>2, <2>3, <2>4, <2>5
<1>3. CASE TakeChunk
  <2>1. /\ hpc = "content" /\ chunks[ent] # <<>> /\ chunks' = [chunks EXCEPT ![ent] = Tail(@)]
        /\ UNCHANGED <<file, ctxDone, interrupted, callerVars, data, rpc, pos, view>>
    BY <1>3 DEF TakeChunk, readerVars
  <2>2. ent \in 1..Len(file.entries) /\ ent \in Ents
    <3>1. ent <= Len(file.entries)
      BY <2>1 DEF Typed, Standing
    <3> QED BY <1>1, <3>1 DEF Ents
  <2>3. chunks[ent] \in Seq(0..MaxChunks) /\ Len(chunks[ent]) <= ChunkCap /\ Len(chunks[ent]) \in Nat
    BY <2>2 DEF Typed, TypeOK
  <2>4. PICK rest : rest = Tail(chunks[ent])
    OBVIOUS
  <2>5. rest \in Seq(0..MaxChunks) /\ Len(rest) = Len(chunks[ent]) - 1
    BY <2>1, <2>3, <2>4, HeadTailProperties
  <2>6. Len(rest) <= ChunkCap
    BY <2>3, <2>5, CapAssumption
  <2>7. chunks' = [chunks EXCEPT ![ent] = rest]
    BY <2>1, <2>4
  <2>8. /\ chunks' \in [Ents -> Seq(0..MaxChunks)]
        /\ \A e \in Ents : chunks'[e] \in Seq(0..MaxChunks) /\ Len(chunks'[e]) <= ChunkCap
    BY <2>2, <2>5, <2>6, <2>7 DEF Typed, TypeOK
  <2>9. HandlerType' /\ Standing'
    <3>1. CASE ctxDone
      <4>1. Leave("cut") /\ ent <= Len(file.entries)
        BY <1>3, <2>2, <3>1 DEF TakeChunk
      <4> QED BY <2>1, <4>1, LeaveTyped
    <3>2. CASE ~ctxDone
      <4>1. PICK i : i = Head(chunks[ent])
        OBVIOUS
      <4>2. i \in 0..MaxChunks
        BY <2>1, <2>3, <4>1, HeadTailProperties
      <4>3. /\ hpc' = "write" /\ ent' = ent /\ after' = after
            /\ out' = IF i = 0 THEN Warning ELSE Datum(ent, i)
        BY <1>3, <3>2, <4>1 DEF TakeChunk, To
      <4>4. out' \in Messages
        BY <1>1, <2>2, <4>2, <4>3 DEF Messages, Positions
      <4>5. HandlerType'
        BY <1>1, <4>3, <4>4 DEF HandlerType
      <4>6. Standing'
        BY <1>1, <2>1, <2>2, <4>3 DEF Standing
      <4> QED BY <4>5, <4>6
    <3> QED BY <3>1, <3>2
  <2> QED BY <2>1, <2>8, <2>9 DEF Typed, TypeOK, HandlerType, callerVars
<1>4. CASE ContentDone
  <2>1. /\ hpc = "content" /\ hpc' = "next" /\ ent' = ent + 1
        /\ UNCHANGED <<file, ctxDone, interrupted, callerVars, out, after, data, rpc, pos, view, chunks>>
    BY <1>4 DEF ContentDone, To, readerVars
  <2>2. ent <= Len(file.entries)
    BY <2>1 DEF Typed, Standing
  <2>3. HandlerType'
    BY <1>1, <2>1, <2>2 DEF HandlerType
  <2>4. Standing'
    BY <1>1, <2>1, <2>2 DEF Standing
  <2> QED BY <1>a, <2>1, <2>3, <2>4
<1>5. CASE Write
  <2>1. hpc = "write" /\ UNCHANGED <<file, ctxDone, interrupted, callerVars, rpc, pos, view, chunks>>
    BY <1>5 DEF Write, readerVars
  <2>2. ent <= Len(file.entries)
    BY <2>1 DEF Typed, Standing
  <2>3. CASE Leave("cut") /\ UNCHANGED data
    <3>1. HandlerType' /\ Standing'
      BY <2>1, <2>2, <2>3, LeaveTyped
    <3> QED BY <1>a, <2>1, <2>3, <3>1
  <2>4. CASE Len(data) < DataCap /\ data' = Append(data, out) /\ To("content", ent) /\ UNCHANGED <<out, after>>
    <3>1. HandlerType'
      BY <1>1, <2>4 DEF HandlerType, To
    <3>2. Standing'
      BY <1>1, <2>1, <2>2, <2>4 DEF Standing, To
    <3> QED BY <1>b, <2>1, <2>4, <3>1, <3>2
  <2> QED BY <1>5, <2>3, <2>4 DEF Write
<1>6. CASE PlainSend
  <2>1. /\ hpc = "plain" /\ UNCHANGED <<file, ctxDone, interrupted, callerVars, rpc, pos, view, chunks>>
        /\ Len(data) < DataCap /\ data' = Append(data, out) /\ UNCHANGED <<out, after>>
        /\ hpc' = after /\ ent' = IF after = "next" THEN ent + 1 ELSE ent
    BY <1>6 DEF PlainSend, readerVars, To
  <2>2. after = "next" => ent <= Len(file.entries)
    BY <2>1 DEF Typed, Standing
  <2>3. HandlerType'
    BY <1>1, <2>1, <2>2 DEF HandlerType
  <2>4. Standing'
    BY <1>1, <2>1, <2>2 DEF Standing, Typed, HandlerType
  <2> QED BY <1>b, <2>1, <2>3, <2>4
<1>7. CASE Measure \/ CloseData
  <2>1. /\ hpc' \in {"close", "done"} /\ ent' = ent /\ UNCHANGED <<out, after>>
        /\ UNCHANGED <<file, ctxDone, interrupted, callerVars, rpc, pos, view, chunks>>
        /\ UNCHANGED data \/ (Len(data) < DataCap /\ data' = Append(data, out))
    BY <1>7 DEF Measure, CloseData, readerVars, To
  <2>2. HandlerType'
    BY <1>1, <2>1 DEF HandlerType
  <2>3. Standing'
    BY <1>1, <2>1 DEF Standing, Typed
  <2> QED BY <1>a, <1>b, <2>1, <2>2, <2>3
<1> QED BY <1>2, <1>3, <1>4, <1>5, <1>6, <1>7 DEF HandlerStep

(* A step of a chunk reader.                                               *)
LEMMA ReaderTyped == Typed /\ IInv /\ (\E e \in Ents : ReaderStep(e)) => Typed'
<1> SUFFICES ASSUME Typed, IInv, NEW e \in Ents, ReaderStep(e) PROVE Typed'
  OBVIOUS
<1>1. UNCHANGED <<file, ctxDone, interrupted, callerVars, handlerVars, data>>
  BY DEF ReaderStep, ReadNext, SendChunk, Send
<1>a. ASSUME rpc' \in [Ents -> {"new", "read", "send", "fail", "plain", "off"}],
             pos' \in [Ents -> 0..MaxChunks], view' \in [Ents -> Seq(Positions)],
             chunks' \in [Ents -> Seq(0..MaxChunks)],
             \A d \in Ents : Len(chunks'[d]) <= ChunkCap
      PROVE  Typed'
  BY <1>1, <1>a DEF Typed, TypeOK, Standing, callerVars, handlerVars
<1>2. /\ rpc \in [Ents -> {"new", "read", "send", "fail", "plain", "off"}]
      /\ pos \in [Ents -> 0..MaxChunks] /\ view \in [Ents -> Seq(Positions)]
      /\ chunks \in [Ents -> Seq(0..MaxChunks)] /\ \A d \in Ents : Len(chunks[d]) <= ChunkCap
      /\ file \in Files
  BY DEF Typed, TypeOK
<1>3. CASE ReadNext(e) /\ view[e] # <<>>
  <2>1. PICK v \in Seq(Positions) : v = view[e]
    BY <1>2
  <2>2. PICK i, rest : i = Head(v) /\ rest = Tail(v)
    OBVIOUS
  <2>3. i \in Positions /\ rest \in Seq(Positions)
    BY <1>3, <2>1, <2>2, HeadTailProperties
  <2>4. i \in 0..MaxChunks
    BY <2>3, FilesAssumption DEF Positions
  <2>5. /\ pos' = [pos EXCEPT ![e] = i] /\ view' = [view EXCEPT ![e] = rest]
        /\ rpc' = [rpc EXCEPT ![e] = "send"] /\ UNCHANGED chunks
    BY <1>3, <2>1, <2>2 DEF ReadNext
  <2>6. pos' \in [Ents -> 0..MaxChunks]
    BY <1>2, <2>4, <2>5
  <2>7. view' \in [Ents -> Seq(Positions)]
    BY <1>2, <2>3, <2>5
  <2> QED BY <1>2, <1>a, <2>5, <2>6, <2>7
<1>4. CASE ReadNext(e) /\ view[e] = <<>>
  <2>1. rpc[e] \in Active /\ UNCHANGED <<pos, view, chunks>>
    BY <1>4 DEF ReadNext, Active
  <2>2. e \in 1..Len(file.entries)
    BY <1>2, <2>1, FileIs DEF IInv, RealEntries, Ents
  <2>3. file.entries[e].end \in {"eof", "error", "panic"}
    BY <1>2, <2>2, EntryIs
  <2>4. PICK x \in {"off", "fail", "plain"} : rpc' = [rpc EXCEPT ![e] = x]
    BY <1>4, <2>3 DEF ReadNext
  <2> QED BY <1>2, <1>a, <2>1, <2>4
<1>5. CASE Send(e)
  <2>1. PICK i : i = IF rpc[e] = "send" THEN pos[e] ELSE 0
    OBVIOUS
  <2>2. i \in 0..MaxChunks
    BY <1>2, <2>1, FilesAssumption
  <2>3. PICK q : q = Append(chunks[e], i)
    OBVIOUS
  <2>4. q \in Seq(0..MaxChunks) /\ Len(q) <= ChunkCap
    BY <1>2, <1>5, <2>2, <2>3, CapAssumption, AppendProperties DEF Send
  <2>5. chunks' = [chunks EXCEPT ![e] = q] /\ UNCHANGED <<pos, view>>
    BY <1>5, <2>1, <2>3 DEF Send
  <2>6. PICK x \in {"read", "off"} : rpc' = [rpc EXCEPT ![e] = x]
    BY <1>5 DEF Send
  <2>7. chunks' \in [Ents -> Seq(0..MaxChunks)] /\ \A d \in Ents : Len(chunks'[d]) <= ChunkCap
    BY <1>2, <2>4, <2>5
  <2> QED BY <1>2, <1>a, <2>5, <2>6, <2>7
<1>6. CASE rpc' = [rpc EXCEPT ![e] = "off"] /\ UNCHANGED <<pos, view, chunks>>
  BY <1>2, <1>6, <1>a
<1> QED BY <1>3, <1>4, <1>5, <1>6 DEF ReaderStep, SendChunk, ReadNext

(* A step of the caller, of the timer, or none.                            *)
CallerSteps == CallerStep \/ ReportChunk \/ ReportFails \/ Interrupt \/ UNCHANGED vars

(* The caller, the timer and a step of nobody keep the types.              *)
LEMMA CallerTyped == Typed /\ CallerSteps => Typed'
<1> SUFFICES ASSUME Typed, CallerSteps PROVE Typed'
  OBVIOUS
<1> USE DEF callerVars, handlerVars, readerVars
<1>a. ASSUME UNCHANGED <<file, ent, out, after, readerVars, chunks>>,
             {ctxDone', interrupted', closed'} \subseteq BOOLEAN,
             res' \in {"none", "nil", "fatal", "ctx", "refused", "unreadable"},
             inHand' \in {<<>>} \cup (Ents \X Positions),
             reported' \in Seq(Ents \X Positions), hpc' \in {hpc, "next", "done"},
             hpc' # hpc => hpc = "new",
             data' \in Seq(Messages) /\ Len(data') <= DataCap
      PROVE  Typed'
  <2>1. Standing'
    BY <1>a DEF Typed, Standing
  <2>2. TypeOK'
    BY <1>a DEF Typed, TypeOK
  <2> QED BY <1>a, <2>1, <2>2 DEF Typed
<1>0. /\ {ctxDone, interrupted, closed} \subseteq BOOLEAN
      /\ res \in {"none", "nil", "fatal", "ctx", "refused", "unreadable"}
      /\ inHand \in {<<>>} \cup (Ents \X Positions) /\ reported \in Seq(Ents \X Positions)
      /\ data \in Seq(Messages) /\ Len(data) <= DataCap
  BY DEF Typed, TypeOK
<1>1. CASE Begin
  BY <1>0, <1>1, <1>a DEF Begin
<1>2. CASE Receive
  <2>1. CASE data = <<>>
    BY <1>0, <1>2, <1>a, <2>1 DEF Receive
  <2>2. CASE data # <<>>
    <3>1. PICK m, rest : m = Head(data) /\ rest = Tail(data)
      OBVIOUS
    <3>2. m \in Messages /\ rest \in Seq(Messages) /\ Len(rest) = Len(data) - 1
      BY <1>0, <2>2, <3>1, HeadTailProperties
    <3>3. Len(rest) <= DataCap
      BY <1>0, <3>2, CapAssumption
    <3>4. m.type = "data" => m.of \in Ents \X Positions
      BY <3>2 DEF Messages, Warning, Fatal, Datum
    <3>5. /\ data' = rest /\ res' \in {res, "fatal"}
          /\ inHand' = IF m.type = "data" THEN m.of ELSE <<>>
          /\ UNCHANGED <<file, ctxDone, interrupted, closed, reported, handlerVars, readerVars, chunks>>
      BY <1>2, <2>2, <3>1 DEF Receive
    <3> QED BY <1>0, <1>a, <3>2, <3>3, <3>4, <3>5
  <2> QED BY <2>1, <2>2
<1>3. CASE GiveUp
  BY <1>0, <1>3, <1>a DEF GiveUp
<1>4. CASE Return
  BY <1>0, <1>4, <1>a DEF Return
<1>5. CASE ReportChunk
  <2>1. inHand \in Ents \X Positions
    BY <1>0, <1>5 DEF ReportChunk
  <2>2. Append(reported, inHand) \in Seq(Ents \X Positions)
    BY <1>0, <2>1, AppendProperties
  <2> QED BY <1>0, <1>5, <1>a, <2>2 DEF ReportChunk
<1>6. CASE ReportFails
  BY <1>0, <1>6, <1>a DEF ReportFails
<1>7. CASE Interrupt
  BY <1>0, <1>7, <1>a DEF Interrupt
<1>8. CASE UNCHANGED vars
  BY <1>0, <1>8, <1>a DEF vars
<1> QED BY <1>1, <1>2, <1>3, <1>4, <1>5, <1>6, <1>7, <1>8 DEF CallerSteps, CallerStep

(* Every step keeps the types, given that readers are at real entries.     *)
LEMMA TypedKept == Typed /\ IInv /\ [Next]_vars => Typed'
BY HandlerTyped, ReaderTyped, CallerTyped DEF Next, CallerSteps

(* The types hold at the start.                                            *)
LEMMA InitTyped == Init => Typed
<1> SUFFICES ASSUME Init PROVE Typed
  OBVIOUS
<1>1. file \in Files
  BY DEF Init
<1>2. /\ Len(file.entries) \in Nat /\ MaxEntries \in Nat /\ MaxChunks \in Nat
      /\ DataCap \in Nat /\ ChunkCap \in Nat
  BY <1>1, FileIs, CapAssumption
<1>3. /\ pos \in [Ents -> 0..MaxChunks] /\ view \in [Ents -> Seq(Positions)]
      /\ chunks \in [Ents -> Seq(0..MaxChunks)] /\ \A e \in Ents : Len(chunks[e]) = 0
  BY <1>2 DEF Init
<1>4. Standing
  BY <1>2 DEF Init, Standing
<1>5. data \in Seq(Messages) /\ Len(data) = 0 /\ reported \in Seq(Ents \X Positions)
  BY DEF Init
<1>6. ent \in 1..MaxEntries + 1 /\ out \in Messages
  BY <1>2 DEF Init, Messages
<1>7. /\ {ctxDone, interrupted, closed} \subseteq BOOLEAN /\ res = "none" /\ inHand = <<>>
      /\ hpc = "new" /\ after = "close"
      /\ rpc \in [Ents -> {"new", "read", "send", "fail", "plain", "off"}]
  BY DEF Init
<1>8. \A e \in Ents : chunks[e] \in Seq(0..MaxChunks) /\ Len(chunks[e]) <= ChunkCap
  BY <1>2, <1>3
<1> QED BY <1>1, <1>2, <1>3, <1>4, <1>5, <1>6, <1>7, <1>8 DEF Typed, TypeOK

(* The type invariant: every channel stays within its capacity, the handler*)
(* at an entry of the file, and what a chunk reader reads is a chunk.      *)
THEOREM TypeCorrect == Spec => []TypeOK
<1>1. Init => IInv
  BY DEF Init, IInv, Shape, RealEntries, OneReader, NotStarted, WhyDone, NilIsLast, Active
<1>2. IInv /\ [Next]_vars => IInv'
  BY HandlerKeeps, OthersKeep
<1>3. Typed => TypeOK
  BY DEF Typed
<1> QED BY <1>1, <1>2, <1>3, InitTyped, TypedKept, PTL DEF Spec

-----------------------------------------------------------------------------
(* Sequences joined one after the other.                                   *)
Joins(A, n, p, F) ==
    /\ F \in [0..n -> Seq(A)] /\ F[0] = <<>>
    /\ \A k \in 1..n : F[k] = F[k - 1] \o p[k]

(* The pieces of a sequence of pieces can be joined: by induction on their *)
(* number.                                                                 *)
LEMMA CanJoin ==
    ASSUME NEW A, NEW n \in Nat, NEW p \in [1..n -> Seq(A)]
    PROVE  \E F : Joins(A, n, p, F)
<1> DEFINE S == Nat \X Seq(A)
           Next1(x) == <<x[1] + 1, IF x[1] + 1 \in 1..n THEN x[2] \o p[x[1] + 1] ELSE x[2]>>
           g == [x \in S |-> Next1(x)]
           a == <<0, <<>> >>
<1>1. a \in S
  <2>1. 0 \in Nat /\ <<>> \in Seq(A)
    BY EmptySeq
  <2> QED BY <2>1
<1>2. ASSUME NEW x \in S PROVE Next1(x) \in S
  <2>1. x[1] \in Nat /\ x[2] \in Seq(A)
    OBVIOUS
  <2>2. x[1] + 1 \in 1..n => x[2] \o p[x[1] + 1] \in Seq(A)
    BY <2>1, ConcatProperties
  <2>3. PICK i, q : i = x[1] + 1 /\ q = IF x[1] + 1 \in 1..n THEN x[2] \o p[x[1] + 1] ELSE x[2]
    OBVIOUS
  <2>4. i \in Nat /\ q \in Seq(A)
    BY <2>1, <2>2, <2>3
  <2>5. Next1(x) = <<i, q>>
    BY <2>3
  <2> QED BY <2>4, <2>5
<1>3. g \in [S -> S] /\ \A x \in S : g[x] = Next1(x)
  BY <1>2
<1>4. Iterated(S, a, g, n)
  <2> HIDE DEF S, a, g
  <2> QED BY <1>1, <1>3, Iterates
<1>5. PICK f \in [0..n -> S] : \A k \in 0..n : f[k] = IF k = 0 THEN a ELSE g[f[k - 1]]
  BY <1>4 DEF Iterated
<1>6. f[0] = a /\ \A k \in 1..n : f[k - 1] \in S /\ f[k] = Next1(f[k - 1])
  <2> HIDE DEF S, a, g, Next1
  <2>1. 0 \in 0..n /\ \A k \in 1..n : k \in 0..n /\ k - 1 \in 0..n /\ k # 0
    OBVIOUS
  <2> QED BY <1>3, <1>5, <2>1
<1> DEFINE T == {k \in 0..n : f[k][1] = k}
<1>7. 0 \in T
  BY <1>6
<1>8. ASSUME NEW k \in 1..n, k - 1 \in T PROVE k \in T
  BY <1>6, <1>8
<1>9. 0..n \subseteq T
  <2> HIDE DEF T
  <2> QED BY <1>7, <1>8, Counting
<1>10. PICK F : F = [k \in 0..n |-> f[k][2]]
  OBVIOUS
<1>11. F \in [0..n -> Seq(A)] /\ F[0] = <<>>
  BY <1>5, <1>6, <1>10
<1>12. ASSUME NEW k \in 1..n PROVE F[k] = F[k - 1] \o p[k]
  <2>1. k \in 0..n /\ k - 1 \in 0..n
    OBVIOUS
  <2>2. f[k - 1][1] = k - 1 /\ k - 1 + 1 = k
    BY <1>9, <2>1
  <2>3. f[k] = <<k, f[k - 1][2] \o p[k]>>
    BY <1>6, <2>2
  <2>4. f[k][2] = f[k - 1][2] \o p[k]
    <3>1. PICK q : q = f[k - 1][2] \o p[k]
      OBVIOUS
    <3>2. f[k] = <<k, q>>
      BY <2>3, <3>1
    <3>3. <<k, q>>[2] = q
      OBVIOUS
    <3> QED BY <3>1, <3>2, <3>3
  <2>5. F[k] = f[k][2] /\ F[k - 1] = f[k - 1][2]
    BY <1>10, <2>1
  <2> QED BY <2>4, <2>5
<1> QED BY <1>11, <1>12 DEF Joins

(* The entries of the file one after the other, as far as they are read.   *)
Entries == Len(file.entries)
PassesUpTo(e) == \A d \in 1..e : Passes(d)
Piece(e) ==
    IF file.entries[e].open = "ok" /\ PassesUpTo(e)
    THEN [i \in 1..file.entries[e].chunks |-> <<e, i>>] ELSE <<>>

Before == LET f[k \in 0..Entries] == IF k = 0 THEN <<>> ELSE f[k - 1] \o Piece(k) IN f
Reached(e) == Len(Before[e - 1])

(* The type and the length of what an entry contributes.                   *)
LEMMA PieceIs ==
    ASSUME file \in Files, NEW e \in 1..Entries
    PROVE  /\ Piece(e) \in Seq(Ents \X Positions)
           /\ Len(Piece(e)) = IF file.entries[e].open = "ok" /\ PassesUpTo(e)
                              THEN file.entries[e].chunks ELSE 0
           /\ \A i \in 1..Len(Piece(e)) : Piece(e)[i] = <<e, i>>
<1>1. PICK c \in 0..MaxChunks : c = file.entries[e].chunks
  BY EntryIs DEF Entries
<1>2. MaxChunks \in Nat /\ c \in Nat /\ c <= MaxChunks /\ e \in Ents
  BY FileIs, EntryIs DEF Entries
<1>3. CASE file.entries[e].open = "ok" /\ PassesUpTo(e)
  <2>1. Piece(e) = [i \in 1..c |-> <<e, i>>]
    BY <1>1, <1>3 DEF Piece
  <2>2. \A i \in 1..c : <<e, i>> \in Ents \X Positions
    BY <1>2 DEF Positions
  <2>3. Piece(e) \in Seq(Ents \X Positions) /\ Len(Piece(e)) = c
    BY <1>2, <2>1, <2>2
  <2> QED BY <1>1, <1>3, <2>1, <2>3
<1>4. CASE ~(file.entries[e].open = "ok" /\ PassesUpTo(e))
  <2>1. Piece(e) = <<>>
    BY <1>4 DEF Piece
  <2> QED BY <1>4, <2>1
<1> QED BY <1>3, <1>4

(* What is before each entry is the join of the pieces so far.             *)
LEMMA BeforeIs ==
    ASSUME file \in Files
    PROVE  Joins(Ents \X Positions, Entries, [e \in 1..Entries |-> Piece(e)], Before)
<1> DEFINE A == Ents \X Positions
           p == [e \in 1..Entries |-> Piece(e)]
<1>1. Entries \in Nat
  BY FileIs DEF Entries
<1>2. p \in [1..Entries -> Seq(A)] /\ \A e \in 1..Entries : p[e] = Piece(e)
  BY PieceIs
<1> HIDE DEF A, p
<1>3. PICK F : Joins(A, Entries, p, F)
  BY <1>1, <1>2, CanJoin
<1>4. 0 \in 0..Entries /\ \A k \in 1..Entries : k # 0 /\ k \in 0..Entries /\ k - 1 \in 0..Entries
  BY <1>1
<1>5. \A k \in 0..Entries : k = 0 \/ k \in 1..Entries
  BY <1>1
<1>6. F = [k \in 0..Entries |-> IF k = 0 THEN <<>> ELSE F[k - 1] \o Piece(k)]
  BY <1>2, <1>3, <1>4, <1>5 DEF Joins
<1>7. Before = [k \in 0..Entries |-> IF k = 0 THEN <<>> ELSE Before[k - 1] \o Piece(k)]
  <2>1. PICK G : G = CHOOSE f : f = [k \in 0..Entries |-> IF k = 0 THEN <<>> ELSE f[k - 1] \o Piece(k)]
    OBVIOUS
  <2>2. G = [k \in 0..Entries |-> IF k = 0 THEN <<>> ELSE G[k - 1] \o Piece(k)]
    BY <1>6, <2>1, Zenon
  <2>3. Before = G
    BY <2>1, Zenon DEF Before
  <2> QED BY <2>2, <2>3
<1>8. PICK G : G = Before
  OBVIOUS
<1>9. /\ G[0] = <<>> /\ \A k \in 1..Entries : G[k] = G[k - 1] \o p[k]
      /\ DOMAIN G = 0..Entries /\ G = [k \in 0..Entries |-> G[k]]
  <2>1. G = [k \in 0..Entries |-> IF k = 0 THEN <<>> ELSE G[k - 1] \o Piece(k)]
    BY <1>7, <1>8
  <2>2. /\ \A k \in 0..Entries : G[k] = IF k = 0 THEN <<>> ELSE G[k - 1] \o Piece(k)
        /\ DOMAIN G = 0..Entries /\ G = [k \in 0..Entries |-> G[k]]
    BY <2>1
  <2> QED BY <1>2, <1>4, <2>2
<1> DEFINE T == {k \in 0..Entries : G[k] = F[k]}
<1>10. 0 \in T
  BY <1>3, <1>4, <1>9 DEF Joins
<1>11. ASSUME NEW k \in 1..Entries, k - 1 \in T PROVE k \in T
  BY <1>3, <1>4, <1>9, <1>11 DEF Joins
<1>12. 0..Entries \subseteq T
  <2> HIDE DEF T
  <2>1. PICK n \in Nat : n = Entries
    BY <1>1
  <2>2. Inductive(T, n)
    BY <1>10, <1>11, <2>1 DEF Inductive
  <2> QED BY <2>1, <2>2, Counted
<1>13. G \in [0..Entries -> Seq(A)]
  <2>1. \A k \in 0..Entries : G[k] \in Seq(A)
    BY <1>3, <1>12 DEF Joins
  <2> QED BY <1>9, <2>1
<1>14. Joins(A, Entries, p, G)
  BY <1>9, <1>13 DEF Joins
<1> QED BY <1>8, <1>14 DEF A, p

(* The content of the file is what is before its end.                      *)
LEMMA ContentIs ==
    ASSUME file \in Files, file.kind \notin Unhandled
    PROVE  Content = Before[Entries]
<1> DEFINE p == [e \in 1..Entries |-> Piece(e)]
           A == Ents \X Positions
<1>1. Entries \in Nat /\ DOMAIN file.entries = 1..Entries
  BY FileIs DEF Entries
<1>2. Content = FlattenSeq(p)
  BY <1>1 DEF Content, Piece, PassesUpTo
<1>3. p \in Seq(Seq(A)) /\ Len(p) = Entries
  BY <1>1, PieceIs
<1>4. PICK F : F = Before /\ Joins(A, Entries, p, F)
  BY BeforeIs
<1> HIDE DEF p, A
<1>5. CASE Entries = 0
  <2>1. p = <<>>
    BY <1>3, <1>5, EmptySeq
  <2> QED BY <1>2, <1>3, <1>4, <1>5, <2>1 DEF FlattenSeq, Joins
<1>6. CASE Entries # 0
  <2>1. PICK n \in Nat : n = Entries /\ n # 0
    BY <1>1, <1>6
  <2>2. PICK G : G = CHOOSE f : f = [i \in 1..n |-> IF i = 1 THEN p[i] ELSE f[i - 1] \o p[i]]
    OBVIOUS
  <2>3. FlattenSeq(p) = G[n]
    BY <1>3, <2>1, <2>2 DEF FlattenSeq
  <2>4. F[1] = p[1]
    <3>1. 1 \in 1..n /\ 1 - 1 = 0
      BY <2>1
    <3>2. F[1] = F[0] \o p[1] /\ F[0] = <<>>
      BY <1>4, <2>1, <3>1 DEF Joins
    <3>3. p[1] \in Seq(A)
      BY <1>3, <2>1, <3>1, ElementOfSeq
    <3> QED BY <3>2, <3>3, ConcatEmptySeq
  <2>5. PICK H : H = [i \in 1..n |-> F[i]]
    OBVIOUS
  <2>6. H = [i \in 1..n |-> IF i = 1 THEN p[i] ELSE H[i - 1] \o p[i]]
    <3>1. ASSUME NEW i \in 1..n PROVE H[i] = IF i = 1 THEN p[i] ELSE H[i - 1] \o p[i]
      <4>1. CASE i = 1
        BY <2>4, <2>5, <4>1
      <4>2. CASE i # 1
        <5>1. i - 1 \in 1..n
          BY <4>2
        <5>2. F[i] = F[i - 1] \o p[i]
          BY <1>4, <2>1 DEF Joins
        <5> QED BY <2>5, <4>2, <5>1, <5>2
      <4> QED BY <4>1, <4>2
    <3> QED BY <2>5, <3>1
  <2>7. \A i \in 1..n : G[i] = IF i = 1 THEN p[i] ELSE G[i - 1] \o p[i]
    <3>1. G = [i \in 1..n |-> IF i = 1 THEN p[i] ELSE G[i - 1] \o p[i]]
      BY <2>2, <2>6, Zenon
    <3> QED BY <3>1, Zenon
  <2> DEFINE T == {k \in 0..n : k = 0 \/ G[k] = F[k]}
  <2>8. 0 \in T
    OBVIOUS
  <2>9. ASSUME NEW k \in 1..n, k - 1 \in T PROVE k \in T
    <3>1. CASE k = 1
      BY <2>4, <2>7, <3>1
    <3>2. CASE k # 1
      <4>1. G[k - 1] = F[k - 1]
        BY <2>9, <3>2
      <4>2. F[k] = F[k - 1] \o p[k]
        BY <1>4, <2>1 DEF Joins
      <4>3. G[k] = G[k - 1] \o p[k]
        <5>1. G[k] = IF k = 1 THEN p[k] ELSE G[k - 1] \o p[k]
          BY <2>7
        <5> QED BY <3>2, <5>1
      <4>4. G[k] = F[k] /\ k \in 0..n
        BY <4>1, <4>2, <4>3
      <4> QED BY <4>4
    <3> QED BY <3>1, <3>2
  <2>10. n \in T
    <3> HIDE DEF T
    <3>1. n \in 0..n
      OBVIOUS
    <3> QED BY <2>8, <2>9, <3>1, Counting
  <2>11. G[n] = F[n]
    BY <2>1, <2>10
  <2> QED BY <1>2, <1>4, <2>1, <2>3, <2>11
<1> QED BY <1>5, <1>6

(* Where the chunks of an entry are in the content.                        *)
LEMMA ReachedIs ==
    ASSUME file \in Files, NEW e \in 1..Entries
    PROVE  /\ Reached(e) \in Nat /\ Reached(e + 1) = Reached(e) + Len(Piece(e))
           /\ Len(Piece(e)) \in Nat /\ Reached(1) = 0
<1>1. PICK F : F = Before /\ Joins(Ents \X Positions, Entries, [d \in 1..Entries |-> Piece(d)], F)
  BY BeforeIs
<1>2. Entries \in Nat
  BY FileIs DEF Entries
<1>3. e \in 0..Entries /\ e - 1 \in 0..Entries /\ e + 1 - 1 = e /\ 1 - 1 = 0
  BY <1>2
<1>4. F[e] = F[e - 1] \o Piece(e) /\ F[e - 1] \in Seq(Ents \X Positions) /\ F[0] = <<>>
  BY <1>1, <1>3 DEF Joins
<1>5. Piece(e) \in Seq(Ents \X Positions)
  BY PieceIs
<1>6. Len(F[e]) = Len(F[e - 1]) + Len(Piece(e)) /\ Len(Piece(e)) \in Nat /\ Len(F[e - 1]) \in Nat
  BY <1>4, <1>5, ConcatProperties
<1>7. Reached(e) = Len(F[e - 1]) /\ Reached(e + 1) = Len(F[e]) /\ Reached(1) = Len(F[0])
  BY <1>1, <1>3 DEF Reached
<1> QED BY <1>4, <1>6, <1>7

Within(e, s) ==
    /\ s \in Seq(Ents \X Positions) /\ Reached(e) + Len(Piece(e)) <= Len(s)
    /\ \A i \in 1..Len(Piece(e)) : s[Reached(e) + i] = <<e, i>>

(* The chunks of an entry stay where they are as further entries are       *)
(* joined.                                                                 *)
LEMMA PieceWithin ==
    ASSUME file \in Files, NEW e \in 1..Entries, NEW k \in e..Entries
    PROVE  Within(e, Before[k])
<1>1. PICK F : F = Before /\ Joins(Ents \X Positions, Entries, [d \in 1..Entries |-> Piece(d)], F)
  BY BeforeIs
<1>2. Entries \in Nat
  BY FileIs DEF Entries
<1>3. PICK m \in Nat : m = Entries - e
  BY <1>2
<1>4. PICK r, l : r = Reached(e) /\ l = Len(Piece(e))
  OBVIOUS
<1>5. r \in Nat /\ l \in Nat
  BY <1>4, ReachedIs
<1> DEFINE T == {j \in 0..m : Within(e, F[e + j])}
<1>6. ASSUME NEW d \in 1..Entries
      PROVE  /\ d - 1 \in 0..Entries /\ d \in 0..Entries
             /\ F[d - 1] \in Seq(Ents \X Positions) /\ Piece(d) \in Seq(Ents \X Positions)
             /\ F[d] \in Seq(Ents \X Positions) /\ F[d] = F[d - 1] \o Piece(d)
             /\ Len(F[d]) = Len(F[d - 1]) + Len(Piece(d))
             /\ Len(F[d - 1]) \in Nat /\ Len(Piece(d)) \in Nat
             /\ \A i \in 1..Len(F[d - 1]) + Len(Piece(d)) :
                    F[d][i] = IF i <= Len(F[d - 1]) THEN F[d - 1][i] ELSE Piece(d)[i - Len(F[d - 1])]
  <2>1. d - 1 \in 0..Entries /\ d \in 0..Entries
    BY <1>2
  <2>2. /\ F[d - 1] \in Seq(Ents \X Positions) /\ F[d] \in Seq(Ents \X Positions)
        /\ F[d] = F[d - 1] \o Piece(d)
    BY <1>1, <2>1 DEF Joins
  <2>3. Piece(d) \in Seq(Ents \X Positions)
    BY PieceIs
  <2>4. Len(F[d - 1]) \in Nat /\ Len(Piece(d)) \in Nat
    BY <2>2, <2>3
  <2> QED BY <2>1, <2>2, <2>3, <2>4, ConcatProperties
<1>7. 0 \in T
  <2>1. Len(F[e - 1]) = r
    BY <1>1, <1>4 DEF Reached
  <2>2. ASSUME NEW i \in 1..l PROVE F[e][r + i] = <<e, i>>
    <3>1. r + i \in 1..r + l /\ ~(r + i <= r) /\ r + i - r = i
      BY <1>5
    <3>2. F[e][r + i] = Piece(e)[i]
      <4>1. PICK s, t, q : s = F[e - 1] /\ t = F[e] /\ q = Piece(e)
        OBVIOUS
      <4>2. Len(s) = r /\ Len(q) = l
        BY <1>4, <2>1, <4>1
      <4>3. \A x \in 1..Len(s) + Len(q) : t[x] = IF x <= Len(s) THEN s[x] ELSE q[x - Len(s)]
        BY <1>6, <4>1
      <4>4. PICK x : x = r + i
        OBVIOUS
      <4>5. x \in 1..Len(s) + Len(q) /\ ~(x <= Len(s)) /\ x - Len(s) = i
        BY <3>1, <4>2, <4>4
      <4>6. t[x] = q[x - Len(s)]
        BY <4>3, <4>5
      <4> QED BY <4>1, <4>4, <4>5, <4>6
    <3>3. Piece(e)[i] = <<e, i>>
      BY <1>4, PieceIs
    <3> QED BY <3>2, <3>3
  <2>3. F[e] \in Seq(Ents \X Positions) /\ Len(F[e]) = r + l
    BY <1>4, <1>6, <2>1
  <2>4. Within(e, F[e])
    BY <1>4, <1>5, <2>2, <2>3 DEF Within
  <2> QED BY <2>4
<1>8. ASSUME NEW j \in 1..m, j - 1 \in T PROVE j \in T
  <2>1. PICK d : d = e + j
    OBVIOUS
  <2>2. d \in 1..Entries /\ e + (j - 1) = d - 1 /\ j \in 0..m
    BY <1>2, <1>3, <2>1
  <2>3. Within(e, F[d - 1])
    BY <1>8, <2>2
  <2>4. PICK s, t : s = F[d - 1] /\ t = F[d]
    OBVIOUS
  <2>5. PICK n, q : n = Len(s) /\ q = Len(Piece(d))
    OBVIOUS
  <2>6. /\ t \in Seq(Ents \X Positions) /\ n \in Nat /\ q \in Nat /\ Len(t) = n + q
        /\ \A i \in 1..n + q : i <= n => t[i] = s[i]
    BY <1>6, <2>2, <2>4, <2>5
  <2>7. r + l <= n /\ \A i \in 1..l : s[r + i] = <<e, i>>
    BY <1>4, <2>3, <2>4, <2>5 DEF Within
  <2>8. ASSUME NEW i \in 1..l PROVE t[r + i] = <<e, i>>
    <3>1. r + i \in 1..n + q /\ r + i <= n
      BY <1>5, <2>6, <2>7
    <3> QED BY <2>6, <2>7, <3>1
  <2>9. r + l <= Len(t)
    BY <1>5, <2>6, <2>7
  <2>10. Within(e, t)
    BY <1>4, <2>6, <2>8, <2>9 DEF Within
  <2> QED BY <2>1, <2>2, <2>4, <2>10
<1>9. PICK j \in 0..m : k = e + j
  <2>1. k - e \in 0..m /\ k = e + (k - e)
    BY <1>2, <1>3
  <2> QED BY <2>1
<1>10. j \in T
  <2> HIDE DEF T
  <2> QED BY <1>7, <1>8, Counting
<1> QED BY <1>1, <1>9, <1>10

(* The chunks of every entry are in the content, where it was reached.     *)
LEMMA ContentHas ==
    ASSUME file \in Files, file.kind \notin Unhandled, NEW e \in 1..Entries
    PROVE  Within(e, Content)
<1>1. Entries \in e..Entries
  BY FileIs DEF Entries
<1> QED BY <1>1, PieceWithin, ContentIs

(* The type of the content; it ends behind the last entry.                 *)
LEMMA ContentType ==
    ASSUME file \in Files
    PROVE  /\ Content \in Seq(Ents \X Positions) /\ Len(Content) \in Nat
           /\ file.kind \notin Unhandled => Reached(Entries + 1) = Len(Content)
<1>1. CASE file.kind \in Unhandled
  <2>1. Content = <<>>
    BY <1>1 DEF Content
  <2> QED BY <1>1, <2>1, EmptySeq
<1>2. CASE file.kind \notin Unhandled
  <2>1. Entries \in Nat /\ Entries \in 0..Entries /\ Entries + 1 - 1 = Entries
    BY FileIs DEF Entries
  <2>2. Content = Before[Entries] /\ Before[Entries] \in Seq(Ents \X Positions)
    BY <1>2, <2>1, ContentIs, BeforeIs DEF Joins
  <2> QED BY <2>1, <2>2, LenProperties DEF Reached
<1> QED BY <1>1, <1>2

(* Behind an entry that does not pass there is nothing more.               *)
LEMMA StopsAt ==
    ASSUME file \in Files, file.kind \notin Unhandled, NEW e \in 1..Entries, ~Passes(e)
    PROVE  Reached(e) = Len(Content)
<1>1. Entries \in Nat
  BY FileIs DEF Entries
<1>2. PICK m \in Nat : m = Entries + 1 - e
  BY <1>1
<1> DEFINE T == {j \in 0..m : Reached(e + j) = Reached(e)}
<1>3. 0 \in T
  OBVIOUS
<1>4. ASSUME NEW j \in 1..m, j - 1 \in T PROVE j \in T
  <2>1. PICK d : d = e + (j - 1)
    OBVIOUS
  <2>2. d \in 1..Entries /\ e \in 1..d /\ d + 1 = e + j /\ j \in 0..m
    BY <1>1, <1>2, <2>1
  <2>3. ~PassesUpTo(d)
    BY <2>2 DEF PassesUpTo
  <2>4. Len(Piece(d)) = 0
    BY <2>2, <2>3, PieceIs
  <2>5. Reached(d + 1) = Reached(d) + 0 /\ Reached(d) \in Nat
    BY <2>2, <2>4, ReachedIs
  <2>6. Reached(d) = Reached(e)
    BY <1>4, <2>1
  <2> QED BY <2>2, <2>5, <2>6
<1>5. m \in T
  <2> HIDE DEF T
  <2>1. m \in 0..m
    OBVIOUS
  <2> QED BY <1>3, <1>4, <2>1, Counting
<1>6. e + m = Entries + 1
  BY <1>1, <1>2
<1> QED BY <1>5, <1>6, ContentType

-----------------------------------------------------------------------------
(* No step changes the file, nor what follows from it.                     *)
LEMMA SameFile ==
    ASSUME file' = file
    PROVE  /\ Content' = Content /\ (Failed' <=> Failed) /\ Entries' = Entries
           /\ \A e : Reached(e)' = Reached(e) /\ (PassesUpTo(e)' <=> PassesUpTo(e))
<1>1. Content' = Content
  BY DEF Content, Passes
<1>2. Failed' <=> Failed
  BY DEF Failed, Fails, Passes
<1>3. Entries' = Entries
  BY DEF Entries
<1>4. ASSUME NEW e PROVE Reached(e)' = Reached(e)
  BY DEF Reached, Before, Piece, Passes, Entries, PassesUpTo
<1>5. ASSUME NEW e PROVE PassesUpTo(e)' <=> PassesUpTo(e)
  BY DEF Passes, PassesUpTo
<1> QED BY <1>1, <1>2, <1>3, <1>4, <1>5

(* The numbers after a, up to b.                                           *)
Span(a, b) == [i \in 1..b - a |-> a + i]

(* The type, the length and the elements of a span.                        *)
LEMMA SpanIs ==
    ASSUME NEW a \in Nat, NEW b \in Nat, a <= b
    PROVE  /\ Span(a, b) \in Seq(Nat) /\ Len(Span(a, b)) = b - a
           /\ \A i \in 1..b - a : Span(a, b)[i] = a + i
BY DEF Span

(* The first of a span, the rest of it, and a span with one more.          *)
LEMMA SpanEnds ==
    ASSUME NEW a \in Nat, NEW b \in Nat, a <= b
    PROVE  /\ (Span(a, b) = <<>>) <=> a = b
           /\ a < b => Head(Span(a, b)) = a + 1 /\ Tail(Span(a, b)) = Span(a + 1, b)
           /\ Append(Span(a, b), b + 1) = Span(a, b + 1)
<1>1. PICK s : s = Span(a, b)
  OBVIOUS
<1>2. s \in Seq(Nat) /\ Len(s) = b - a /\ \A i \in 1..b - a : s[i] = a + i
  BY <1>1, SpanIs
<1>3. (s = <<>>) <=> a = b
  BY <1>2, EmptySeq
<1>4. ASSUME a < b PROVE Head(s) = a + 1 /\ Tail(s) = Span(a + 1, b)
  <2>1. PICK t : t = Tail(s)
    OBVIOUS
  <2>2. s # <<>> /\ 1 \in 1..b - a
    BY <1>2, <1>3, <1>4
  <2>3. Head(s) = s[1] /\ t \in Seq(Nat) /\ Len(t) = Len(s) - 1
        /\ \A i \in 1..Len(t) : t[i] = s[i + 1]
    BY <1>2, <2>1, <2>2, HeadTailProperties
  <2>4. PICK c, u : c = a + 1 /\ u = Span(c, b)
    OBVIOUS
  <2>5. c \in Nat /\ u \in Seq(Nat) /\ Len(u) = b - c /\ \A i \in 1..b - c : u[i] = c + i
    <3>1. c \in Nat /\ c <= b
      BY <1>4, <2>4
    <3> QED BY <2>4, <3>1, SpanIs
  <2>6. \A i \in 1..Len(t) : t[i] = u[i]
    BY <1>2, <2>3, <2>4, <2>5
  <2>7. t = u
    BY <1>2, <2>3, <2>4, <2>5, <2>6, SeqEqual
  <2> QED BY <1>2, <2>1, <2>2, <2>3, <2>4, <2>7
<1>5. Append(s, b + 1) = Span(a, b + 1)
  <2>1. PICK t, u, n : n = b + 1 /\ t = Append(s, n) /\ u = Span(a, n)
    OBVIOUS
  <2>2. n \in Nat /\ a <= n
    BY <2>1
  <2>3. /\ t \in Seq(Nat) /\ Len(t) = Len(s) + 1 /\ t[Len(s) + 1] = n
        /\ \A i \in 1..Len(s) : t[i] = s[i]
    BY <1>2, <2>1, <2>2, AppendProperties
  <2>4. u \in Seq(Nat) /\ Len(u) = n - a /\ \A i \in 1..n - a : u[i] = a + i
    BY <2>1, <2>2, SpanIs
  <2>5. ASSUME NEW i \in 1..Len(t) PROVE t[i] = u[i]
    <3>1. CASE i \in 1..Len(s)
      BY <1>2, <2>1, <2>3, <2>4, <3>1
    <3>2. CASE i \notin 1..Len(s)
      <4>1. i = Len(s) + 1 /\ i = n - a /\ i \in 1..n - a
        BY <1>2, <2>1, <2>3, <3>2
      <4> QED BY <2>2, <2>3, <2>4, <4>1
    <3> QED BY <3>1, <3>2
  <2>6. Len(t) = Len(u)
    BY <1>2, <2>1, <2>3, <2>4
  <2> QED BY <2>1, <2>3, <2>4, <2>5, <2>6, SeqEqual
<1> QED BY <1>1, <1>3, <1>4, <1>5

(* The same of a span that a 0, the error, closes.                         *)
LEMMA SpanClosed ==
    ASSUME NEW a \in Nat, NEW b \in Nat, a <= b, NEW q, q = Append(Span(a, b), 0)
    PROVE  /\ q # <<>>
           /\ a < b => Head(q) = a + 1 /\ Tail(q) = Append(Span(a + 1, b), 0)
           /\ a = b => Head(q) = 0 /\ Tail(q) = <<>>
<1>1. PICK s : s = Span(a, b)
  OBVIOUS
<1>2. s \in Seq(Nat) /\ Len(s) = b - a /\ \A i \in 1..b - a : s[i] = a + i
  BY <1>1, SpanIs
<1>3. /\ q \in Seq(Nat) /\ Len(q) = Len(s) + 1 /\ q[Len(s) + 1] = 0
      /\ \A i \in 1..Len(s) : q[i] = s[i]
  BY <1>1, <1>2, AppendProperties
<1>4. q # <<>>
  <2>1. Len(q) # 0
    BY <1>2, <1>3
  <2> QED BY <2>1
<1>5. PICK t : t = Tail(q)
  OBVIOUS
<1>6. Head(q) = q[1] /\ t \in Seq(Nat) /\ Len(t) = Len(q) - 1
      /\ \A i \in 1..Len(t) : t[i] = q[i + 1]
  <2>1. q \in Seq(Nat)
    BY <1>3
  <2> QED BY <1>4, <1>5, <2>1, HeadTailProperties
<1>7. ASSUME a < b PROVE Head(q) = a + 1 /\ t = Append(Span(a + 1, b), 0)
  <2>1. PICK c, r, u : c = a + 1 /\ r = Span(c, b) /\ u = Append(r, 0)
    OBVIOUS
  <2>2. c \in Nat /\ r \in Seq(Nat) /\ Len(r) = b - c /\ \A i \in 1..b - c : r[i] = c + i
    <3>1. c \in Nat /\ c <= b
      BY <1>7, <2>1
    <3> QED BY <2>1, <3>1, SpanIs
  <2>3. /\ u \in Seq(Nat) /\ Len(u) = Len(r) + 1 /\ u[Len(r) + 1] = 0
        /\ \A i \in 1..Len(r) : u[i] = r[i]
    BY <2>1, <2>2, AppendProperties
  <2>4. Len(t) = Len(u) /\ Len(r) = Len(s) - 1 /\ Len(t) = Len(s)
    <3>1. PICK k, l, m, n : k = Len(s) /\ l = Len(r) /\ m = Len(t) /\ n = Len(u)
      OBVIOUS
    <3>2. k = b - a /\ l = b - c /\ m = k + 1 - 1 /\ n = l + 1
      BY <1>2, <1>3, <1>6, <2>2, <2>3, <3>1
    <3>3. m = n /\ l = k - 1 /\ m = k
      BY <2>1, <2>2, <3>2
    <3> QED BY <3>1, <3>3
  <2>5. ASSUME NEW i \in 1..Len(t) PROVE t[i] = u[i]
    <3>1. CASE i \in 1..Len(r)
      <4>1. t[i] = q[i + 1] /\ i + 1 \in 1..Len(s) /\ i + 1 \in 1..b - a /\ i \in 1..b - c
           /\ a + (i + 1) = c + i
        <5>1. t[i] = q[i + 1]
          BY <1>6
        <5>2. Len(s) = b - a /\ Len(r) = b - c
          BY <1>2, <2>2
        <5>3. i \in 1..b - c
          BY <3>1, <5>2
        <5>4. i + 1 \in 1..b - a /\ a + (i + 1) = c + i
          BY <2>1, <5>3
        <5> QED BY <5>1, <5>2, <5>3, <5>4
      <4>2. q[i + 1] = a + (i + 1) /\ u[i] = c + i
        BY <1>2, <1>3, <2>2, <2>3, <3>1, <4>1
      <4> QED BY <4>1, <4>2
    <3>2. CASE i \notin 1..Len(r)
      <4>1. i = Len(r) + 1 /\ i + 1 = Len(s) + 1
        BY <1>2, <1>3, <1>6, <1>7, <2>1, <2>2, <3>2
      <4> QED BY <1>3, <1>6, <2>3, <4>1
    <3> QED BY <3>1, <3>2
  <2>6. t = u
    BY <1>6, <2>3, <2>4, <2>5, SeqEqual
  <2>7. 1 \in 1..Len(s) /\ 1 \in 1..b - a
    BY <1>2, <1>7
  <2> QED BY <1>2, <1>3, <1>6, <2>1, <2>6, <2>7
<1>8. ASSUME a = b PROVE Head(q) = 0 /\ t = <<>>
  <2>1. Len(s) = 0 /\ Len(q) = 1 /\ Len(t) = 0
    BY <1>2, <1>3, <1>6, <1>8
  <2> QED BY <1>3, <1>6, <2>1, EmptySeq
<1> QED BY <1>4, <1>5, <1>7, <1>8

-----------------------------------------------------------------------------
(* The messages of a queue take what is reported of the content C from     *)
(* one length to another: each chunk is the next, and nothing else counts. *)
Counts(C, m, t, u) ==
    IF m.type = "data" THEN u = t + 1 /\ u <= Len(C) /\ m.of = C[u] ELSE u = t

Queued(C, q, from, to) ==
    \E at \in [0..Len(q) -> Nat] :
        /\ at[0] = from /\ at[Len(q)] = to
        /\ \A i \in 1..Len(q) : Counts(C, q[i], at[i - 1], at[i])

(* An empty queue counts for nothing.                                      *)
LEMMA QueueEmpty ==
    ASSUME NEW C, NEW a \in Nat
    PROVE  Queued(C, <<>>, a, a) /\ \A b : Queued(C, <<>>, a, b) => a = b
<1>1. Len(<<>>) = 0
  BY EmptySeq
<1>2. PICK at : at = [i \in 0..0 |-> a]
  OBVIOUS
<1>3. Queued(C, <<>>, a, a)
  BY <1>1, <1>2 DEF Queued
<1>4. ASSUME NEW b, Queued(C, <<>>, a, b) PROVE a = b
  BY <1>1, <1>4 DEF Queued
<1> QED BY <1>3, <1>4

(* A message more at the end.                                              *)
LEMMA QueueAppend ==
    ASSUME NEW C, NEW M, NEW q \in Seq(M), NEW m \in M, NEW a, NEW t \in Nat, NEW u \in Nat,
           Queued(C, q, a, t), Counts(C, m, t, u)
    PROVE  Queued(C, Append(q, m), a, u)
<1>1. PICK n \in Nat : n = Len(q)
  BY LenProperties
<1>2. PICK at \in [0..n -> Nat] :
          /\ at[0] = a /\ at[n] = t
          /\ \A i \in 1..n : Counts(C, q[i], at[i - 1], at[i])
  BY <1>1 DEF Queued
<1>3. PICK r : r = Append(q, m)
  OBVIOUS
<1>4. Len(r) = n + 1 /\ r[n + 1] = m /\ \A i \in 1..n : r[i] = q[i]
  BY <1>1, <1>3, AppendProperties
<1>5. PICK b : b = [i \in 0..n + 1 |-> IF i = n + 1 THEN u ELSE at[i]]
  OBVIOUS
<1>6. b \in [0..n + 1 -> Nat] /\ b[0] = a /\ b[n + 1] = u /\ b[n] = t
  <2>1. 0 \in 0..n /\ n \in 0..n + 1 /\ n # n + 1 /\ 0 # n + 1
    OBVIOUS
  <2>2. \A i \in 0..n + 1 : i # n + 1 => i \in 0..n
    OBVIOUS
  <2> QED BY <1>2, <1>5, <2>1, <2>2
<1>7. ASSUME NEW i \in 1..n + 1 PROVE Counts(C, r[i], b[i - 1], b[i])
  <2>1. CASE i = n + 1
    <3>1. i - 1 = n /\ r[i] = m /\ b[i] = u
      BY <1>4, <1>6, <2>1
    <3> QED BY <1>6, <3>1
  <2>2. CASE i # n + 1
    <3>1. i \in 1..n /\ i - 1 \in 0..n + 1 /\ i \in 0..n + 1 /\ i - 1 # n + 1
      BY <2>2
    <3>2. b[i] = at[i] /\ b[i - 1] = at[i - 1] /\ r[i] = q[i]
      BY <1>4, <1>5, <2>2, <3>1
    <3> QED BY <1>2, <3>1, <3>2
  <2> QED BY <2>1, <2>2
<1>8. Queued(C, r, a, u)
  BY <1>4, <1>6, <1>7 DEF Queued
<1> QED BY <1>3, <1>8

(* A message less at the front.                                            *)
LEMMA QueueTail ==
    ASSUME NEW C, NEW M, NEW q \in Seq(M), q # <<>>, NEW a, NEW t, Queued(C, q, a, t)
    PROVE  \E b \in Nat : Counts(C, Head(q), a, b) /\ Queued(C, Tail(q), b, t)
<1>1. PICK n \in Nat : n = Len(q) /\ n # 0
  BY LenProperties, EmptySeq
<1>2. PICK at \in [0..n -> Nat] :
          /\ at[0] = a /\ at[n] = t
          /\ \A i \in 1..n : Counts(C, q[i], at[i - 1], at[i])
  BY <1>1 DEF Queued
<1>3. PICK r, h : r = Tail(q) /\ h = Head(q)
  OBVIOUS
<1>4. Len(r) = n - 1 /\ h = q[1] /\ \A i \in 1..n - 1 : r[i] = q[i + 1]
  BY <1>1, <1>3, HeadTailProperties
<1>5. 1 \in 1..n /\ 1 - 1 = 0 /\ 1 \in 0..n /\ n - 1 \in Nat
  BY <1>1
<1>6. Counts(C, h, a, at[1]) /\ at[1] \in Nat
  BY <1>2, <1>4, <1>5
<1>7. PICK b : b = [i \in 0..n - 1 |-> at[i + 1]]
  OBVIOUS
<1>8. b \in [0..n - 1 -> Nat] /\ b[0] = at[1] /\ b[n - 1] = t
  <2>1. \A i \in 0..n - 1 : i + 1 \in 0..n
    OBVIOUS
  <2>2. 0 \in 0..n - 1 /\ n - 1 \in 0..n - 1 /\ 0 + 1 = 1 /\ n - 1 + 1 = n
    BY <1>1
  <2> QED BY <1>2, <1>7, <2>1, <2>2
<1>9. ASSUME NEW i \in 1..n - 1 PROVE Counts(C, r[i], b[i - 1], b[i])
  <2>1. PICK j : j = i + 1
    OBVIOUS
  <2>2. j \in 1..n /\ j - 1 = i /\ i - 1 \in 0..n - 1 /\ i \in 0..n - 1 /\ i - 1 + 1 = i
    BY <2>1
  <2>3. Counts(C, q[j], at[i], at[j])
    BY <1>2, <2>2
  <2>4. r[i] = q[j] /\ b[i - 1] = at[i] /\ b[i] = at[j]
    BY <1>4, <1>7, <2>1, <2>2
  <2> QED BY <2>3, <2>4
<1>10. Queued(C, r, at[1], t)
  BY <1>4, <1>8, <1>9 DEF Queued
<1> QED BY <1>3, <1>6, <1>10

-----------------------------------------------------------------------------
(* A chunk reader, of whose c chunks the handler has taken k: what it has  *)
(* sent and not yet been taken, what it is about to send, and what it has  *)
(* yet to read are the rest, in order; at the end there may be an error.   *)
Running(where, q, v, p, c, k) ==
    \/ \E b \in k..c :
           /\ q = Span(k, b)
           /\ \/ where = "read" /\ v = Span(b, c)
              \/ where = "send" /\ b < c /\ p = b + 1 /\ v = Span(b + 1, c)
    \/ where \in {"fail", "plain", "off"} /\ k <= c /\ q = Span(k, c)
    \/ where = "off" /\ k <= c /\ q = Append(Span(k, c), 0)

(* A chunk reader starts with all of its entry to read.                    *)
LEMMA RunStarts ==
    ASSUME NEW c \in Nat, NEW p PROVE Running("read", <<>>, [i \in 1..c |-> i], p, c, 0)
<1>1. PICK v, w : v = [i \in 1..c |-> i] /\ w = Span(0, c)
  OBVIOUS
<1>2. v = w
  <2>1. v \in Seq(Nat) /\ Len(v) = c /\ \A i \in 1..c : v[i] = i
    BY <1>1
  <2>2. w \in Seq(Nat) /\ Len(w) = c /\ \A i \in 1..c : w[i] = i
    <3>1. PICK z \in Nat : z = 0
      OBVIOUS
    <3>2. w = Span(z, c) /\ z <= c
      BY <1>1, <3>1
    <3>3. w \in Seq(Nat) /\ Len(w) = c - z /\ \A i \in 1..c - z : w[i] = z + i
      BY <3>2, SpanIs
    <3>4. c - z = c /\ \A i \in 1..c : z + i = i
      BY <3>1
    <3> QED BY <3>3, <3>4
  <2>3. \A i \in 1..Len(v) : v[i] = w[i]
    BY <2>1, <2>2
  <2>4. Len(v) = Len(w)
    BY <2>1, <2>2
  <2> QED BY <2>1, <2>2, <2>3, <2>4, SeqEqual
<1>3. Span(0, 0) = <<>> /\ 0 \in 0..c
  BY SpanEnds
<1> QED BY <1>1, <1>2, <1>3 DEF Running

(* It reads its next chunk, or the end.                                    *)
LEMMA RunReads ==
    ASSUME NEW c \in Nat, NEW k \in Nat, NEW q, NEW v, NEW p, Running("read", q, v, p, c, k)
    PROVE  /\ v # <<>> => Running("send", q, Tail(v), Head(v), c, k)
           /\ v = <<>> => \A x \in {"fail", "plain", "off"} : Running(x, q, v, p, c, k)
<1>1. PICK b \in k..c : q = Span(k, b) /\ v = Span(b, c)
  BY DEF Running
<1>2. b \in Nat /\ b <= c /\ k <= c
  BY <1>1
<1>3. ((v = <<>>) <=> b = c) /\ (b < c => Head(v) = b + 1 /\ Tail(v) = Span(b + 1, c))
  BY <1>1, <1>2, SpanEnds
<1>4. ASSUME v # <<>> PROVE Running("send", q, Tail(v), Head(v), c, k)
  <2>1. b < c /\ Head(v) = b + 1 /\ Tail(v) = Span(b + 1, c)
    BY <1>2, <1>3, <1>4
  <2> QED BY <1>1, <2>1 DEF Running
<1>5. ASSUME v = <<>>, NEW x \in {"fail", "plain", "off"} PROVE Running(x, q, v, p, c, k)
  BY <1>1, <1>2, <1>3, <1>5 DEF Running
<1> QED BY <1>4, <1>5

(* It sends its chunk, or its error.                                       *)
LEMMA RunSends ==
    ASSUME NEW c \in Nat, NEW k \in Nat, NEW q, NEW v, NEW p, NEW where,
           Running(where, q, v, p, c, k)
    PROVE  /\ where = "send" => Running("read", Append(q, p), v, p, c, k)
           /\ where \in {"fail", "plain"} => Running("off", Append(q, 0), v, p, c, k)
<1>1. ASSUME where = "send" PROVE Running("read", Append(q, p), v, p, c, k)
  <2>1. PICK b \in k..c : q = Span(k, b) /\ b < c /\ p = b + 1 /\ v = Span(b + 1, c)
    BY <1>1 DEF Running
  <2>2. b \in Nat /\ k <= b /\ p \in k..c
    BY <2>1
  <2>3. Append(q, p) = Span(k, p) /\ v = Span(p, c)
    BY <2>1, <2>2, SpanEnds
  <2> QED BY <2>2, <2>3 DEF Running
<1>2. ASSUME where \in {"fail", "plain"} PROVE Running("off", Append(q, 0), v, p, c, k)
  BY <1>2 DEF Running
<1> QED BY <1>1, <1>2

(* The handler takes a chunk, or the error.                                *)
LEMMA RunTaken ==
    ASSUME NEW c \in Nat, NEW k \in Nat, NEW q, NEW v, NEW p, NEW where,
           Running(where, q, v, p, c, k), q # <<>>
    PROVE  \/ Head(q) = 0 /\ Running(where, Tail(q), v, p, c, k)
           \/ Head(q) = k + 1 /\ k < c /\ Running(where, Tail(q), v, p, c, k + 1)
<1>1. ASSUME NEW b \in k..c, q = Span(k, b),
             \/ where = "read" /\ v = Span(b, c)
             \/ where = "send" /\ b < c /\ p = b + 1 /\ v = Span(b + 1, c)
      PROVE  Head(q) = k + 1 /\ k < c /\ Running(where, Tail(q), v, p, c, k + 1)
  <2>1. b \in Nat /\ k <= b /\ k # b /\ Head(q) = k + 1 /\ Tail(q) = Span(k + 1, b)
    <3>1. b \in Nat /\ k <= b
      BY <1>1
    <3>2. k # b
      BY <1>1, <3>1, SpanEnds
    <3>3. k < b
      BY <3>1, <3>2
    <3> QED BY <1>1, <3>1, <3>2, <3>3, SpanEnds
  <2>2. k < c /\ b \in k + 1..c
    BY <2>1
  <2> QED BY <1>1, <2>1, <2>2 DEF Running
<1>2. ASSUME where \in {"fail", "plain", "off"}, k <= c, q = Span(k, c)
      PROVE  Head(q) = k + 1 /\ k < c /\ Running(where, Tail(q), v, p, c, k + 1)
  <2>1. k # c
    BY <1>2, SpanEnds
  <2>2. k < c /\ k + 1 <= c
    BY <1>2, <2>1
  <2>3. Head(q) = k + 1 /\ Tail(q) = Span(k + 1, c)
    BY <1>2, <2>2, SpanEnds
  <2> QED BY <1>2, <2>2, <2>3 DEF Running
<1>3. ASSUME where = "off", k <= c, q = Append(Span(k, c), 0)
      PROVE  \/ Head(q) = 0 /\ Running(where, Tail(q), v, p, c, k)
             \/ Head(q) = k + 1 /\ k < c /\ Running(where, Tail(q), v, p, c, k + 1)
  <2>1. CASE k < c
    <3>1. Head(q) = k + 1 /\ Tail(q) = Append(Span(k + 1, c), 0)
      BY <1>3, <2>1, SpanClosed
    <3>2. k + 1 <= c
      BY <2>1
    <3> QED BY <1>3, <2>1, <3>1, <3>2 DEF Running
  <2>2. CASE k = c
    <3>1. Head(q) = 0 /\ Tail(q) = <<>>
      BY <1>3, <2>2, SpanClosed
    <3>2. Span(k, c) = <<>>
      BY <2>2, SpanEnds
    <3> QED BY <1>3, <3>1, <3>2 DEF Running
  <2> QED BY <1>3, <2>1, <2>2
<1> QED BY <1>1, <1>2, <1>3 DEF Running

(* When it is off and nothing waits, everything was taken.                 *)
LEMMA RunEnds ==
    ASSUME NEW c \in Nat, NEW k \in Nat, NEW v, NEW p, Running("off", <<>>, v, p, c, k)
    PROVE  k = c
<1>1. ASSUME k <= c, <<>> = Span(k, c) PROVE k = c
  BY <1>1, SpanEnds
<1>2. ASSUME k <= c, <<>> = Append(Span(k, c), 0) PROVE FALSE
  BY <1>2, SpanClosed
<1> QED BY <1>1, <1>2 DEF Running

-----------------------------------------------------------------------------
(* What an entry of each handler may meet.                                 *)
LEMMA MeetsIs ==
    ASSUME file \in Files, NEW e \in 1..Entries, file.kind \notin Unhandled,
           NEW kind, kind = file.kind, NEW what, what = file.entries[e].open
    PROVE  /\ kind \in Kinds /\ what \in Openings
           /\ kind = "default" => what \in {"ok", "skip"}
           /\ kind = "apk" => what # "breaks"
<1>1. kind \in Kinds /\ what \in Openings
  BY FileIs, EntryIs DEF Entries
<1>2. e \in DOMAIN file.entries
  BY FileIs DEF Entries
<1>3. file.entries[e].open \in Meets(file.kind)
  BY <1>2, FilesAssumption
<1>4. what \in Meets(kind)
  BY <1>3
<1>5. kind = "default" => what \in {"ok", "skip"}
  BY <1>4 DEF Meets
<1>6. kind = "apk" => what # "breaks"
  BY <1>4 DEF Meets
<1> QED BY <1>1, <1>5, <1>6

(* The handlers go past exactly the entries the property says they do.     *)
LEMMA PassesIs ==
    ASSUME file \in Files, NEW e \in 1..Entries, file.kind \notin Unhandled,
           NEW kind, kind = file.kind, NEW what, what = file.entries[e].open
    PROVE  Passes(e) <=> what = "ok" \/ <<kind, what>> \in Ignored \cup Warned
<1>1. /\ kind \in Kinds /\ what \in Openings
      /\ kind = "default" => what \in {"ok", "skip"}
      /\ kind = "apk" => what # "breaks"
  BY MeetsIs
<1>2. Passes(e) <=> what \notin {"breaks", "crashes", "unloaded"} /\ <<kind, what>> \notin Deserted
  BY DEF Passes
<1>3. <<kind, what>> \in Deserted <=> \/ kind \in {"archive", "rpm"} /\ what = "fails"
                                      \/ kind \in {"ar", "rpm", "apk"} /\ what = "panics"
  BY DEF Deserted
<1>4. <<kind, what>> \in Ignored \cup Warned <=>
          \/ what = "skip" /\ kind \in Kinds
          \/ kind = "archive" /\ what = "panics"
          \/ kind = "apk" /\ what \in {"fails", "cut"}
          \/ kind = "ar" /\ what \in {"fails", "cut"}
          \/ kind = "rpm" /\ what = "cut"
  BY DEF Ignored, Warned
<1> QED BY <1>1, <1>2, <1>3, <1>4 DEF Kinds, Openings

(* The files that fail as a whole are those whose handler sends an error.  *)
LEMMA FailsIs ==
    ASSUME file \in Files, NEW e \in 1..Entries, file.kind \notin Unhandled,
           NEW kind, kind = file.kind, NEW what, what = file.entries[e].open
    PROVE  Fails(e) <=> <<kind, what>> \in Ruined
<1>1. /\ kind \in Kinds /\ what \in Openings
      /\ kind = "default" => what \in {"ok", "skip"}
  BY MeetsIs
<1>2. Passes(e) <=> what \notin {"breaks", "crashes", "unloaded"} /\ <<kind, what>> \notin Deserted
  BY DEF Passes
<1>3. Fails(e) <=> \/ what \in {"panics", "crashes"} /\ ~Passes(e) /\ kind # "apk"
                   \/ what = "unloaded" /\ kind \in {"ar", "rpm"}
  BY DEF Fails
<1>4. <<kind, what>> \in Deserted <=> \/ kind \in {"archive", "rpm"} /\ what = "fails"
                                      \/ kind \in {"ar", "rpm", "apk"} /\ what = "panics"
  BY DEF Deserted
<1>5. <<kind, what>> \in Ruined <=>
          \/ kind \in {"ar", "rpm"} /\ what \in {"panics", "crashes", "unloaded"}
          \/ kind = "archive" /\ what = "crashes"
  BY DEF Ruined
<1> QED BY <1>1, <1>2, <1>3, <1>4, <1>5 DEF Kinds

(* An error of the whole file is sent at the first entry that does not     *)
(* pass.                                                                   *)
LEMMA RuinedStops ==
    ASSUME file \in Files, NEW e, <<file.kind, file.entries[e].open>> \in Ruined
    PROVE  ~Passes(e) /\ file.kind \notin Unhandled
<1>1. PICK kind, what : kind = file.kind /\ what = file.entries[e].open
  OBVIOUS
<1>2. <<kind, what>> \in Ruined
  BY <1>1
<1>3. \/ what \in {"crashes", "unloaded"} \/ <<kind, what>> \in Deserted
  BY <1>2 DEF Ruined, Deserted
<1>4. kind \notin Unhandled
  BY <1>2 DEF Ruined, Unhandled
<1> QED BY <1>1, <1>3, <1>4 DEF Passes

(* At the first entry that does not pass, the file fails or it does not.   *)
LEMMA CrashIs ==
    ASSUME file \in Files, NEW e \in 1..Entries, file.kind \notin Unhandled,
           PassesUpTo(e - 1), ~Passes(e)
    PROVE  Failed <=> <<file.kind, file.entries[e].open>> \in Ruined
<1>1. DOMAIN file.entries = 1..Entries /\ Entries \in Nat
  BY FileIs DEF Entries
<1>2. ASSUME <<file.kind, file.entries[e].open>> \in Ruined PROVE Failed
  <2>1. Fails(e)
    BY <1>2, FailsIs
  <2> QED BY <1>1, <2>1 DEF Failed, PassesUpTo
<1>3. ASSUME NEW d \in 1..Entries, Fails(d), \A x \in 1..d - 1 : Passes(x)
      PROVE  d = e /\ <<file.kind, file.entries[d].open>> \in Ruined
  <2>1. <<file.kind, file.entries[d].open>> \in Ruined
    BY <1>3, FailsIs
  <2>2. ~Passes(d)
    BY <2>1, RuinedStops
  <2>3. ~(d < e)
    BY <2>2 DEF PassesUpTo
  <2>4. ~(e < d)
    BY <1>3
  <2> QED BY <2>1, <2>3, <2>4
<1> QED BY <1>1, <1>2, <1>3 DEF Failed

(* A file all of whose entries pass does not fail.                         *)
LEMMA NoCrash ==
    ASSUME file \in Files, PassesUpTo(Entries)
    PROVE  ~Failed
<1>1. DOMAIN file.entries = 1..Entries
  BY FileIs DEF Entries
<1>2. SUFFICES ASSUME file.kind \notin Unhandled, NEW e \in 1..Entries, Fails(e) PROVE FALSE
  BY <1>1 DEF Failed
<1>3. ~Passes(e)
  BY <1>2, FailsIs, RuinedStops
<1> QED BY <1>3 DEF PassesUpTo

(* The entries passed, and one more.                                       *)
LEMMA PassesOn ==
    ASSUME NEW e \in Nat, PassesUpTo(e - 1), Passes(e) \/ e = 0
    PROVE  PassesUpTo(e)
BY DEF PassesUpTo

(* Nothing is before the first entry.                                      *)
LEMMA StartIsReached == file \in Files => Reached(1) = 0
<1> SUFFICES ASSUME file \in Files PROVE Reached(1) = 0
  OBVIOUS
<1>1. PICK F : F = Before /\ Joins(Ents \X Positions, Entries, [d \in 1..Entries |-> Piece(d)], F)
  BY BeforeIs
<1>2. F[0] = <<>>
  BY <1>1 DEF Joins
<1>3. 1 - 1 = 0
  OBVIOUS
<1> QED BY <1>1, <1>2, <1>3, EmptySeq DEF Reached

-----------------------------------------------------------------------------
(* What the caller was given of the content.                               *)
Given == Len(reported) + (IF inHand = <<>> THEN 0 ELSE 1)

Enters(e) == e <= Entries /\ file.entries[e].open = "ok" /\ PassesUpTo(e)
Reader(k) ==
    Running(rpc[ent], chunks[ent], view[ent], pos[ent], file.entries[ent].chunks, k)
CrashSent(q) == Len(q) > 0 /\ q[Len(q)] = Fatal

(* Undisturbed, the handler has sent the first t chunks of the content,    *)
(* and where it stands says which these are.                               *)
Going(t) ==
    /\ hpc = "new" => ent = 1 /\ data = <<>> /\ t = 0
    /\ hpc = "next" => PassesUpTo(ent - 1) /\ t = Reached(ent)
    /\ hpc = "content" => Enters(ent) /\ \E k \in Nat : Reader(k) /\ t = Reached(ent) + k
    /\ hpc = "write" => Enters(ent) /\ \E k \in Nat :
           /\ Reader(k)
           /\ \/ out = Warning /\ t = Reached(ent) + k
              \/ k > 0 /\ out = Datum(ent, k) /\ t + 1 = Reached(ent) + k
    /\ hpc = "plain" /\ after = "next" =>
           out = Warning /\ PassesUpTo(ent) /\ t = Reached(ent + 1)
    /\ hpc = "plain" /\ after = "close" => out = Fatal /\ Failed /\ t = Len(Content)
    /\ hpc = "measure" => out = Warning /\ ~Failed /\ t = Len(Content)
    /\ hpc \in {"close", "done"} => t = Len(Content) /\ (Failed <=> CrashSent(data))
    /\ hpc \notin {"new", "done"} => file.kind \notin Unhandled

Untouched == \A e \in Ents : e > ent \/ (e = ent /\ hpc \in {"new", "next"}) => chunks[e] = <<>>
FatalLast == \A i \in 1..Len(data) : data[i] = Fatal => i = Len(data) /\ hpc \in {"close", "done"}

(* The chunk the handler is about to send is the next of the content.      *)
Written(t) == hpc = "write" /\ out.type = "data" => t < Len(Content) /\ Content[t + 1] = out.of

Stage(t) ==
    /\ Queued(Content, data, Given, t) /\ Written(t)
    /\ ~ctxDone => Going(t) /\ Untouched /\ FatalLast

Progress == res = "none" => \E t \in Nat : Stage(t)

(* What is reported are the first chunks, and the one in hand is the next. *)
Order ==
    /\ Len(reported) <= Len(Content) /\ reported = SubSeq(Content, 1, Len(reported))
    /\ inHand # <<>> => /\ res = "none" /\ Len(reported) < Len(Content)
                        /\ inHand = Content[Len(reported) + 1]
    /\ hpc \in {"plain", "measure"} => out \in {Warning, Fatal}

Final == ~interrupted /\ res \in {"nil", "fatal"} => reported = Content /\ (res = "fatal" <=> Failed)

Settled == Typed /\ IInv /\ Progress /\ Order /\ Final

-----------------------------------------------------------------------------
(* What has to be shown of a step of the handler.                          *)
LEMMA StageKept ==
    ASSUME UNCHANGED <<file, ctxDone, reported, inHand>>, NEW u \in Nat,
           Queued(Content, data', Given, u), Written(u)',
           ~ctxDone => Going(u)' /\ Untouched' /\ FatalLast'
    PROVE  \E t \in Nat : Stage(t)'
<1>1. Content' = Content
  BY SameFile
<1>2. Given' = Given
  BY DEF Given
<1>3. Stage(u)'
  BY <1>1, <1>2 DEF Stage
<1> QED BY <1>3

(* An entry that is left sends nothing but a warning or a fatal error.     *)
LEMMA LeaveSends ==
    ASSUME NEW what, Leave(what), hpc' \in {"plain", "measure"}
    PROVE  out' \in {Warning, Fatal}
<1>1. CASE UNCHANGED <<out, after>> /\ (To("next", ent + 1) \/ To("close", ent))
  BY <1>1 DEF To
<1>2. CASE SendPlainly(Warning, "next") \/ SendPlainly(Fatal, "close")
  BY <1>2 DEF SendPlainly
<1>3. CASE Fail(what = "cut")
  BY <1>3 DEF Fail
<1> QED BY <1>1, <1>2, <1>3 DEF Leave

(* What a message the handler adds counts for.                             *)
LEMMA Adds ==
    ASSUME Typed, NEW t \in Nat, Queued(Content, data, Given, t), data' = Append(data, out),
           NEW u \in Nat, Counts(Content, out, t, u)
    PROVE  Queued(Content, data', Given, u)
<1>1. data \in Seq(Messages) /\ out \in Messages
  BY DEF Typed, TypeOK
<1> QED BY <1>1, QueueAppend

(* Once the context is done, only the order of what was sent matters.      *)
LEMMA HandlerCut ==
    ASSUME Typed, Order, HandlerStep, ctxDone, NEW t \in Nat, Stage(t)
    PROVE  \E u \in Nat : Stage(u)'
<1>1. UNCHANGED <<file, ctxDone, reported, inHand>>
  BY DEF HandlerStep, NextEntry, TakeChunk, ContentDone, Write, PlainSend, Measure,
         CloseData, callerVars
<1>2. Queued(Content, data, Given, t) /\ Written(t)
  BY DEF Stage
<1>3. hpc' # "write"
  BY LeaveDoes DEF HandlerStep, NextEntry, TakeChunk, ContentDone, Write, PlainSend, Measure,
         CloseData, To, Fail, Typed, TypeOK
<1>a. ASSUME NEW u \in Nat, Queued(Content, data', Given, u) PROVE \E v \in Nat : Stage(v)'
  <2>1. Written(u)'
    BY <1>3 DEF Written
  <2> QED BY <1>1, <1>a, <2>1, StageKept
<1>4. CASE data' = data
  BY <1>2, <1>4, <1>a
<1>5. CASE data' = Append(data, out) /\ hpc = "write" /\ out.type = "data"
  <2>1. PICK u \in Nat : u = t + 1
    OBVIOUS
  <2>2. t < Len(Content) /\ Content[t + 1] = out.of /\ Len(Content) \in Nat
    BY <1>2, <1>5, ContentType DEF Written, Typed, TypeOK
  <2>3. Counts(Content, out, t, u)
    BY <1>5, <2>1, <2>2 DEF Counts
  <2>4. Queued(Content, data', Given, u)
    BY <1>2, <1>5, <2>3, Adds
  <2> QED BY <1>a, <2>4
<1>6. CASE data' = Append(data, out) /\ ~(out.type = "data")
  <2>1. Counts(Content, out, t, t)
    BY <1>6 DEF Counts
  <2>2. Queued(Content, data', Given, t)
    BY <1>2, <1>6, <2>1, Adds
  <2> QED BY <1>a, <2>2
<1>7. ASSUME hpc \in {"plain", "measure"} PROVE out.type # "data"
  <2>1. out \in {Warning, Fatal}
    BY <1>7 DEF Order
  <2> QED BY <2>1 DEF Warning, Fatal
<1> QED BY <1>4, <1>5, <1>6, <1>7
        DEF HandlerStep, NextEntry, TakeChunk, ContentDone, Write, PlainSend, Measure, CloseData

(* What holds of the handler while the context stands.                     *)
Steady(t) ==
    /\ Typed /\ Order /\ ~ctxDone /\ t \in Nat
    /\ Queued(Content, data, Given, t) /\ Written(t) /\ Going(t) /\ Untouched /\ FatalLast

(* The types of what a steady handler holds.                               *)
LEMMA SteadyHas ==
    ASSUME NEW t, Steady(t)
    PROVE  /\ file \in Files /\ Entries \in Nat /\ Entries <= MaxEntries /\ MaxEntries \in Nat
           /\ t \in Nat /\ ent \in Nat \ {0} /\ ent <= Entries + 1
           /\ hpc \in {"content", "write"} => ent \in 1..Entries
           /\ data \in Seq(Messages) /\ Len(data) \in Nat /\ out \in Messages
           /\ chunks \in [Ents -> Seq(0..MaxChunks)]
           /\ hpc \in {"new", "next", "content", "write", "plain", "measure", "close", "done"}
<1>1. TypeOK /\ Standing /\ chunks \in [Ents -> Seq(0..MaxChunks)] /\ t \in Nat
  BY DEF Steady, Typed
<1>2. file \in Files /\ ent \in 1..MaxEntries + 1 /\ data \in Seq(Messages) /\ out \in Messages
      /\ hpc \in {"new", "next", "content", "write", "plain", "measure", "close", "done"}
  BY <1>1 DEF TypeOK
<1>3. Entries \in Nat /\ Entries <= MaxEntries /\ MaxEntries \in Nat
  BY <1>2, FileIs DEF Entries
<1>4. ent <= Entries + 1 /\ (hpc \in {"content", "write"} => ent <= Entries)
  BY <1>1 DEF Standing, Entries
<1> QED BY <1>1, <1>2, <1>3, <1>4

(* What has to be shown of a step while the context stands.                *)
LEMMA SteadyKept ==
    ASSUME NEW t, Steady(t), UNCHANGED <<file, ctxDone, reported, inHand>>,
           NEW u \in Nat, Queued(Content, data', Given, u), Written(u)',
           Going(u)', Untouched', FatalLast'
    PROVE  \E v \in Nat : Stage(v)'
BY StageKept

(* A step that leaves the queues alone.                                    *)
LEMMA SteadyStays ==
    ASSUME NEW t, Steady(t), UNCHANGED <<file, ctxDone, reported, inHand, data, chunks>>,
           hpc' # "write", ent' \in {ent, ent + 1},
           hpc \in {"close", "done"} => hpc' \in {"close", "done"},
           hpc' \in {"new", "next"} => ent' = ent + 1,
           Going(t)'
    PROVE  \E v \in Nat : Stage(v)'
<1>1. t \in Nat /\ Queued(Content, data', Given, t)
  BY DEF Steady
<1>2. Written(t)'
  BY DEF Written
<1>3. Untouched'
  <2>1. ent \in Nat
    BY SteadyHas
  <2>2. ASSUME NEW e \in Ents, e > ent' \/ (e = ent' /\ hpc' \in {"new", "next"})
        PROVE  chunks'[e] = <<>>
    <3>1. e \in Nat /\ e > ent
      BY <2>1, <2>2 DEF Ents
    <3> QED BY <3>1 DEF Steady, Untouched
  <2> QED BY <2>2 DEF Untouched
<1>4. FatalLast'
  BY DEF FatalLast, Steady
<1> QED BY <1>1, <1>2, <1>3, <1>4, SteadyKept

(* The handler leaves an entry that does not open.                         *)
LEMMA LeaveGoesOn ==
    ASSUME NEW t, Steady(t), hpc = "next", ent \in 1..Entries,
           NEW what, what = file.entries[ent].open, what # "ok", Leave(what),
           UNCHANGED <<file, ctxDone, reported, inHand, data, chunks>>
    PROVE  \E v \in Nat : Stage(v)'
<1> DEFINE how == <<file.kind, what>>
<1>1. /\ file \in Files /\ Entries \in Nat /\ ent \in Nat /\ t \in Nat /\ Len(data) \in Nat
      /\ file.kind \notin Unhandled /\ PassesUpTo(ent - 1) /\ t = Reached(ent) /\ ~ctxDone
  BY SteadyHas DEF Steady, Going
<1>2. ~CrashSent(data)
  BY <1>1 DEF Steady, FatalLast, CrashSent
<1>3. what \in Openings
  BY <1>1, EntryIs DEF Entries
<1>4. Reached(ent + 1) = Reached(ent)
  <2>1. PICK e : e = ent
    OBVIOUS
  <2>2. Len(Piece(e)) = 0 /\ Reached(e) \in Nat /\ Reached(e + 1) = Reached(e) + Len(Piece(e))
    BY <1>1, <2>1, PieceIs, ReachedIs
  <2>3. PICK m, n : m = Reached(e) /\ n = Len(Piece(e))
    OBVIOUS
  <2>4. m \in Nat /\ n = 0 /\ m + n = m
    BY <2>2, <2>3
  <2>5. Reached(e + 1) = m
    BY <2>2, <2>3, <2>4
  <2> QED BY <2>1, <2>3, <2>5
<1>5. ASSUME Passes(ent) PROVE PassesUpTo(ent)
  BY <1>1, <1>5, PassesOn
<1>a. Passes(ent) <=> how \in Ignored \cup Warned
  BY <1>1, PassesIs
<1>6. ASSUME ~Passes(ent) PROVE t = Len(Content) /\ (Failed <=> how \in Ruined)
  BY <1>1, <1>6, StopsAt, CrashIs
<1>7. CASE how \in Ignored /\ To("next", ent + 1) /\ UNCHANGED <<out, after>>
  <2>1. PassesUpTo(ent)
    BY <1>5, <1>7, <1>a
  <2>2. hpc' = "next" /\ ent' = ent + 1
    BY <1>7 DEF To
  <2>3. PassesUpTo(ent - 1)' /\ Reached(ent)' = t
    <3>1. ent' - 1 = ent
      BY <1>1, <2>2
    <3> QED BY <1>1, <1>4, <2>1, <2>2, <3>1, SameFile
  <2>4. Going(t)'
    BY <1>1, <2>2, <2>3 DEF Going
  <2> QED BY <2>2, <2>4, SteadyStays
<1>8. CASE how \in Warned /\ SendPlainly(Warning, "next")
  <2>1. PassesUpTo(ent)
    BY <1>5, <1>8, <1>a
  <2>2. hpc' = "plain" /\ ent' = ent /\ after' = "next" /\ out' = Warning
    BY <1>8 DEF SendPlainly, To
  <2>3. PassesUpTo(ent)' /\ Reached(ent + 1)' = t
    BY <1>1, <1>4, <2>1, <2>2, SameFile
  <2>4. Going(t)'
    BY <1>1, <2>2, <2>3 DEF Going
  <2> QED BY <2>2, <2>4, SteadyStays
<1>9. CASE how \in Abandoned /\ To("close", ent) /\ UNCHANGED <<out, after>>
  <2>1. ~Passes(ent) /\ how \notin Ruined
    <3>1. how \in Abandoned
      BY <1>9
    <3>2. how \notin Ignored /\ how \notin Warned /\ how \notin Ruined
      <4>1. PICK kind : kind = file.kind
        OBVIOUS
      <4>2. <<kind, what>> \in Abandoned
        BY <3>1, <4>1
      <4>3. kind = "apk" /\ what \in {"panics", "crashes"}
        BY <4>2 DEF Abandoned
      <4> QED BY <4>1, <4>3 DEF Ignored, Warned, Ruined, Kinds
    <3> QED BY <3>2, <1>a
  <2>2. hpc' = "close" /\ ent' = ent
    BY <1>9 DEF To
  <2>3. t = Len(Content)' /\ ~Failed'
    BY <1>6, <2>1, SameFile
  <2>4. Going(t)'
    BY <1>1, <1>2, <2>2, <2>3 DEF Going
  <2> QED BY <2>2, <2>4, SteadyStays
<1>10. CASE how \in Ruined /\ SendPlainly(Fatal, "close")
  <2>1. ~Passes(ent)
    BY <1>1, <1>10, RuinedStops
  <2>2. hpc' = "plain" /\ ent' = ent /\ after' = "close" /\ out' = Fatal
    BY <1>10 DEF SendPlainly, To
  <2>3. t = Len(Content)' /\ Failed'
    BY <1>6, <1>10, <2>1, SameFile
  <2>4. Going(t)'
    BY <1>1, <2>2, <2>3 DEF Going
  <2> QED BY <2>2, <2>4, SteadyStays
<1>11. CASE how \notin Ignored \cup Warned \cup Abandoned \cup Ruined /\ Fail(what = "cut")
  <2>1. ~Passes(ent)
    BY <1>11, <1>a
  <2>2. what # "cut"
    BY <1>3 DEF Openings
  <2>3. hpc' = "measure" /\ ent' = ent /\ out' = Warning
    BY <1>1, <1>11, <2>2 DEF Fail, To
  <2>4. t = Len(Content)' /\ ~Failed'
    BY <1>6, <1>11, <2>1, SameFile
  <2>5. Going(t)'
    BY <1>1, <2>3, <2>4 DEF Going
  <2> QED BY <2>3, <2>5, SteadyStays
<1> QED BY <1>7, <1>8, <1>9, <1>10, <1>11 DEF Leave

(* The next entry is opened, is left, or there is none.                    *)
LEMMA NextEntryGoes ==
    ASSUME NEW t, Steady(t), NextEntry
    PROVE  \E v \in Nat : Stage(v)'
<1>1. /\ file \in Files /\ Entries \in Nat /\ ent \in Nat \ {0} /\ t \in Nat /\ Len(data) \in Nat
      /\ ent <= Entries + 1 /\ hpc = "next"
      /\ file.kind \notin Unhandled /\ PassesUpTo(ent - 1) /\ t = Reached(ent) /\ ~ctxDone
  BY SteadyHas DEF Steady, Going, NextEntry
<1>2. UNCHANGED <<file, ctxDone, reported, inHand, data, chunks>> /\ pos' = pos
  BY DEF NextEntry, callerVars
<1>3. CASE ent > Entries
  <2>1. hpc' = "close" /\ ent' = ent
    BY <1>1, <1>3 DEF NextEntry, To, Entries
  <2>2. ent = Entries + 1 /\ ent - 1 = Entries
    BY <1>1, <1>3
  <2>3. t = Len(Content) /\ ~Failed
    BY <1>1, <2>2, ContentType, NoCrash
  <2>4. ~CrashSent(data)
    BY <1>1 DEF Steady, FatalLast, CrashSent
  <2>5. t = Len(Content)' /\ ~Failed'
    BY <1>2, <2>3, SameFile
  <2>6. Going(t)'
    BY <1>1, <1>2, <2>1, <2>4, <2>5 DEF Going
  <2> QED BY <1>1, <1>2, <2>1, <2>6, SteadyStays
<1>4. CASE ~(ent > Entries) /\ file.entries[ent].open = "ok"
  <2>1. ent \in 1..Entries /\ ent \in Ents
    BY <1>1, <1>4, SteadyHas DEF Ents
  <2>2. PICK c \in Nat : c = file.entries[ent].chunks
    BY <1>1, <2>1, EntryIs DEF Entries
  <2>3. PICK v \in Views(file.entries[ent]) :
            /\ hpc' = "content" /\ ent' = ent
            /\ rpc' = [rpc EXCEPT ![ent] = "read"] /\ view' = [view EXCEPT ![ent] = v]
    BY <1>1, <1>4 DEF NextEntry, To, Entries
  <2>4. v = [i \in 1..c |-> i]
    BY <1>1, <2>1, <2>2, ViewsAre DEF Entries
  <2>5. rpc'[ent] = "read" /\ view'[ent] = v /\ chunks[ent] = <<>>
    BY <1>1, <2>1, <2>3 DEF Steady, Typed, TypeOK, Untouched
  <2>6. Running("read", <<>>, v, pos[ent], c, 0)
    BY <2>4, RunStarts
  <2>7. Reader(0)'
    BY <1>2, <2>2, <2>3, <2>5, <2>6 DEF Reader
  <2>8. Enters(ent)
    <3>1. PassesUpTo(ent)
      <4>1. Passes(ent)
        BY <1>1, <1>4, <2>1, PassesIs
      <4> QED BY <1>1, <4>1, PassesOn
    <3> QED BY <1>1, <1>4, <3>1 DEF Enters
  <2>9. Enters(ent)' /\ Reached(ent)' = t
    BY <1>1, <1>2, <2>3, <2>8, SameFile DEF Enters
  <2>10. \E k \in Nat : Reader(k)' /\ t = Reached(ent)' + k
    <3>1. t = Reached(ent)' + 0
      BY <1>1, <2>9
    <3> QED BY <2>7, <3>1
  <2>11. Going(t)'
    BY <1>1, <1>2, <2>3, <2>9, <2>10 DEF Going
  <2> QED BY <1>1, <1>2, <2>3, <2>11, SteadyStays
<1>5. CASE ~(ent > Entries) /\ file.entries[ent].open # "ok"
  <2>1. ent \in 1..Entries
    BY <1>1, <1>5
  <2>2. Leave(file.entries[ent].open)
    BY <1>1, <1>5 DEF NextEntry, Entries
  <2> QED BY <1>1, <1>2, <1>5, <2>1, <2>2, LeaveGoesOn
<1> QED BY <1>3, <1>4, <1>5

(* An entry whose reader is off and has nothing left was taken whole.      *)
LEMMA ContentDoneGoes ==
    ASSUME NEW t, Steady(t), ContentDone
    PROVE  \E v \in Nat : Stage(v)'
<1>1. /\ file \in Files /\ ent \in 1..Entries /\ ent \in Nat /\ t \in Nat /\ hpc = "content"
      /\ file.kind \notin Unhandled /\ Enters(ent) /\ ~ctxDone
  BY SteadyHas DEF Steady, Going, ContentDone
<1>2. /\ UNCHANGED <<file, ctxDone, reported, inHand, data, chunks>>
      /\ hpc' = "next" /\ ent' = ent + 1 /\ chunks[ent] = <<>> /\ rpc[ent] = "off"
  BY DEF ContentDone, callerVars, To
<1>3. PICK k \in Nat : Reader(k) /\ t = Reached(ent) + k
  BY <1>1 DEF Steady, Going
<1>4. PICK c \in Nat : c = file.entries[ent].chunks
  BY <1>1, EntryIs, FileIs DEF Entries
<1>5. k = c
  <2>1. PICK v, p : v = view[ent] /\ p = pos[ent]
    OBVIOUS
  <2>2. Running("off", <<>>, v, p, c, k)
    BY <1>2, <1>3, <1>4, <2>1 DEF Reader
  <2> QED BY <2>2, RunEnds
<1>6. Reached(ent + 1) = t
  <2>1. PICK e : e = ent
    OBVIOUS
  <2>2. Len(Piece(e)) = c /\ Reached(e + 1) = Reached(e) + Len(Piece(e))
    BY <1>1, <1>4, <2>1, PieceIs, ReachedIs DEF Enters
  <2> QED BY <1>3, <1>5, <2>1, <2>2
<1>7. PassesUpTo(ent - 1)' /\ Reached(ent)' = t
  <2>1. ent' - 1 = ent
    BY <1>1, <1>2
  <2> QED BY <1>1, <1>2, <1>6, <2>1, SameFile DEF Enters
<1>8. Going(t)'
  BY <1>1, <1>2, <1>7 DEF Going
<1> QED BY <1>1, <1>2, <1>8, SteadyStays

(* The chunk or the error at the front of the reader's channel is taken.   *)
LEMMA TakeChunkGoes ==
    ASSUME NEW t, Steady(t), TakeChunk
    PROVE  \E v \in Nat : Stage(v)'
<1>1. /\ file \in Files /\ ent \in 1..Entries /\ ent \in Nat /\ t \in Nat /\ hpc = "content"
      /\ file.kind \notin Unhandled /\ Enters(ent) /\ ~ctxDone /\ ent \in Ents
      /\ chunks \in [Ents -> Seq(0..MaxChunks)]
  BY SteadyHas, EntryIs DEF Steady, Going, TakeChunk, Entries
<1>2. /\ UNCHANGED <<file, ctxDone, reported, inHand, data, rpc, pos, view>>
      /\ chunks[ent] # <<>> /\ chunks' = [chunks EXCEPT ![ent] = Tail(@)]
      /\ hpc' = "write" /\ ent' = ent /\ after' = after
      /\ out' = IF Head(chunks[ent]) = 0 THEN Warning ELSE Datum(ent, Head(chunks[ent]))
  BY <1>1 DEF TakeChunk, callerVars, readerVars, To
<1>3. PICK k \in Nat : Reader(k) /\ t = Reached(ent) + k
  BY <1>1 DEF Steady, Going
<1>4. PICK c \in Nat : c = file.entries[ent].chunks
  BY <1>1, EntryIs, FileIs DEF Entries
<1>5. PICK q, h, r : q = chunks[ent] /\ h = Head(q) /\ r = Tail(q)
  OBVIOUS
<1>6. chunks'[ent] = r /\ \A e \in Ents : e # ent => chunks'[e] = chunks[e]
  BY <1>1, <1>2, <1>5
<1>7. out' = IF h = 0 THEN Warning ELSE Datum(ent, h)
  BY <1>2, <1>5
<1>8. PICK w, v, p : w = rpc[ent] /\ v = view[ent] /\ p = pos[ent]
  OBVIOUS
<1>9. \/ h = 0 /\ Running(w, r, v, p, c, k)
      \/ h = k + 1 /\ k < c /\ Running(w, r, v, p, c, k + 1)
  <2>1. Running(w, q, v, p, c, k)
    BY <1>3, <1>4, <1>5, <1>8 DEF Reader
  <2> QED BY <1>2, <1>5, <2>1, RunTaken
<1>10. ASSUME NEW j \in Nat, Running(w, r, v, p, c, j) PROVE Reader(j)'
  BY <1>2, <1>4, <1>6, <1>8, <1>10 DEF Reader
<1>11. Enters(ent)' /\ Reached(ent)' = Reached(ent) /\ Content' = Content
  BY <1>1, <1>2, SameFile DEF Enters
<1>12. Untouched' /\ FatalLast' /\ Queued(Content, data', Given, t)
  <2>1. Untouched'
    <3>1. ASSUME NEW e \in Ents, e > ent PROVE chunks'[e] = <<>>
      BY <1>1, <1>6, <3>1 DEF Steady, Untouched, Ents
    <3> QED BY <1>1, <1>2, <3>1 DEF Untouched
  <2>2. FatalLast'
    BY <1>1, <1>2 DEF FatalLast, Steady
  <2> QED BY <1>2, <2>1, <2>2 DEF Steady
<1>13. CASE h = 0 /\ Running(w, r, v, p, c, k)
  <2>1. Reader(k)' /\ out' = Warning
    BY <1>7, <1>10, <1>13
  <2>2. Written(t)'
    BY <2>1 DEF Written, Warning
  <2>3. \E j \in Nat : Reader(j)' /\ (out = Warning /\ t = Reached(ent) + j)'
    BY <1>3, <1>11, <2>1
  <2>4. Going(t)'
    BY <1>1, <1>2, <1>11, <2>3 DEF Going
  <2> QED BY <1>1, <1>2, <1>12, <2>2, <2>4, SteadyKept
<1>14. CASE h = k + 1 /\ k < c /\ Running(w, r, v, p, c, k + 1)
  <2>1. PICK j \in Nat : j = k + 1
    OBVIOUS
  <2>2. Reader(j)' /\ j > 0 /\ out' = Datum(ent, j) /\ h = j /\ j \in 1..c
    BY <1>7, <1>10, <1>14, <2>1
  <2>3. PICK e, n : e = ent /\ n = Reached(e)
    OBVIOUS
  <2>4. n \in Nat /\ t = n + k /\ t + 1 = n + j
    BY <1>1, <1>3, <2>1, <2>3, ReachedIs
  <2>5. t < Len(Content) /\ Content[t + 1] = <<e, j>>
    <3>1. Len(Piece(e)) = c
      BY <1>1, <1>4, <2>3, PieceIs DEF Enters
    <3>2. Within(e, Content)
      BY <1>1, <2>3, ContentHas
    <3>3. Len(Content) \in Nat
      BY <1>1, ContentType
    <3>4. n + c <= Len(Content) /\ Content[n + j] = <<e, j>>
      BY <2>2, <2>3, <3>1, <3>2 DEF Within
    <3>5. t < Len(Content)
      BY <1>1, <2>2, <2>4, <3>3, <3>4
    <3> QED BY <2>4, <3>4, <3>5
  <2>6. Written(t)'
    BY <1>11, <2>2, <2>3, <2>5 DEF Written, Datum
  <2>7. \E i \in Nat : Reader(i)' /\ i > 0 /\ (out = Datum(ent, i) /\ t + 1 = Reached(ent) + i)'
    BY <1>2, <1>11, <2>2, <2>3, <2>4
  <2>8. Going(t)'
    BY <1>1, <1>2, <1>11, <2>7 DEF Going
  <2> QED BY <1>1, <1>2, <1>12, <2>6, <2>8, SteadyKept
<1> QED BY <1>9, <1>13, <1>14

(* What is added to the queue is the last of it.                           *)
LEMMA Added ==
    ASSUME data \in Seq(Messages), out \in Messages, data' = Append(data, out)
    PROVE  /\ CrashSent(data') <=> out = Fatal
           /\ Len(data') \in Nat /\ Len(data') = Len(data) + 1
           /\ \A i \in 1..Len(data') : i # Len(data') => i \in 1..Len(data) /\ data'[i] = data[i]
           /\ data'[Len(data')] = out
<1>1. PICK q, r, m, n : q = data /\ r = data' /\ m = out /\ n = Len(q)
  OBVIOUS
<1>2. n \in Nat /\ Len(r) = n + 1 /\ r[n + 1] = m /\ \A i \in 1..n : r[i] = q[i]
  BY <1>1, AppendProperties, LenProperties
<1>3. \A i \in 1..n + 1 : i # n + 1 => i \in 1..n
  BY <1>2
<1>4. CrashSent(r) <=> m = Fatal
  <2>1. Len(r) > 0
    BY <1>2
  <2>2. r[Len(r)] = m
    BY <1>2
  <2> QED BY <2>1, <2>2 DEF CrashSent
<1>5. Len(r) \in Nat
  BY <1>2
<1> QED BY <1>1, <1>2, <1>3, <1>4, <1>5

(* A step that sends a message.                                            *)
LEMMA SteadyAdds ==
    ASSUME NEW t, Steady(t), UNCHANGED <<file, ctxDone, reported, inHand, chunks>>,
           data' = Append(data, out), hpc \notin {"new", "next", "close", "done"},
           hpc' # "write", hpc' = "next" => ent' = ent + 1, ent' \in {ent, ent + 1}, hpc' # "new",
           out = Fatal => hpc' \in {"close", "done"},
           NEW u \in Nat, Counts(Content, out, t, u), Going(u)'
    PROVE  \E v \in Nat : Stage(v)'
<1>1. t \in Nat /\ ent \in Nat /\ data \in Seq(Messages) /\ out \in Messages
  BY SteadyHas
<1>2. Queued(Content, data', Given, u)
  BY <1>1, Adds DEF Steady
<1>3. Written(u)'
  BY DEF Written
<1>4. Untouched'
  <2>2. ASSUME NEW e \in Ents, e > ent' \/ (e = ent' /\ hpc' \in {"new", "next"})
        PROVE  chunks'[e] = <<>>
    <3>1. e \in Nat /\ e > ent
      BY <1>1, <2>2 DEF Ents
    <3> QED BY <3>1 DEF Steady, Untouched
  <2> QED BY <2>2 DEF Untouched
<1>5. FatalLast'
  <2>1. ASSUME NEW i \in 1..Len(data'), data'[i] = Fatal
        PROVE  i = Len(data') /\ hpc' \in {"close", "done"}
    <3>1. i = Len(data')
      BY <1>1, <2>1, Added DEF Steady, FatalLast
    <3> QED BY <1>1, <2>1, <3>1, Added
  <2> QED BY <2>1 DEF FatalLast
<1> QED BY <1>2, <1>3, <1>4, <1>5, SteadyKept

(* The chunk or the warning taken is sent.                                 *)
LEMMA WriteGoes ==
    ASSUME NEW t, Steady(t), Write
    PROVE  \E v \in Nat : Stage(v)'
<1>1. /\ file \in Files /\ ent \in 1..Entries /\ ent \in Nat /\ t \in Nat /\ hpc = "write"
      /\ file.kind \notin Unhandled /\ Enters(ent) /\ ~ctxDone
  BY SteadyHas DEF Steady, Going, Write
<1>2. /\ UNCHANGED <<file, ctxDone, reported, inHand, chunks, rpc, pos, view>>
      /\ data' = Append(data, out) /\ hpc' = "content" /\ ent' = ent
  BY <1>1 DEF Write, callerVars, readerVars, To
<1>3. PICK k \in Nat :
          /\ Reader(k)
          /\ \/ out = Warning /\ t = Reached(ent) + k
             \/ k > 0 /\ out = Datum(ent, k) /\ t + 1 = Reached(ent) + k
  BY <1>1 DEF Steady, Going
<1>4. Reader(k)' /\ Enters(ent)' /\ Reached(ent)' = Reached(ent)
  BY <1>1, <1>2, <1>3, SameFile DEF Reader, Enters
<1>a. ASSUME NEW u \in Nat, u = Reached(ent) + k PROVE Going(u)'
  BY <1>1, <1>2, <1>4, <1>a DEF Going
<1>5. CASE out = Warning /\ t = Reached(ent) + k
  <2>1. Counts(Content, out, t, t) /\ out # Fatal
    BY <1>5 DEF Counts, Warning, Fatal
  <2> QED BY <1>1, <1>2, <1>5, <1>a, <2>1, SteadyAdds
<1>6. CASE out = Datum(ent, k) /\ t + 1 = Reached(ent) + k
  <2>1. PICK u \in Nat : u = t + 1
    BY <1>1
  <2>2. out.type = "data" /\ out # Fatal
    BY <1>6 DEF Datum, Fatal
  <2>3. t < Len(Content) /\ Content[t + 1] = out.of /\ Len(Content) \in Nat
    BY <1>1, <2>2, ContentType DEF Steady, Written
  <2>4. Counts(Content, out, t, u)
    BY <1>1, <2>1, <2>2, <2>3 DEF Counts
  <2> QED BY <1>1, <1>2, <1>6, <1>a, <2>1, <2>2, <2>4, SteadyAdds
<1> QED BY <1>3, <1>5, <1>6

(* A warning or a fatal error is sent, and the handler goes where it had   *)
(* to.                                                                     *)
LEMMA SendsGo ==
    ASSUME NEW t, Steady(t), PlainSend \/ Measure
    PROVE  \E v \in Nat : Stage(v)'
<1>1. /\ file \in Files /\ ent \in Nat /\ t \in Nat /\ hpc \in {"plain", "measure"} /\ ~ctxDone
      /\ data \in Seq(Messages) /\ out \in Messages /\ file.kind \notin Unhandled
      /\ after \in {"next", "close"}
  BY SteadyHas DEF Steady, Going, PlainSend, Measure, Typed, TypeOK
<1>2. /\ UNCHANGED <<file, ctxDone, reported, inHand, chunks>>
      /\ data' = Append(data, out)
  BY <1>1 DEF PlainSend, Measure, callerVars, readerVars
<1>3. CrashSent(data') <=> out = Fatal
  BY <1>1, <1>2, Added
<1>4. out \in {Warning, Fatal} /\ Counts(Content, out, t, t)
  <2>1. out \in {Warning, Fatal}
    BY <1>1 DEF Steady, Order
  <2> QED BY <2>1 DEF Counts, Warning, Fatal
<1>5. CASE hpc = "plain" /\ after = "next"
  <2>1. hpc' = "next" /\ ent' = ent + 1
    BY <1>5 DEF PlainSend, Measure, To
  <2>2. out = Warning /\ PassesUpTo(ent) /\ t = Reached(ent + 1)
    BY <1>5 DEF Steady, Going
  <2>3. PassesUpTo(ent - 1)' /\ Reached(ent)' = t
    <3>1. ent' - 1 = ent
      BY <1>1, <2>1
    <3> QED BY <1>2, <2>1, <2>2, <3>1, SameFile
  <2>4. Going(t)'
    BY <1>1, <1>2, <2>1, <2>3 DEF Going
  <2>5. out # Fatal
    BY <2>2 DEF Warning, Fatal
  <2> QED BY <1>1, <1>2, <1>4, <2>1, <2>4, <2>5, SteadyAdds
<1>6. CASE hpc = "plain" /\ after = "close"
  <2>1. hpc' = "close" /\ ent' = ent
    BY <1>6 DEF PlainSend, Measure, To
  <2>2. out = Fatal /\ Failed /\ t = Len(Content)
    BY <1>6 DEF Steady, Going
  <2>3. t = Len(Content)' /\ (Failed' <=> CrashSent(data)')
    BY <1>2, <1>3, <2>2, SameFile
  <2>4. Going(t)'
    BY <1>1, <1>2, <2>1, <2>3 DEF Going
  <2> QED BY <1>1, <1>2, <1>4, <2>1, <2>4, SteadyAdds
<1>7. CASE hpc = "measure"
  <2>1. hpc' = "close" /\ ent' = ent
    BY <1>7 DEF PlainSend, Measure, To
  <2>2. out = Warning /\ ~Failed /\ t = Len(Content)
    BY <1>7 DEF Steady, Going
  <2>3. out # Fatal
    BY <2>2 DEF Warning, Fatal
  <2>4. t = Len(Content)' /\ (Failed' <=> CrashSent(data)')
    BY <1>2, <1>3, <2>2, <2>3, SameFile
  <2>5. Going(t)'
    BY <1>1, <1>2, <2>1, <2>4 DEF Going
  <2> QED BY <1>1, <1>2, <1>4, <2>1, <2>5, SteadyAdds
<1> QED BY <1>1, <1>5, <1>6, <1>7

(* The channel of messages is closed.                                      *)
LEMMA CloseGoes ==
    ASSUME NEW t, Steady(t), CloseData
    PROVE  \E v \in Nat : Stage(v)'
<1>1. file \in Files /\ t \in Nat /\ hpc = "close" /\ t = Len(Content)
      /\ (Failed <=> CrashSent(data))
  BY SteadyHas DEF Steady, Going, CloseData
<1>2. UNCHANGED <<file, ctxDone, reported, inHand, data, chunks>> /\ hpc' = "done" /\ ent' = ent
  BY DEF CloseData, callerVars, To
<1>3. t = Len(Content)' /\ (Failed' <=> CrashSent(data)')
  BY <1>1, <1>2, SameFile
<1>4. Going(t)'
  BY <1>2, <1>3 DEF Going
<1> QED BY <1>1, <1>2, <1>4, SteadyStays

(* Every step of the handler keeps the invariant.                          *)
LEMMA HandlerSettled == Settled /\ HandlerStep => (Progress /\ Order /\ Final)'
<1> SUFFICES ASSUME Settled, HandlerStep PROVE (Progress /\ Order /\ Final)'
  OBVIOUS
<1>1. UNCHANGED <<file, ctxDone, interrupted, res, reported, inHand>>
  BY DEF HandlerStep, NextEntry, TakeChunk, ContentDone, Write, PlainSend, Measure,
         CloseData, callerVars
<1>2. ASSUME NEW t \in Nat, Stage(t) PROVE \E u \in Nat : Stage(u)'
  <2>1. CASE ctxDone
    BY <1>2, <2>1, HandlerCut DEF Settled
  <2>2. CASE ~ctxDone
    <3>1. Steady(t)
      BY <1>2, <2>2 DEF Steady, Stage, Settled
    <3> QED BY <3>1, NextEntryGoes, TakeChunkGoes, ContentDoneGoes, WriteGoes, SendsGo, CloseGoes
             DEF HandlerStep
  <2> QED BY <2>1, <2>2
<1>3. Progress'
  BY <1>1, <1>2 DEF Settled, Progress
<1>4. Content' = Content /\ (Failed' <=> Failed)
  BY <1>1, SameFile
<1>5. hpc' \in {"plain", "measure"} => out' \in {Warning, Fatal}
  BY LeaveSends DEF HandlerStep, NextEntry, TakeChunk, ContentDone, Write, PlainSend, Measure,
         CloseData, To, Fail, Settled, Typed, TypeOK
<1>6. Order'
  BY <1>1, <1>4, <1>5 DEF Settled, Order
<1>7. Final'
  BY <1>1, <1>4 DEF Settled, Final
<1> QED BY <1>3, <1>6, <1>7

(* A step of a chunk reader.                                               *)
LEMMA ReaderSettled ==
    ASSUME Settled, NEW e \in Ents, ReaderStep(e)
    PROVE  (Progress /\ Order /\ Final)'
<1>1. UNCHANGED <<file, ctxDone, interrupted, res, reported, inHand, hpc, ent, out, after, data>>
  BY DEF ReaderStep, ReadNext, SendChunk, Send, callerVars, handlerVars
<1>2. Content' = Content /\ (Failed' <=> Failed) /\ Given' = Given
  BY <1>1, SameFile DEF Given
<1>3. Order' /\ Final'
  BY <1>1, <1>2 DEF Settled, Order, Final
<1>4. ASSUME NEW t \in Nat, Stage(t) PROVE Stage(t)'
  <2>1. Queued(Content, data, Given, t)' /\ Written(t)'
    BY <1>1, <1>2, <1>4 DEF Stage, Written
  <2>2. CASE ctxDone
    BY <1>1, <2>1, <2>2 DEF Stage
  <2>3. CASE ~ctxDone
    <3>1. Steady(t)
      BY <1>4, <2>3 DEF Steady, Stage, Settled
    <3>2. rpc[e] \in Active
      BY DEF ReaderStep, ReadNext, SendChunk, Send, Active
    <3>3. e = ent /\ hpc \in {"content", "write"}
      BY <2>3, <3>2 DEF Settled, IInv, OneReader
    <3>4. /\ file \in Files /\ ent \in 1..Entries /\ Enters(ent)
          /\ chunks \in [Ents -> Seq(0..MaxChunks)]
      BY <3>1, <3>3, SteadyHas DEF Steady, Going
    <3>5. rpc \in [Ents -> {"new", "read", "send", "fail", "plain", "off"}]
          /\ pos \in [Ents -> 0..MaxChunks] /\ view \in [Ents -> Seq(Positions)]
      BY DEF Settled, Typed, TypeOK
    <3>6. PICK c \in Nat : c = file.entries[ent].chunks
      <4>1. file.entries[ent].chunks \in 0..MaxChunks
        BY <3>4, EntryIs DEF Entries
      <4> QED BY <4>1
    <3>7. file.entries[ent].end \in {"eof", "error", "panic"}
      BY <3>4, EntryIs DEF Entries
    <3>8. PICK w, q, v, p : w = rpc[ent] /\ q = chunks[ent] /\ v = view[ent] /\ p = pos[ent]
      OBVIOUS
    <3>9. ASSUME NEW k \in Nat, Reader(k) PROVE Reader(k)'
      <4>1. Running(w, q, v, p, c, k)
        BY <3>6, <3>8, <3>9 DEF Reader
      <4>a. ASSUME NEW w1, NEW q1, NEW v1, NEW p1, Running(w1, q1, v1, p1, c, k),
                   rpc'[ent] = w1, chunks'[ent] = q1, view'[ent] = v1, pos'[ent] = p1
            PROVE  Reader(k)'
        BY <1>1, <3>6, <4>a DEF Reader
      <4>2. CASE ReadNext(e) /\ v # <<>>
        <5>1. /\ rpc'[ent] = "send" /\ view'[ent] = Tail(v) /\ pos'[ent] = Head(v)
              /\ chunks'[ent] = q /\ w = "read"
          BY <3>3, <3>4, <3>5, <3>8, <4>2 DEF ReadNext
        <5>2. Running("send", q, Tail(v), Head(v), c, k)
          BY <4>1, <4>2, <5>1, RunReads
        <5> QED BY <4>a, <5>1, <5>2
      <4>3. CASE ReadNext(e) /\ v = <<>>
        <5>1. PICK x \in {"fail", "plain", "off"} : rpc'[ent] = x
          BY <3>3, <3>4, <3>5, <3>7, <3>8, <4>3 DEF ReadNext
        <5>2. view'[ent] = v /\ pos'[ent] = p /\ chunks'[ent] = q /\ w = "read"
          BY <3>3, <3>8, <4>3 DEF ReadNext
        <5>3. Running(x, q, v, p, c, k)
          BY <4>1, <4>3, <5>2, RunReads
        <5> QED BY <4>a, <5>1, <5>2, <5>3
      <4>4. CASE Send(e) /\ w = "send"
        <5>1. /\ rpc'[ent] = "read" /\ view'[ent] = v /\ pos'[ent] = p
              /\ chunks'[ent] = Append(q, p)
          BY <3>3, <3>4, <3>5, <3>8, <4>4 DEF Send
        <5>2. Running("read", Append(q, p), v, p, c, k)
          BY <4>1, <4>4, RunSends
        <5> QED BY <4>a, <5>1, <5>2
      <4>5. CASE Send(e) /\ w \in {"fail", "plain"}
        <5>1. /\ rpc'[ent] = "off" /\ view'[ent] = v /\ pos'[ent] = p
              /\ chunks'[ent] = Append(q, 0)
          BY <3>3, <3>4, <3>5, <3>8, <4>5 DEF Send
        <5>2. Running("off", Append(q, 0), v, p, c, k)
          BY <4>1, <4>5, RunSends
        <5> QED BY <4>a, <5>1, <5>2
      <4> QED BY <2>3, <3>3, <3>8, <4>2, <4>3, <4>4, <4>5 DEF ReaderStep, SendChunk, Send
    <3>10. Enters(ent)' /\ Reached(ent)' = Reached(ent)
      BY <1>1, <3>4, SameFile DEF Enters
    <3>11. Going(t)'
      <4>1. hpc = "content" => \E k \in Nat : Reader(k)' /\ t = Reached(ent)' + k
        BY <1>1, <3>1, <3>9, <3>10 DEF Steady, Going
      <4>2. hpc = "write" => \E k \in Nat :
                /\ Reader(k)'
                /\ \/ out = Warning /\ t = Reached(ent)' + k
                   \/ k > 0 /\ out = Datum(ent, k) /\ t + 1 = Reached(ent)' + k
        BY <1>1, <3>1, <3>9, <3>10 DEF Steady, Going
      <4>3. file.kind \notin Unhandled
        BY <3>1, <3>3 DEF Steady, Going
      <4> QED BY <1>1, <3>3, <3>10, <4>1, <4>2, <4>3 DEF Going
    <3>12. Untouched'
      <4>1. \A d \in Ents : d # ent => chunks'[d] = chunks[d]
        BY <3>3, <3>4 DEF ReaderStep, ReadNext, SendChunk, Send
      <4>2. ent \in Nat
        BY <3>4
      <4>3. ASSUME NEW d \in Ents, d > ent PROVE chunks'[d] = <<>>
        BY <3>1, <4>1, <4>2, <4>3 DEF Steady, Untouched, Ents
      <4> QED BY <1>1, <3>3, <4>3 DEF Untouched
    <3>13. FatalLast'
      BY <1>1, <3>1 DEF Steady, FatalLast
    <3> QED BY <2>1, <3>11, <3>12, <3>13 DEF Stage
  <2> QED BY <2>2, <2>3
<1>5. Progress'
  BY <1>1, <1>4 DEF Settled, Progress
<1> QED BY <1>3, <1>5

-----------------------------------------------------------------------------
(* HandleFile starts the handler, or has nothing to handle.                *)
LEMMA BeginSettled == Settled /\ Begin => (Progress /\ Order /\ Final)'
<1> SUFFICES ASSUME Settled, Begin PROVE (Progress /\ Order /\ Final)'
  OBVIOUS
<1>1. /\ UNCHANGED <<file, ctxDone, interrupted, inHand, reported, ent, out, after, data, chunks>>
      /\ hpc = "new" /\ res = "none" /\ file \in Files
  BY DEF Begin, Settled, Typed, TypeOK
<1>2. Content' = Content /\ (Failed' <=> Failed) /\ Given' = Given
  BY <1>1, SameFile DEF Given
<1>3. ASSUME file.kind \in Unhandled PROVE Content = <<>> /\ ~Failed
  BY <1>3 DEF Content, Failed
<1>4. Order'
  <2>1. inHand = <<>> \/ res' = "none"
    <3>1. CASE inHand # <<>>
      <4>1. Len(reported) < Len(Content) /\ Len(reported) \in Nat
        BY <3>1 DEF Settled, Order, Typed, TypeOK
      <4>2. file.kind \notin Unhandled
        <5>1. ASSUME Content = <<>> PROVE FALSE
          <6>1. Len(Content) = 0
            BY <5>1, EmptySeq
          <6> QED BY <4>1, <6>1
        <5> QED BY <1>3, <5>1
      <4> QED BY <1>1, <4>2 DEF Begin, Unhandled
    <3> QED BY <3>1
  <2>2. hpc' \in {"new", "next", "done"}
    BY <1>1 DEF Begin
  <2> QED BY <1>1, <1>2, <2>1, <2>2 DEF Settled, Order
<1>5. Final'
  <2>1. ASSUME res' \in {"nil", "fatal"} PROVE reported = <<>> /\ Content = <<>> /\ ~Failed /\ res' = "nil"
    <3>1. file.kind \in Unhandled /\ res' = "nil"
      BY <1>1, <2>1 DEF Begin, Unhandled
    <3>2. Content = <<>> /\ ~Failed
      BY <1>3, <3>1
    <3>3. Len(reported) <= 0 /\ Len(reported) \in Nat /\ reported \in Seq(Ents \X Positions)
      BY <3>2, EmptySeq DEF Settled, Order, Typed, TypeOK
    <3>4. Len(reported) = 0
      BY <3>3
    <3> QED BY <3>1, <3>2, <3>3, <3>4, EmptySeq
  <2> QED BY <1>1, <1>2, <2>1 DEF Final
<1>6. Progress'
  <2>1. SUFFICES ASSUME res' = "none" PROVE \E u \in Nat : Stage(u)'
    BY DEF Progress
  <2>2. PICK t \in Nat : Stage(t)
    BY <1>1 DEF Settled, Progress
  <2>3. hpc' = IF file.kind = "forced" THEN "done" ELSE "next"
    BY <1>1, <2>1 DEF Begin
  <2>4. ~ctxDone => Going(t)' /\ Untouched' /\ FatalLast'
    <3>1. SUFFICES ASSUME ~ctxDone PROVE Going(t)' /\ Untouched' /\ FatalLast'
      OBVIOUS
    <3>2. ent = 1 /\ data = <<>> /\ t = 0 /\ Untouched
      BY <1>1, <2>2, <3>1 DEF Stage, Going
    <3>3. Len(data) = 0 /\ ~CrashSent(data)
      BY <3>2, EmptySeq DEF CrashSent
    <3>4. FatalLast'
      BY <1>1, <3>3 DEF FatalLast
    <3>5. Untouched'
      BY <1>1, <2>3, <3>2 DEF Untouched
    <3>6. CASE file.kind = "forced"
      <4>1. t = Len(Content)' /\ ~Failed'
        BY <1>2, <1>3, <3>2, <3>6, EmptySeq DEF Unhandled
      <4>2. hpc' = "done"
        BY <2>3, <3>6
      <4>3. Going(t)'
        BY <1>1, <3>3, <4>1, <4>2 DEF Going
      <4> QED BY <3>4, <3>5, <4>3
    <3>7. CASE file.kind # "forced"
      <4>1. file.kind \notin Unhandled
        BY <1>1, <2>1, <3>7 DEF Begin, Unhandled
      <4>2. hpc' = "next"
        BY <2>3, <3>7
      <4>3. PassesUpTo(ent - 1)' /\ Reached(ent)' = t
        <5>1. PassesUpTo(0) /\ Reached(1) = 0 /\ ent - 1 = 0
          BY <1>1, <3>2, StartIsReached DEF PassesUpTo
        <5> QED BY <1>1, <3>2, <5>1, SameFile
      <4>4. Going(t)'
        BY <1>1, <4>1, <4>2, <4>3 DEF Going
      <4> QED BY <3>4, <3>5, <4>4
    <3> QED BY <3>6, <3>7
  <2>5. Queued(Content, data, Given, t)' /\ Written(t)'
    BY <1>1, <1>2, <2>2, <2>3 DEF Stage, Written
  <2>6. Stage(t)'
    BY <1>1, <2>4, <2>5 DEF Stage
  <2> QED BY <2>6
<1> QED BY <1>4, <1>5, <1>6

(* The caller receives the next message, or the end.                       *)
LEMMA ReceiveSettled == Settled /\ Receive => (Progress /\ Order /\ Final)'
<1> SUFFICES ASSUME Settled, Receive PROVE (Progress /\ Order /\ Final)'
  OBVIOUS
<1>1. /\ UNCHANGED <<file, ctxDone, interrupted, reported, hpc, ent, out, after, rpc, pos, view, chunks>>
      /\ res = "none" /\ inHand = <<>> /\ hpc # "new" /\ file \in Files
      /\ data \in Seq(Messages) /\ reported \in Seq(Ents \X Positions)
  BY DEF Receive, Waiting, handlerVars, readerVars, Settled, Typed, TypeOK
<1>2. Content' = Content /\ (Failed' <=> Failed) /\ Given = Len(reported) /\ Given \in Nat
  BY <1>1, SameFile, LenProperties DEF Given
<1>3. PICK t \in Nat : Stage(t)
  BY <1>1 DEF Settled, Progress
<1>4. /\ Len(reported) <= Len(Content) /\ Len(Content) \in Nat /\ Content \in Seq(Ents \X Positions)
      /\ reported = SubSeq(Content, 1, Len(reported)) /\ Len(reported) \in Nat
      /\ Queued(Content, data, Given, t)
  BY <1>1, <1>3, ContentType, LenProperties DEF Settled, Order, Stage
<1>a. ASSUME Len(reported) = Len(Content) PROVE reported = Content
  <2>1. SubSeq(Content, 1, Len(Content)) = Content
    BY <1>4, SubSeqFull
  <2> QED BY <1>4, <1>a, <2>1
<1>b. ~interrupted => ~ctxDone
  BY <1>1 DEF Settled, IInv, WhyDone
<1>5. CASE data = <<>>
  <2>1. hpc = "done" /\ res' = "nil" /\ UNCHANGED <<data, inHand>>
    BY <1>1, <1>5 DEF Receive
  <2>2. Order'
    BY <1>1, <1>2, <2>1 DEF Settled, Order
  <2>3. Final'
    <3>1. SUFFICES ASSUME ~interrupted PROVE reported = Content /\ ~Failed
      BY <1>1, <1>2, <2>1 DEF Final
    <3>2. t = Len(Content) /\ (Failed <=> CrashSent(data))
      BY <1>b, <1>3, <2>1, <3>1 DEF Stage, Going
    <3>3. ~CrashSent(data)
      BY <1>5, EmptySeq DEF CrashSent
    <3>4. Given = t
      BY <1>2, <1>4, <1>5, QueueEmpty
    <3> QED BY <1>a, <1>2, <3>2, <3>3, <3>4
  <2>4. Progress'
    BY <2>1 DEF Progress
  <2> QED BY <2>2, <2>3, <2>4
<1>6. CASE data # <<>>
  <2>1. PICK m, q, a : m = Head(data) /\ q = Tail(data) /\ a = Given
    OBVIOUS
  <2>2. /\ data' = q /\ res' = IF m = Fatal THEN "fatal" ELSE "none"
        /\ inHand' = IF m.type = "data" THEN m.of ELSE <<>>
    BY <1>1, <1>6, <2>1 DEF Receive
  <2>3. PICK b \in Nat : Counts(Content, m, a, b) /\ Queued(Content, q, b, t)
    BY <1>1, <1>4, <1>6, <2>1, QueueTail
  <2>4. /\ m \in Messages /\ q \in Seq(Messages) /\ Len(q) = Len(data) - 1 /\ Len(data) \in Nat
        /\ Len(data) > 0 /\ m = data[1] /\ \A i \in 1..Len(q) : q[i] = data[i + 1] /\ i + 1 \in 1..Len(data)
    <3>1. Len(data) \in Nat /\ Len(data) # 0
      BY <1>1, <1>6, LenProperties, EmptySeq
    <3>2. m \in Messages /\ q \in Seq(Messages) /\ Len(q) = Len(data) - 1 /\ m = data[1]
          /\ \A i \in 1..Len(q) : q[i] = data[i + 1]
      BY <1>1, <1>6, <2>1, HeadTailProperties
    <3> QED BY <3>1, <3>2
  <2>5. m.type = "data" => /\ m.of # <<>> /\ m # Fatal /\ b = a + 1 /\ b <= Len(Content)
                           /\ m.of = Content[b]
    <3>1. SUFFICES ASSUME m.type = "data" PROVE /\ m.of # <<>> /\ m # Fatal /\ b = a + 1
                                               /\ b <= Len(Content) /\ m.of = Content[b]
      OBVIOUS
    <3>2. m # Fatal
      BY <3>1 DEF Fatal
    <3>3. PICK d, i : m = Datum(d, i)
      BY <2>4, <3>1 DEF Messages, Warning, Fatal
    <3>4. m.of = <<d, i>>
      BY <3>3 DEF Datum
    <3> QED BY <2>3, <3>1, <3>2, <3>4 DEF Counts
  <2>6. m.type # "data" => b = a
    BY <2>3 DEF Counts
  <2>7. Order'
    <3>1. inHand' # <<>> => /\ res' = "none" /\ Len(reported) < Len(Content)
                            /\ inHand' = Content[Len(reported) + 1]
      <4>1. SUFFICES ASSUME inHand' # <<>>
                     PROVE  /\ res' = "none" /\ Len(reported) < Len(Content)
                            /\ inHand' = Content[Len(reported) + 1]
        OBVIOUS
      <4>2. m.type = "data"
        BY <2>2, <4>1
      <4>3. b = Len(reported) + 1
        BY <1>2, <2>1, <2>5, <4>2
      <4>4. Len(reported) < Len(Content)
        BY <1>4, <2>5, <4>2, <4>3
      <4> QED BY <2>2, <2>5, <4>2, <4>3, <4>4
    <3> QED BY <1>1, <1>2, <3>1 DEF Settled, Order
  <2>8. Final'
    <3>1. SUFFICES ASSUME ~interrupted, m = Fatal PROVE reported = Content /\ Failed
      BY <1>1, <1>2, <2>2 DEF Final
    <3>2. Going(t) /\ FatalLast
      BY <1>b, <1>3, <3>1 DEF Stage
    <3>3. Len(data) = 1 /\ hpc \in {"close", "done"}
      <4>1. 1 \in 1..Len(data)
        BY <2>4
      <4> QED BY <2>4, <3>1, <3>2, <4>1 DEF FatalLast
    <3>4. t = Len(Content) /\ Failed
      <4>1. CrashSent(data)
        BY <2>4, <3>1, <3>3 DEF CrashSent
      <4> QED BY <3>2, <3>3, <4>1 DEF Going
    <3>5. m.type # "data"
      BY <3>1 DEF Fatal
    <3>6. q = <<>>
      BY <2>4, <3>3, EmptySeq
    <3>7. b = t /\ a = t
      BY <2>3, <2>6, <3>5, <3>6, QueueEmpty
    <3> QED BY <1>a, <1>2, <2>1, <3>4, <3>7
  <2>9. Progress'
    <3>1. SUFFICES ASSUME res' = "none" PROVE Stage(t)'
      BY DEF Progress
    <3>2. m # Fatal
      BY <2>2, <3>1
    <3>3. Given' = b
      <4>1. CASE m.type = "data"
        <5>1. inHand' # <<>> /\ b = Len(reported) + 1
          BY <1>2, <2>1, <2>2, <2>5, <4>1
        <5> QED BY <1>1, <5>1 DEF Given
      <4>2. CASE m.type # "data"
        <5>1. inHand' = <<>> /\ b = Len(reported)
          BY <1>2, <2>1, <2>2, <2>6, <4>2
        <5> QED BY <1>1, <1>4, <5>1 DEF Given
      <4> QED BY <4>1, <4>2
    <3>4. Queued(Content, data, Given, t)'
      BY <1>2, <2>2, <2>3, <3>3
    <3>5. Written(t)'
      BY <1>1, <1>2, <1>3 DEF Stage, Written
    <3>6. ASSUME ~ctxDone PROVE Going(t)' /\ Untouched' /\ FatalLast'
      <4>1. Going(t) /\ Untouched /\ FatalLast
        BY <1>3, <3>6 DEF Stage
      <4>2. CrashSent(q) <=> CrashSent(data)
        <5>1. CASE Len(data) = 1
          BY <2>4, <3>2, <5>1 DEF CrashSent
        <5>2. CASE Len(data) # 1
          <6>1. Len(q) > 0 /\ Len(q) \in 1..Len(q) /\ Len(q) + 1 = Len(data)
            BY <2>4, <5>2
          <6>2. q[Len(q)] = data[Len(data)]
            BY <2>4, <6>1
          <6> QED BY <2>4, <6>1, <6>2 DEF CrashSent
        <5> QED BY <5>1, <5>2
      <4>3. FatalLast'
        <5>1. ASSUME NEW i \in 1..Len(q), q[i] = Fatal PROVE i = Len(q) /\ hpc \in {"close", "done"}
          <6>1. i + 1 \in 1..Len(data) /\ data[i + 1] = Fatal
            BY <2>4, <5>1
          <6>2. i + 1 = Len(data) /\ hpc \in {"close", "done"}
            BY <4>1, <6>1 DEF FatalLast
          <6> QED BY <2>4, <6>2
        <5> QED BY <1>1, <2>2, <5>1 DEF FatalLast
      <4>4. Untouched'
        BY <1>1, <4>1 DEF Untouched
      <4>5. Reached(ent)' = Reached(ent) /\ Reached(ent + 1)' = Reached(ent + 1)
            /\ (PassesUpTo(ent)' <=> PassesUpTo(ent)) /\ (PassesUpTo(ent - 1)' <=> PassesUpTo(ent - 1))
            /\ (Enters(ent)' <=> Enters(ent)) /\ \A k : Reader(k)' <=> Reader(k)
        BY <1>1, SameFile DEF Enters, Reader
      <4>6. CrashSent(data)' <=> CrashSent(data)
        BY <2>2, <4>2
      <4>7. Going(t)'
        BY <1>1, <1>2, <4>1, <4>5, <4>6 DEF Going
      <4> QED BY <4>3, <4>4, <4>7
    <3> QED BY <1>1, <3>4, <3>5, <3>6 DEF Stage
  <2> QED BY <2>7, <2>8, <2>9
<1> QED BY <1>5, <1>6

(* The caller reports the chunk in its hand.                               *)
LEMMA ReportSettled == Settled /\ ReportChunk => (Progress /\ Order /\ Final)'
<1> SUFFICES ASSUME Settled, ReportChunk PROVE (Progress /\ Order /\ Final)'
  OBVIOUS
<1>1. /\ UNCHANGED <<file, ctxDone, interrupted, res, hpc, ent, out, after, data, rpc, pos, view, chunks>>
      /\ inHand # <<>> /\ inHand' = <<>> /\ reported' = Append(reported, inHand) /\ file \in Files
      /\ reported \in Seq(Ents \X Positions) /\ inHand \in Ents \X Positions
  BY DEF ReportChunk, handlerVars, readerVars, Settled, Typed, TypeOK
<1>2. Content' = Content /\ (Failed' <=> Failed)
  BY <1>1, SameFile
<1>3. PICK n, s, C, r, m : n = Len(reported) /\ s = reported /\ C = Content /\ r = reported' /\ m = inHand
  OBVIOUS
<1>4. /\ n \in Nat /\ n < Len(C) /\ m = C[n + 1] /\ s = SubSeq(C, 1, n) /\ res = "none"
      /\ Len(C) \in Nat /\ C \in Seq(Ents \X Positions)
  BY <1>1, <1>3, ContentType, LenProperties DEF Settled, Order
<1>5. r = SubSeq(C, 1, n + 1) /\ Len(r) = n + 1 /\ r \in Seq(Ents \X Positions)
  <2>1. r \in Seq(Ents \X Positions) /\ Len(r) = n + 1 /\ r[n + 1] = m /\ \A i \in 1..n : r[i] = s[i]
    BY <1>1, <1>3, AppendProperties
  <2>2. PICK k, u, w : k = n + 1 /\ u = SubSeq(C, 1, k) /\ w = SubSeq(C, 1, n)
    OBVIOUS
  <2>3. k \in Nat /\ k <= Len(C) /\ 1 <= k
    BY <1>4, <2>2
  <2>4. u \in Seq(Ents \X Positions) /\ Len(u) = k /\ \A i \in 1..k : u[i] = C[i]
    BY <1>4, <2>2, <2>3
  <2>5. \A i \in 1..n : s[i] = C[i]
    BY <1>4, <2>2
  <2>6. ASSUME NEW i \in 1..Len(r) PROVE r[i] = u[i]
    <3>1. CASE i = n + 1
      BY <1>4, <2>1, <2>2, <2>3, <2>4, <3>1
    <3>2. CASE i # n + 1
      <4>1. i \in 1..n /\ i \in 1..k
        BY <1>4, <2>1, <2>2, <3>2
      <4> QED BY <2>1, <2>4, <2>5, <4>1
    <3> QED BY <3>1, <3>2
  <2> QED BY <2>1, <2>2, <2>4, <2>6, SeqEqual
<1>6. Order'
  <2>1. Len(r) <= Len(C)
    BY <1>4, <1>5
  <2> QED BY <1>1, <1>2, <1>3, <1>5, <2>1 DEF Settled, Order
<1>7. Final'
  BY <1>1, <1>4 DEF Final
<1>8. Given' = Given
  <2>1. Given = n + 1
    BY <1>1, <1>3 DEF Given
  <2>2. Given' = Len(r) + 0
    BY <1>1, <1>3 DEF Given
  <2> QED BY <1>4, <1>5, <2>1, <2>2
<1>9. ASSUME NEW t \in Nat, Stage(t) PROVE Stage(t)'
  <2>1. Reached(ent)' = Reached(ent) /\ Reached(ent + 1)' = Reached(ent + 1)
        /\ (PassesUpTo(ent)' <=> PassesUpTo(ent)) /\ (PassesUpTo(ent - 1)' <=> PassesUpTo(ent - 1))
        /\ (Enters(ent)' <=> Enters(ent)) /\ \A k : Reader(k)' <=> Reader(k)
    BY <1>1, SameFile DEF Enters, Reader
  <2>2. Going(t)' <=> Going(t)
    BY <1>1, <1>2, <2>1 DEF Going
  <2>3. (Untouched' <=> Untouched) /\ (FatalLast' <=> FatalLast) /\ (Written(t)' <=> Written(t))
    BY <1>1, <1>2 DEF Untouched, FatalLast, Written
  <2> QED BY <1>1, <1>2, <1>8, <1>9, <2>2, <2>3 DEF Stage
<1>10. Progress'
  BY <1>1, <1>9 DEF Settled, Progress
<1> QED BY <1>6, <1>7, <1>10

(* The result comes of the caller, or of the end of the context.           *)
LEMMA ResultSettled ==
    ASSUME Settled, GiveUp \/ ReportFails \/ Return \/ Interrupt \/ UNCHANGED vars
    PROVE  (Progress /\ Order /\ Final)'
<1> USE DEF handlerVars, readerVars, callerVars
<1>1. /\ UNCHANGED <<file, reported, hpc, ent, out, after, data, rpc, pos, view, chunks>>
      /\ \/ UNCHANGED <<inHand, res>>
         \/ res' \in {"ctx", "refused"} /\ inHand' = <<>> /\ UNCHANGED interrupted
      /\ ctxDone => ctxDone'
  BY DEF GiveUp, ReportFails, Return, Interrupt, vars, Waiting
<1>2. Content' = Content /\ (Failed' <=> Failed)
  BY <1>1, SameFile
<1>3. Order'
  BY <1>1, <1>2 DEF Settled, Order
<1>4. Final'
  <2>1. interrupted => interrupted'
    BY DEF GiveUp, ReportFails, Return, Interrupt, vars
  <2> QED BY <1>1, <1>2, <2>1 DEF Settled, Final
<1>5. ASSUME NEW t \in Nat, Stage(t), UNCHANGED <<inHand, res>> PROVE Stage(t)'
  <2>1. Given' = Given
    BY <1>1, <1>5 DEF Given
  <2>2. Reached(ent)' = Reached(ent) /\ Reached(ent + 1)' = Reached(ent + 1)
        /\ (PassesUpTo(ent)' <=> PassesUpTo(ent)) /\ (PassesUpTo(ent - 1)' <=> PassesUpTo(ent - 1))
        /\ (Enters(ent)' <=> Enters(ent)) /\ \A k : Reader(k)' <=> Reader(k)
    BY <1>1, SameFile DEF Enters, Reader
  <2>3. Going(t)' <=> Going(t)
    BY <1>1, <1>2, <2>2 DEF Going
  <2>4. (Untouched' <=> Untouched) /\ (FatalLast' <=> FatalLast) /\ (Written(t)' <=> Written(t))
    BY <1>1, <1>2 DEF Untouched, FatalLast, Written
  <2> QED BY <1>1, <1>2, <1>5, <2>1, <2>3, <2>4 DEF Stage
<1>6. Progress'
  BY <1>1, <1>5 DEF Settled, Progress
<1> QED BY <1>3, <1>4, <1>6

(* Every step keeps the invariant.                                         *)
LEMMA SettledKept == Settled /\ [Next]_vars => Settled'
<1> SUFFICES ASSUME Settled, [Next]_vars PROVE Settled'
  OBVIOUS
<1>1. Typed'
  BY TypedKept DEF Settled
<1>2. IInv'
  BY HandlerKeeps, OthersKeep DEF Settled
<1>3. (Progress /\ Order /\ Final)'
  BY HandlerSettled, ReaderSettled, BeginSettled, ReceiveSettled, ReportSettled, ResultSettled
     DEF Next, CallerStep
<1> QED BY <1>1, <1>2, <1>3 DEF Settled

(* It holds at the start.                                                  *)
LEMMA InitSettled == Init => Progress /\ Order /\ Final
<1> SUFFICES ASSUME Init PROVE Progress /\ Order /\ Final
  OBVIOUS
<1>1. /\ file \in Files /\ res = "none" /\ inHand = <<>> /\ reported = <<>> /\ hpc = "new"
      /\ ent = 1 /\ data = <<>> /\ chunks = [e \in Ents |-> <<>>]
  BY DEF Init
<1>2. Len(Content) \in Nat /\ Content \in Seq(Ents \X Positions) /\ Len(<<>>) = 0
  BY <1>1, ContentType, EmptySeq
<1>3. Order
  <2>1. SubSeq(Content, 1, 0) = <<>>
    BY <1>2, SubSeqEmpty
  <2> QED BY <1>1, <1>2, <2>1 DEF Order
<1>4. Final
  BY <1>1 DEF Final
<1>5. Stage(0)
  <2>1. Given = 0
    BY <1>1, <1>2 DEF Given
  <2>2. Queued(Content, data, Given, 0)
    BY <1>1, <2>1, QueueEmpty
  <2>3. Going(0) /\ Written(0)
    BY <1>1 DEF Going, Written
  <2>4. Untouched /\ FatalLast
    BY <1>1, <1>2 DEF Untouched, FatalLast
  <2> QED BY <2>2, <2>3, <2>4 DEF Stage
<1>6. Progress
  BY <1>5 DEF Progress
<1> QED BY <1>3, <1>4, <1>6

(* It says what is to be shown.                                            *)
LEMMA SettledReports == Settled => ContentIsReported
<1> SUFFICES ASSUME Settled PROVE ContentIsReported
  OBVIOUS
<1>1. file \in Files /\ reported \in Seq(Ents \X Positions) /\ Len(reported) \in Nat
  BY LenProperties DEF Settled, Typed, TypeOK
<1>2. Content \in Seq(Ents \X Positions) /\ Len(Content) \in Nat
  BY <1>1, ContentType
<1>3. Len(reported) <= Len(Content) /\ reported = SubSeq(Content, 1, Len(reported))
  BY DEF Settled, Order
<1>4. IsPrefix(reported, Content)
  BY <1>1, <1>2, <1>3 DEF IsPrefix
<1> QED BY <1>4 DEF Settled, Final, ContentIsReported

(* What is reported of a file is a prefix of its content, in order and     *)
(* without a gap, whatever is cancelled and however the goroutines         *)
(* interleave; and without an interruption HandleFile's result comes after *)
(* the last chunk: nil with everything reported, an error exactly when the *)
(* handler panicked, with all that was read before.                        *)
THEOREM AllIsReported == Spec => []ContentIsReported
<1>1. Init => IInv
  BY DEF Init, IInv, Shape, RealEntries, OneReader, NotStarted, WhyDone, NilIsLast, Active
<1>2. Init => Settled
  BY <1>1, InitTyped, InitSettled DEF Settled
<1> QED BY <1>2, SettledKept, SettledReports, PTL DEF Spec
=============================================================================
