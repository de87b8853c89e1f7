------------------------------ MODULE DataProofs ------------------------------
(***************************************************************************)
(* Theorems about the data that passes through a mount, and about the      *)
(* loops that move it: each does what one step would do.                   *)
(*                                                                         *)
(* What is in a file: the transport's loops of requests are positional I/O *)
(* (AfcFile implements PositionalFile), and where the handlers of          *)
(* FileHandlers put what they write - for every file, every number of      *)
(* handles and every size of a request.  The inductive invariant says how  *)
(* far the loop of the call that runs has come: what it has read is the    *)
(* part of the file it would have read at once, and the file is what a     *)
(* write of the bytes it has written would have made of the file it began  *)
(* with.                                                                   *)
(*                                                                         *)
(* What goes with a file: the paths, names, times and targets of links     *)
(* that Conversions translates, for every text and every number.           *)
(*                                                                         *)
(* What number a file has: the loops of InodeTableLoops implement the      *)
(* steps of InodeTable, in whatever order they go through a subtree.  The  *)
(* inductive invariant (TableLoops) says that the maps are those the call  *)
(* began with, with the paths moved or removed that the loop has reached.  *)
(***************************************************************************)
EXTENDS FileHandlers, Conversions, InodeTableLoops, SequenceTheorems, TLAPS

Bytes == Byte \union {Zero}

\* Where the bytes of the write that runs began to go.
Start == IF call.handle \in Appending THEN Len(before) ELSE call.offset

\* What a read has got is what one request would have returned.
ReadSoFar ==
    LET got == Len(call.output)
    IN  /\ content = before
        /\ call.remaining + got \in Visible!Count
        /\ call.step = "seek" => call.output = <<>>
        /\ call.step = "transfer" => cursor[call.handle] = call.offset + got
        /\ call.output # <<>> => call.offset + got <= Len(content)
        /\ call.output = Visible!Slice(content, call.offset, got)

\* What a write has done to the file is what one request would have done.
WrittenSoFar ==
    LET done == Len(call.bytes) - Len(call.rest)
    IN  /\ done \in 0..Len(call.bytes)
        /\ call.rest = SubSeq(call.bytes, done + 1, Len(call.bytes))
        /\ call.step = "seek" => call.rest = call.bytes
        /\ call.step = "transfer" /\ call.handle \notin Appending =>
              cursor[call.handle] = call.offset + done
        /\ content = Visible!Overlay(before, Start, SubSeq(call.bytes, 1, done))

Reads ==
    [step : {"seek", "transfer"}, op : {"read"}, handle : Handle,
     offset : Visible!Offset, remaining : Nat, output : Seq(Bytes)]

WritesOf ==
    [step : {"seek", "transfer"}, op : {"write"}, handle : Handle,
     offset : Visible!Offset, bytes : Visible!Data, rest : Seq(Byte)]

Running ==
    \/ call = Idle
    \/ call \in Reads /\ ReadSoFar
    \/ call \in WritesOf /\ WrittenSoFar

Types ==
    /\ content \in Seq(Bytes) /\ before \in Seq(Bytes)
    /\ cursor \in [Handle -> Nat]
    /\ changes \in Nat

FileInv == Types /\ Running

\* The handler that runs, and the call it has made.  The size that a write to
\* the end has asked for is that of the file, unless the device's own programs
\* have changed the file since.
HandlerInv ==
    /\ call # Idle => handler.step = call.op
    /\ handler.step = "size" =>
          /\ call = Idle
          /\ handler.handle \in Handle /\ handler.bytes \in Visible!Data
          /\ handler.seen \in 0..changes
          /\ handler.seen = changes => handler.size = Len(content)
    /\ call # Idle /\ call.op = "write" /\ handler.eof /\ handler.seen = changes =>
          call.offset = Len(before)

Inv == FileInv /\ HandlerInv
-----------------------------------------------------------------------------
(***************************************************************************)
(* What PositionalFile's operators on files do.                            *)
(***************************************************************************)
LEMMA SliceIs ==
    ASSUME NEW S, NEW f \in Seq(S), NEW o \in Nat, NEW n \in Nat
    PROVE  /\ Visible!Slice(f, o, n) \in Seq(S)
           /\ Len(Visible!Slice(f, o, n))
                = IF o + n <= Len(f) THEN n ELSE IF o <= Len(f) THEN Len(f) - o ELSE 0
           /\ \A k \in 1..Len(Visible!Slice(f, o, n)) : Visible!Slice(f, o, n)[k] = f[o + k]
<1> DEFINE m == Visible!Smaller(o + n, Len(f))
<1>1. m \in Nat /\ m <= Len(f) /\ m = IF o + n <= Len(f) THEN o + n ELSE Len(f)
  BY DEF Visible!Smaller
<1> HIDE DEF m
<1>2. /\ SubSeq(f, o + 1, m) \in Seq(S)
      /\ Len(SubSeq(f, o + 1, m)) = IF o + 1 <= m THEN m - o ELSE 0
      /\ \A k \in 1..Len(SubSeq(f, o + 1, m)) : SubSeq(f, o + 1, m)[k] = f[o + k]
  <2>1. CASE o + 1 <= m
    <3>1. Len(SubSeq(f, o + 1, m)) = m - o
      BY <1>1, <2>1
    <3> QED
      BY <1>1, <2>1, <3>1
  <2>2. CASE ~(o + 1 <= m)
    BY <1>1, <2>2
  <2> QED
    BY <2>1, <2>2
<1>3. Visible!Slice(f, o, n) = SubSeq(f, o + 1, m)
  BY DEF Visible!Slice, m
<1> QED
  BY <1>1, <1>2, <1>3

\* A slice that reaches no further than the file ends, and the one behind it.
LEMMA SliceJoin ==
    ASSUME NEW S, NEW f \in Seq(S), NEW o \in Nat, NEW m \in Nat, NEW n \in Nat,
           m # 0 => o + m <= Len(f)
    PROVE  Visible!Slice(f, o, m) \o Visible!Slice(f, o + m, n) = Visible!Slice(f, o, m + n)
<1> DEFINE a == Visible!Slice(f, o, m)
           b == Visible!Slice(f, o + m, n)
           c == Visible!Slice(f, o, m + n)
<1>0. f \in Seq(S) /\ o \in Nat /\ m \in Nat /\ n \in Nat /\ Len(f) \in Nat
  OBVIOUS
<1>1. a \in Seq(S) /\ Len(a) = m /\ \A k \in 1..m : a[k] = f[o + k]
  <2>1. /\ a \in Seq(S) /\ \A k \in 1..Len(a) : a[k] = f[o + k]
        /\ Len(a) = IF o + m <= Len(f) THEN m ELSE IF o <= Len(f) THEN Len(f) - o ELSE 0
    BY ONLY <1>0, SliceIs
  <2>2. Len(a) = m
    BY <1>0, <2>1
  <2> QED
    BY <2>1, <2>2
<1>2. /\ b \in Seq(S) /\ \A k \in 1..Len(b) : b[k] = f[(o + m) + k]
      /\ Len(b) = IF (o + m) + n <= Len(f) THEN n
                  ELSE IF o + m <= Len(f) THEN Len(f) - (o + m) ELSE 0
  <2>1. o + m \in Nat
    BY <1>0
  <2> QED
    BY ONLY <1>0, <2>1, SliceIs
<1>3. /\ c \in Seq(S) /\ \A k \in 1..Len(c) : c[k] = f[o + k]
      /\ Len(c) = IF o + (m + n) <= Len(f) THEN m + n
                  ELSE IF o <= Len(f) THEN Len(f) - o ELSE 0
  <2>1. m + n \in Nat
    BY <1>0
  <2> QED
    BY ONLY <1>0, <2>1, SliceIs
<1> HIDE DEF a, b, c
<1>4. Len(c) = m + Len(b) /\ Len(b) \in Nat
  BY <1>2, <1>3
<1>5. a \o b \in Seq(S) /\ Len(a \o b) = m + Len(b)
  <2>1. a \in Seq(S) /\ b \in Seq(S)
    BY <1>1, <1>2
  <2>2. a \o b \in Seq(S) /\ Len(a \o b) = Len(a) + Len(b)
    BY ONLY <2>1
  <2> QED
    BY <1>1, <2>2
<1>6. ASSUME NEW k \in 1..(m + Len(b)) PROVE (a \o b)[k] = c[k]
  <2>0. /\ a \in Seq(S) /\ b \in Seq(S) /\ Len(a) = m /\ Len(b) \in Nat /\ m \in Nat
        /\ k \in 1..(m + Len(b)) /\ k \in Int
    BY <1>0, <1>1, <1>2, <1>4
  <2>1. CASE k <= m
    <3>1. (a \o b)[k] = a[k] /\ k \in 1..m
      BY ONLY <2>0, <2>1
    <3> QED
      BY <1>1, <1>3, <1>4, <2>0, <3>1
  <2>2. CASE k > m
    <3>1. (a \o b)[k] = b[k - m] /\ k - m \in 1..Len(b)
      BY ONLY <2>0, <2>2
    <3>2. b[k - m] = f[(o + m) + (k - m)] /\ (o + m) + (k - m) = o + k
      BY <1>2, <1>4, <3>1
    <3> QED
      BY <1>3, <1>4, <3>1, <3>2
  <2> QED
    BY <2>0, <2>1, <2>2
<1>7. a \o b = c
  BY <1>3, <1>4, <1>5, <1>6, SeqEqual
<1> QED
  BY <1>7 DEF a, b, c

\* A slice that came back short is all there is from its offset on.
LEMMA SliceShort ==
    ASSUME NEW S, NEW f \in Seq(S), NEW o \in Nat, NEW m \in Nat, NEW n \in Nat,
           m <= n, Len(Visible!Slice(f, o, m)) < m
    PROVE  Visible!Slice(f, o, n) = Visible!Slice(f, o, m)
<1>1. Len(f) \in Nat /\ o + m > Len(f) /\ o + n > Len(f)
  <2>1. ~(o + m <= Len(f))
    BY SliceIs
  <2> QED
    BY <2>1
<1> QED
  BY <1>1 DEF Visible!Slice, Visible!Smaller

\* The file with some bytes in it.
LEMMA OverlayIs ==
    ASSUME NEW S, Zero \in S, NEW f \in Seq(S), NEW o \in Nat,
           NEW d \in Seq(S), d # <<>>
    PROVE  LET n == IF o + Len(d) > Len(f) THEN o + Len(d) ELSE Len(f)
               g == Visible!Overlay(f, o, d)
           IN  /\ n \in Nat /\ g \in Seq(S) /\ Len(g) = n
               /\ \A k \in 1..n : g[k] = IF k \in (o + 1)..(o + Len(d)) THEN d[k - o]
                                         ELSE IF k <= Len(f) THEN f[k] ELSE Zero
<1> DEFINE n == IF o + Len(d) > Len(f) THEN o + Len(d) ELSE Len(f)
           g == Visible!Overlay(f, o, d)
<1>1. n \in Nat /\ Len(d) \in Nat /\ Len(f) \in Nat
  OBVIOUS
<1> HIDE DEF n
<1>2. g = [k \in 1..n |-> IF k \in (o + 1)..(o + Len(d)) THEN d[k - o]
                          ELSE IF k <= Len(f) THEN f[k] ELSE Zero]
  BY DEF n, Visible!Overlay
<1> HIDE DEF g
<1>3. ASSUME NEW k \in 1..n PROVE g[k] \in S
  <2>1. CASE k \in (o + 1)..(o + Len(d))
    <3>1. k - o \in 1..Len(d)
      BY <1>1, <2>1
    <3> QED
      BY <1>2, <2>1, <3>1
  <2>2. CASE k \notin (o + 1)..(o + Len(d))
    <3>1. CASE k <= Len(f)
      BY <1>1, <1>2, <2>2, <3>1
    <3>2. CASE ~(k <= Len(f))
      BY <1>2, <2>2, <3>2
    <3> QED
      BY <3>1, <3>2
  <2> QED
    BY <2>1, <2>2
<1>4. DOMAIN g = 1..n /\ g \in [1..n -> S]
  BY <1>2, <1>3
<1>5. g \in Seq(S) /\ Len(g) = n
  BY <1>1, <1>4
<1> QED
  BY <1>1, <1>2, <1>5 DEF n, g

\* Bytes that are put behind others make one write of both.
LEMMA OverlayTwice ==
    ASSUME NEW S, Zero \in S, NEW f \in Seq(S), NEW o \in Nat,
           NEW x \in Seq(S), NEW y \in Seq(S)
    PROVE  Visible!Overlay(Visible!Overlay(f, o, x), o + Len(x), y)
             = Visible!Overlay(f, o, x \o y)
<1>0. /\ f \in Seq(S) /\ x \in Seq(S) /\ y \in Seq(S) /\ Zero \in S
      /\ o \in Nat /\ Len(f) \in Nat /\ Len(x) \in Nat /\ Len(y) \in Nat
  OBVIOUS
<1>1. CASE x = <<>>
  <2>1. x \o y = y /\ o + Len(x) = o
    BY <1>0, <1>1
  <2>2. Visible!Overlay(f, o, x) = f
    BY <1>1 DEF Visible!Overlay
  <2> QED
    BY <2>1, <2>2
<1>2. CASE y = <<>>
  <2>1. x \o y = x
    BY <1>0, <1>2
  <2>2. \A g, p : Visible!Overlay(g, p, y) = g
    BY <1>2 DEF Visible!Overlay
  <2> QED
    BY <2>1, <2>2
<1>3. CASE x # <<>> /\ y # <<>>
  <2> DEFINE g == Visible!Overlay(f, o, x)
             h == Visible!Overlay(g, o + Len(x), y)
             w == Visible!Overlay(f, o, x \o y)
             n == IF o + Len(x) > Len(f) THEN o + Len(x) ELSE Len(f)
             m == IF (o + Len(x)) + Len(y) > Len(f) THEN (o + Len(x)) + Len(y) ELSE Len(f)
  <2>0. o + Len(x) \in Nat /\ n \in Nat /\ m \in Nat /\ n <= m
    BY <1>0
  <2>1. /\ g \in Seq(S) /\ Len(g) = n
        /\ \A k \in 1..n : g[k] = IF k \in (o + 1)..(o + Len(x)) THEN x[k - o]
                                  ELSE IF k <= Len(f) THEN f[k] ELSE Zero
    BY ONLY <1>0, <1>3, OverlayIs
  <2> HIDE DEF g
  <2>2. /\ h \in Seq(S)
        /\ Len(h) = IF (o + Len(x)) + Len(y) > Len(g) THEN (o + Len(x)) + Len(y) ELSE Len(g)
        /\ \A k \in 1..Len(h) :
              h[k] = IF k \in ((o + Len(x)) + 1)..((o + Len(x)) + Len(y))
                     THEN y[k - (o + Len(x))]
                     ELSE IF k <= Len(g) THEN g[k] ELSE Zero
    BY ONLY <1>0, <2>0, <2>1, <1>3, OverlayIs
  <2>3. /\ x \o y \in Seq(S) /\ x \o y # <<>> /\ Len(x \o y) = Len(x) + Len(y)
        /\ \A j \in 1..(Len(x) + Len(y)) :
              (x \o y)[j] = IF j <= Len(x) THEN x[j] ELSE y[j - Len(x)]
    <3>1. /\ x \o y \in Seq(S) /\ Len(x \o y) = Len(x) + Len(y)
          /\ \A j \in 1..(Len(x) + Len(y)) :
                (x \o y)[j] = IF j <= Len(x) THEN x[j] ELSE y[j - Len(x)]
      BY ONLY <1>0
    <3>2. Len(x) # 0
      BY <1>0, <1>3
    <3>3. Len(x \o y) # 0
      BY <1>0, <3>1, <3>2
    <3> QED
      BY <3>1, <3>3
  <2> DEFINE z == x \o y
  <2> HIDE DEF z
  <2>4. /\ w \in Seq(S)
        /\ Len(w) = IF o + Len(z) > Len(f) THEN o + Len(z) ELSE Len(f)
        /\ \A k \in 1..Len(w) : w[k] = IF k \in (o + 1)..(o + Len(z)) THEN z[k - o]
                                       ELSE IF k <= Len(f) THEN f[k] ELSE Zero
    <3>1. z \in Seq(S) /\ z # <<>>
      BY <2>3 DEF z
    <3>2. Visible!Overlay(f, o, z) = w
      BY DEF z
    <3> HIDE DEF w
    <3> QED
      BY ONLY <1>0, <3>1, <3>2, OverlayIs
  <2> HIDE DEF h, w, n, m
  <2>5. Len(h) = m /\ Len(w) = m
    <3>1. Len(g) = n /\ Len(z) = Len(x) + Len(y)
      BY <2>1, <2>3 DEF z
    <3>2. Len(h) = IF (o + Len(x)) + Len(y) > n THEN (o + Len(x)) + Len(y) ELSE n
      BY <2>2, <3>1
    <3>3. Len(w) = IF o + (Len(x) + Len(y)) > Len(f) THEN o + (Len(x) + Len(y)) ELSE Len(f)
      BY <2>4, <3>1
    <3>4. Len(h) = m
      BY ONLY <1>0, <3>2 DEF m, n
    <3>5. Len(w) = m
      BY ONLY <1>0, <3>3 DEF m
    <3> QED
      BY <3>4, <3>5
  <2>6. ASSUME NEW k \in 1..m PROVE h[k] = w[k]
    <3>0. k \in Int /\ k >= 1 /\ k <= m /\ Len(z) = Len(x) + Len(y)
      BY <2>0, <2>3 DEF z
    <3>1. h[k] = IF k \in ((o + Len(x)) + 1)..((o + Len(x)) + Len(y))
                 THEN y[k - (o + Len(x))]
                 ELSE IF k <= n THEN g[k] ELSE Zero
      BY <2>1, <2>2, <2>5
    <3>2. w[k] = IF k \in (o + 1)..(o + (Len(x) + Len(y))) THEN z[k - o]
                 ELSE IF k <= Len(f) THEN f[k] ELSE Zero
      BY <2>4, <2>5, <3>0
    <3>3. CASE k <= o
      <4>1. h[k] = IF k <= n THEN g[k] ELSE Zero
        BY <1>0, <3>0, <3>1, <3>3
      <4>2. w[k] = IF k <= Len(f) THEN f[k] ELSE Zero
        BY <1>0, <3>0, <3>2, <3>3
      <4>3. k <= n => g[k] = IF k <= Len(f) THEN f[k] ELSE Zero
        BY <1>0, <2>0, <2>1, <3>0, <3>3
      <4>4. k <= n
        BY <1>0, <3>0, <3>3 DEF n
      <4> QED
        BY <4>1, <4>2, <4>3, <4>4
    <3>4. CASE o < k /\ k <= o + Len(x)
      <4>1. k <= n /\ k - o \in 1..Len(x)
        BY <1>0, <3>0, <3>4 DEF n
      <4>2. h[k] = g[k]
        BY <1>0, <3>0, <3>1, <3>4, <4>1
      <4>3. g[k] = x[k - o]
        BY <1>0, <2>0, <2>1, <3>0, <3>4, <4>1
      <4>4. w[k] = z[k - o]
        BY <1>0, <3>0, <3>2, <3>4
      <4>5. z[k - o] = x[k - o]
        BY <1>0, <2>3, <4>1 DEF z
      <4> QED
        BY <4>2, <4>3, <4>4, <4>5
    <3>5. CASE o + Len(x) < k /\ k <= (o + Len(x)) + Len(y)
      <4>1. h[k] = y[k - (o + Len(x))]
        BY <1>0, <3>0, <3>1, <3>5
      <4>2. w[k] = z[k - o]
        BY <1>0, <3>0, <3>2, <3>5
      <4>3. /\ k - o \in 1..(Len(x) + Len(y)) /\ ~(k - o <= Len(x))
            /\ (k - o) - Len(x) = k - (o + Len(x))
        BY <1>0, <3>0, <3>5
      <4>4. z[k - o] = y[(k - o) - Len(x)]
        BY <2>3, <4>3 DEF z
      <4> QED
        BY <4>1, <4>2, <4>3, <4>4
    <3>6. CASE (o + Len(x)) + Len(y) < k
      <4>1. k <= Len(f) /\ k <= n
        BY <1>0, <3>0, <3>6 DEF m, n
      <4>2. h[k] = g[k]
        BY <1>0, <3>0, <3>1, <3>6, <4>1
      <4>3. g[k] = f[k]
        BY <1>0, <2>0, <2>1, <3>0, <3>6, <4>1
      <4>4. w[k] = f[k]
        BY <1>0, <3>0, <3>2, <3>6, <4>1
      <4> QED
        BY <4>2, <4>3, <4>4
    <3> QED
      BY <1>0, <3>0, <3>3, <3>4, <3>5, <3>6
  <2>7. h = w
    BY <2>0, <2>2, <2>4, <2>5, <2>6, SeqEqual
  <2> QED
    BY <2>7 DEF g, h, w
<1> QED
  BY <1>1, <1>2, <1>3

\* Bytes that are put at the end of the file leave what is there alone.
LEMMA OverlayAtEnd ==
    ASSUME NEW S, Zero \in S, NEW f \in Seq(S), NEW d \in Seq(S)
    PROVE  SubSeq(Visible!Overlay(f, Len(f), d), 1, Len(f)) = f
<1>0. f \in Seq(S) /\ d \in Seq(S) /\ Len(f) \in Nat /\ Len(d) \in Nat /\ Zero \in S
  OBVIOUS
<1> DEFINE g == Visible!Overlay(f, Len(f), d)
<1>1. CASE d = <<>>
  <2>1. g = f
    BY <1>1 DEF Visible!Overlay
  <2>2. SubSeq(f, 1, Len(f)) = f
    BY <1>0
  <2> QED
    BY <2>1, <2>2
<1>2. CASE d # <<>>
  <2>1. /\ g \in Seq(S)
        /\ Len(g) = IF Len(f) + Len(d) > Len(f) THEN Len(f) + Len(d) ELSE Len(f)
        /\ \A k \in 1..Len(g) :
              g[k] = IF k \in (Len(f) + 1)..(Len(f) + Len(d)) THEN d[k - Len(f)]
                     ELSE IF k <= Len(f) THEN f[k] ELSE Zero
    BY ONLY <1>0, <1>2, OverlayIs
  <2> HIDE DEF g
  <2>2. Len(f) <= Len(g) /\ \A k \in 1..Len(f) : g[k] = f[k]
    <3>1. Len(g) \in Nat /\ Len(f) <= Len(g)
      BY <1>0, <2>1
    <3>2. ASSUME NEW k \in 1..Len(f) PROVE g[k] = f[k]
      <4>1. k \in 1..Len(g) /\ k \notin (Len(f) + 1)..(Len(f) + Len(d)) /\ k <= Len(f)
        BY <1>0, <3>1
      <4> QED
        BY <2>1, <4>1
    <3> QED
      BY <3>1, <3>2
  <2>3. /\ SubSeq(g, 1, Len(f)) \in Seq(S) /\ Len(SubSeq(g, 1, Len(f))) = Len(f)
        /\ \A k \in 1..Len(f) : SubSeq(g, 1, Len(f))[k] = g[k]
    BY <1>0, <2>1, <2>2
  <2>4. SubSeq(g, 1, Len(f)) = f
    BY <1>0, <2>2, <2>3, SeqEqual
  <2> QED
    BY <2>4 DEF g
<1> QED
  BY <1>1, <1>2

\* What comes second in a sequence written twice.
LEMMA SecondHalf ==
    ASSUME NEW S, NEW w \in Seq(S)
    PROVE  SubSeq(w \o w, Len(w) + 1, Len(w) + Len(w)) = w
<1> DEFINE both == w \o w
           n == Len(w)
<1>1. n \in Nat /\ both \in Seq(S) /\ Len(both) = n + n /\ \A k \in 1..n : both[n + k] = w[k]
  OBVIOUS
<1> DEFINE half == SubSeq(both, n + 1, n + n)
<1> HIDE DEF both, n
<1>2. half \in Seq(S) /\ Len(half) = n /\ \A k \in 1..n : half[k] = both[n + k]
  BY <1>1
<1> HIDE DEF half
<1>3. \A k \in 1..n : half[k] = w[k]
  BY <1>1, <1>2
<1>4. half = w
  BY <1>2, <1>3, SeqEqual DEF n
<1> QED
  BY <1>4 DEF half, both, n

\* What is left of some bytes behind the first i of them, cut once more.
LEMMA CutTwice ==
    ASSUME NEW S, NEW d \in Seq(S), NEW i \in 0..Len(d), NEW j \in 0..(Len(d) - i),
           NEW r, r = SubSeq(d, i + 1, Len(d))
    PROVE  /\ r \in Seq(S) /\ Len(r) = Len(d) - i
           /\ SubSeq(d, 1, i) \in Seq(S) /\ Len(SubSeq(d, 1, i)) = i
           /\ SubSeq(r, 1, j) \in Seq(S) /\ Len(SubSeq(r, 1, j)) = j
           /\ SubSeq(d, 1, i) \o SubSeq(r, 1, j) = SubSeq(d, 1, i + j)
           /\ SubSeq(r, j + 1, Len(r)) = SubSeq(d, (i + j) + 1, Len(d))
<1>0. d \in Seq(S) /\ Len(d) \in Nat /\ i \in Nat /\ j \in Nat /\ i <= Len(d) /\ i + j <= Len(d)
  OBVIOUS
<1> DEFINE a == SubSeq(d, 1, i)
           b == SubSeq(r, 1, j)
           c == SubSeq(d, 1, i + j)
           u == SubSeq(r, j + 1, Len(r))
           v == SubSeq(d, (i + j) + 1, Len(d))
<1>1. /\ r \in Seq(S) /\ Len(r) = Len(d) - i
      /\ \A k \in 1..(Len(d) - i) : r[k] = d[i + k]
  <2>1. CASE i = Len(d)
    BY <1>0, <2>1
  <2>2. CASE i < Len(d)
    BY <1>0, <2>2
  <2> QED
    BY <1>0, <2>1, <2>2
<1>2. a \in Seq(S) /\ Len(a) = i /\ \A k \in 1..i : a[k] = d[k]
  BY <1>0
<1>3. b \in Seq(S) /\ Len(b) = j /\ \A k \in 1..j : b[k] = d[i + k]
  <2>1. j <= Len(r)
    BY <1>0, <1>1
  <2>2. b \in Seq(S) /\ Len(b) = j /\ \A k \in 1..j : b[k] = r[k]
    BY <1>0, <1>1, <2>1
  <2>3. 1..j \subseteq 1..(Len(d) - i)
    BY <1>0, <1>1, <2>1
  <2> HIDE DEF a, b, c, u, v
  <2> QED
    BY <1>1, <2>2, <2>3
<1>4. c \in Seq(S) /\ Len(c) = i + j /\ \A k \in 1..(i + j) : c[k] = d[k]
  BY <1>0
<1>5. a \o b = c
  <2> HIDE DEF a, b, c
  <2>1. a \in Seq(S) /\ b \in Seq(S)
    BY <1>2, <1>3
  <2>2. /\ a \o b \in Seq(S) /\ Len(a \o b) = Len(a) + Len(b)
        /\ \A k \in 1..(Len(a) + Len(b)) :
              (a \o b)[k] = IF k <= Len(a) THEN a[k] ELSE b[k - Len(a)]
    BY ONLY <2>1
  <2>3. ASSUME NEW k \in 1..(i + j) PROVE (a \o b)[k] = c[k]
    <3>1. k \in Int /\ k >= 1 /\ k <= i + j
      BY ONLY <1>0, <2>3
    <3>2. (a \o b)[k] = IF k <= i THEN a[k] ELSE b[k - i]
      BY <1>2, <1>3, <2>2
    <3>3. CASE k <= i
      <4>1. k \in 1..i
        BY <1>0, <3>1, <3>3
      <4> QED
        BY <1>2, <1>4, <3>2, <3>3, <4>1
    <3>4. CASE ~(k <= i)
      <4>1. k - i \in 1..j /\ i + (k - i) = k
        BY <1>0, <3>1, <3>4
      <4> QED
        BY <1>3, <1>4, <3>2, <3>4, <4>1
    <3> QED
      BY <3>3, <3>4
  <2> QED
    BY <1>2, <1>3, <1>4, <2>2, <2>3, SeqEqual
<1>6. u = v
  <2>1. /\ u \in Seq(S) /\ Len(u) = Len(r) - j
        /\ \A k \in 1..(Len(r) - j) : u[k] = r[j + k]
    <3>1. r \in Seq(S) /\ Len(r) \in Nat /\ j <= Len(r)
      BY <1>0, <1>1
    <3>2. CASE j = Len(r)
      BY <1>0, <3>1, <3>2
    <3>3. CASE j < Len(r)
      BY <1>0, <3>1, <3>3
    <3> QED
      BY <1>0, <3>1, <3>2, <3>3
  <2>2. /\ v \in Seq(S) /\ Len(v) = Len(d) - (i + j)
        /\ \A k \in 1..(Len(d) - (i + j)) : v[k] = d[(i + j) + k]
    <3>1. CASE i + j = Len(d)
      BY <1>0, <3>1
    <3>2. CASE i + j < Len(d)
      BY <1>0, <3>2
    <3> QED
      BY <1>0, <3>1, <3>2
  <2> HIDE DEF u, v
  <2>3. Len(u) = Len(v) /\ Len(v) = Len(d) - (i + j) /\ Len(r) - j = Len(d) - (i + j)
    BY <1>0, <1>1, <2>1, <2>2
  <2>4. ASSUME NEW k \in 1..Len(v) PROVE u[k] = v[k]
    <3>1. j + k \in 1..(Len(d) - i) /\ i + (j + k) = (i + j) + k
      BY <1>0, <2>3
    <3> QED
      BY <1>1, <2>1, <2>2, <2>3, <3>1
  <2> QED
    BY <2>1, <2>2, <2>3, <2>4, SeqEqual
<1> QED
  BY <1>1, <1>2, <1>3, <1>5, <1>6
-----------------------------------------------------------------------------
(***************************************************************************)
(* What the invariant says of a call that runs.                            *)
(***************************************************************************)
LEMMA DataIs == \A d \in Visible!Data : d \in Seq(Byte)
  BY BoundAssumption DEF Visible!Data, Visible!Count

\* A call that runs is a read or a write, and Idle is neither.
LEMMA KindOfCall ==
    ASSUME FileInv, call.step \in {"seek", "transfer"}
    PROVE  /\ call # Idle
           /\ call.op \in {"read", "write"}
           /\ call.op = "read" => call \in Reads /\ ReadSoFar
           /\ call.op = "write" => call \in WritesOf /\ WrittenSoFar
<1>1. call # Idle
  BY DEF Idle
<1>2. call \in Reads => call.op = "read"
  BY DEF Reads
<1>3. call \in WritesOf => call.op = "write"
  BY DEF WritesOf
<1> QED
  BY <1>1, <1>2, <1>3 DEF FileInv, Running

\* Of a read: where its cursor is, and what a chunk adds.
LEMMA ReadState ==
    ASSUME FileInv, Transferring("read")
    PROVE  LET got == Len(call.output)
           IN  /\ call \in Reads /\ call.offset \in Nat /\ got \in Nat
               /\ call.output \in Seq(Bytes)
               /\ call.remaining \in Nat /\ content = before
               /\ cursor[call.handle] = call.offset + got
               /\ got # 0 => call.offset + got <= Len(content)
               /\ call.output = Visible!Slice(content, call.offset, got)
               /\ call.remaining + got \in Visible!Count
               /\ Amount \in Nat /\ Amount <= call.remaining
               /\ Chunk \in Seq(Bytes) /\ Len(Chunk) \in Nat /\ Len(Chunk) <= Amount
               /\ Len(Chunk) # 0 => (call.offset + got) + Len(Chunk) <= Len(content)
               /\ call.output \o Chunk = Visible!Slice(content, call.offset, got + Amount)
<1> DEFINE got == Len(call.output)
<1>1. call \in Reads /\ ReadSoFar /\ call.step = "transfer"
  BY KindOfCall DEF Transferring
<1>2. /\ call.handle \in Handle /\ call.offset \in Nat /\ call.remaining \in Nat
      /\ call.output \in Seq(Bytes) /\ got \in Nat
  BY <1>1, BoundAssumption DEF Reads, Visible!Offset
<1>3. /\ content = before
      /\ call.remaining + got \in Visible!Count
      /\ cursor[call.handle] = call.offset + got
      /\ call.output # <<>> => call.offset + got <= Len(content)
      /\ call.output = Visible!Slice(content, call.offset, got)
  BY <1>1 DEF ReadSoFar
<1>4. got # 0 => call.offset + got <= Len(content)
  BY <1>2, <1>3
<1>5. Amount \in Nat /\ Amount <= call.remaining
  BY <1>2, TransferAssumption DEF Amount, Visible!Smaller
<1>6. content \in Seq(Bytes) /\ Len(content) \in Nat
  BY DEF FileInv, Types
<1> HIDE DEF got
<1>7. Chunk = Visible!Slice(content, call.offset + got, Amount) /\ call.offset + got \in Nat
  BY <1>2, <1>3 DEF Chunk
<1>8. /\ Chunk \in Seq(Bytes)
      /\ Len(Chunk) = IF (call.offset + got) + Amount <= Len(content) THEN Amount
                      ELSE IF call.offset + got <= Len(content)
                           THEN Len(content) - (call.offset + got) ELSE 0
  <2>1. ASSUME NEW o \in Nat, NEW n \in Nat
        PROVE  /\ Visible!Slice(content, o, n) \in Seq(Bytes)
               /\ Len(Visible!Slice(content, o, n))
                    = IF o + n <= Len(content) THEN n
                      ELSE IF o <= Len(content) THEN Len(content) - o ELSE 0
    BY ONLY <1>6, <2>1, SliceIs
  <2> QED
    BY <1>5, <1>7, <2>1
<1>9. /\ Len(Chunk) \in Nat /\ Len(Chunk) <= Amount
      /\ Len(Chunk) # 0 => (call.offset + got) + Len(Chunk) <= Len(content)
  <2> DEFINE p == call.offset + got
             l == Len(Chunk)
  <2>1. /\ p \in Nat /\ Amount \in Nat /\ Len(content) \in Nat
        /\ l = IF p + Amount <= Len(content) THEN Amount
               ELSE IF p <= Len(content) THEN Len(content) - p ELSE 0
    BY <1>5, <1>6, <1>7, <1>8
  <2> HIDE DEF p, l
  <2>2. l \in Nat /\ l <= Amount /\ (l # 0 => p + l <= Len(content))
    BY ONLY <2>1
  <2> QED
    BY <2>2 DEF p, l
<1>10. call.output \o Chunk = Visible!Slice(content, call.offset, got + Amount)
  <2>1. Visible!Slice(content, call.offset, got)
          \o Visible!Slice(content, call.offset + got, Amount)
        = Visible!Slice(content, call.offset, got + Amount)
    <3>1. ASSUME NEW o \in Nat, NEW m \in Nat, NEW n \in Nat, m # 0 => o + m <= Len(content)
          PROVE  Visible!Slice(content, o, m) \o Visible!Slice(content, o + m, n)
                   = Visible!Slice(content, o, m + n)
      BY ONLY <1>6, <3>1, SliceJoin
    <3> QED
      BY <1>2, <1>4, <1>5, <3>1
  <2> QED
    BY <1>3, <1>7, <2>1
<1> QED
  BY <1>1, <1>2, <1>3, <1>4, <1>5, <1>8, <1>9, <1>10 DEF got

\* Of a write: where the device puts its next piece, and what the file is with
\* the first k bytes of it.
LEMMA WriteState ==
    ASSUME FileInv, Transferring("write")
    PROVE  LET done == Len(call.bytes) - Len(call.rest)
           IN  /\ call \in WritesOf /\ done \in Nat /\ Start \in Nat
               /\ call.bytes \in Seq(Byte) /\ call.rest \in Seq(Byte)
               /\ Place = Start + done
               /\ content = Visible!Overlay(before, Start, SubSeq(call.bytes, 1, done))
               /\ Piece \in Seq(Byte) /\ Len(Piece) \in 0..Len(call.rest)
               /\ done + Len(Piece) <= Len(call.bytes)
               /\ SubSeq(Piece, 1, Len(Piece)) = Piece
               /\ Remainder = SubSeq(call.bytes, (done + Len(Piece)) + 1, Len(call.bytes))
               /\ Remainder \in Seq(Byte) /\ Len(Remainder) = Len(call.rest) - Len(Piece)
               /\ \A k \in 0..Len(Piece) :
                     /\ SubSeq(Piece, 1, k) = SubSeq(call.rest, 1, k)
                     /\ SubSeq(Piece, 1, k) \in Seq(Byte) /\ Len(SubSeq(Piece, 1, k)) = k
                     /\ Visible!Overlay(content, Place, SubSeq(Piece, 1, k))
                          = Visible!Overlay(before, Start, SubSeq(call.bytes, 1, done + k))
<1> DEFINE done == Len(call.bytes) - Len(call.rest)
           first == SubSeq(call.bytes, 1, done)
           n == Visible!Smaller(Len(call.rest), MaxTransfer)
<1>1. call \in WritesOf /\ WrittenSoFar /\ call.step = "transfer"
  BY KindOfCall DEF Transferring
<1>2. /\ call.handle \in Handle /\ call.offset \in Nat
      /\ call.bytes \in Seq(Byte) /\ Len(call.bytes) \in Nat
      /\ call.rest \in Seq(Byte) /\ Len(call.rest) \in Nat
  BY <1>1, BoundAssumption, DataIs DEF WritesOf, Visible!Offset
<1>3. /\ done \in 0..Len(call.bytes)
      /\ call.rest = SubSeq(call.bytes, done + 1, Len(call.bytes))
      /\ call.handle \notin Appending => cursor[call.handle] = call.offset + done
      /\ content = Visible!Overlay(before, Start, first)
  BY <1>1 DEF WrittenSoFar
<1>4. /\ before \in Seq(Bytes) /\ content \in Seq(Bytes)
      /\ Len(before) \in Nat /\ Zero \in Bytes
  BY DEF FileInv, Types, Bytes
<1>5. Start \in Nat
  BY <1>2, <1>4 DEF Start
<1>6. n \in 0..Len(call.rest) /\ Len(call.rest) = Len(call.bytes) - done
  BY <1>2, TransferAssumption DEF Visible!Smaller
<1> HIDE DEF done
<1>7. \A j \in 0..(Len(call.bytes) - done) :
         /\ first \in Seq(Byte) /\ Len(first) = done
         /\ SubSeq(call.rest, 1, j) \in Seq(Byte) /\ Len(SubSeq(call.rest, 1, j)) = j
         /\ first \o SubSeq(call.rest, 1, j) = SubSeq(call.bytes, 1, done + j)
         /\ SubSeq(call.rest, j + 1, Len(call.rest))
              = SubSeq(call.bytes, (done + j) + 1, Len(call.bytes))
  <2> DEFINE d == call.bytes
             r == call.rest
  <2>1. d \in Seq(Byte) /\ done \in 0..Len(d) /\ r = SubSeq(d, done + 1, Len(d))
    BY <1>2, <1>3
  <2>2. first = SubSeq(d, 1, done)
    OBVIOUS
  <2> HIDE DEF d, r, first
  <2>3. ASSUME NEW j \in 0..(Len(d) - done)
        PROVE  /\ SubSeq(d, 1, done) \in Seq(Byte) /\ Len(SubSeq(d, 1, done)) = done
               /\ SubSeq(r, 1, j) \in Seq(Byte) /\ Len(SubSeq(r, 1, j)) = j
               /\ SubSeq(d, 1, done) \o SubSeq(r, 1, j) = SubSeq(d, 1, done + j)
               /\ SubSeq(r, j + 1, Len(r)) = SubSeq(d, (done + j) + 1, Len(d))
    BY ONLY <2>1, <2>3, CutTwice
  <2> QED
    BY <2>2, <2>3 DEF d, r
<1> HIDE DEF first, n
<1>8. Piece = SubSeq(call.rest, 1, n)
  BY DEF Piece, n
<1>9. first \in Seq(Byte) /\ Len(first) = done /\ Piece \in Seq(Byte) /\ Len(Piece) = n
  BY <1>6, <1>7, <1>8
<1>10. \A k \in 0..n : SubSeq(Piece, 1, k) = SubSeq(call.rest, 1, k)
  <2>1. n \in Nat /\ n <= Len(call.rest)
    BY <1>2, <1>6
  <2>2. ASSUME NEW k \in 0..n PROVE SubSeq(SubSeq(call.rest, 1, n), 1, k) = SubSeq(call.rest, 1, k)
    BY <1>2, <2>1
  <2> QED
    BY <1>8, <2>2
<1>11. Place = Start + done
  <2>1. CASE call.handle \notin Appending
    BY <1>3, <2>1 DEF Place, Start
  <2>2. CASE call.handle \in Appending
    <3>1. Start = Len(before) /\ Place = Len(content)
      BY <2>2 DEF Place, Start
    <3>2. CASE first = <<>>
      <4>1. content = before /\ done = 0
        BY <1>3, <1>9, <3>2 DEF Visible!Overlay
      <4> QED
        BY <1>4, <3>1, <4>1
    <3>3. CASE first # <<>>
      <4>1. first \in Seq(Bytes)
        BY <1>9 DEF Bytes
      <4>2. Len(content) = IF Start + Len(first) > Len(before) THEN Start + Len(first)
                                                               ELSE Len(before)
        <5>1. Len(Visible!Overlay(before, Start, first))
                    = IF Start + Len(first) > Len(before) THEN Start + Len(first)
                                                          ELSE Len(before)
          BY ONLY <1>4, <1>5, <3>3, <4>1, OverlayIs
        <5> QED
          BY <1>3, <5>1
      <4>3. done \in Nat
        BY <1>2, <1>3
      <4> QED
        BY <1>4, <1>9, <3>1, <4>2, <4>3
    <3> QED
      BY <3>2, <3>3
  <2> QED
    BY <2>1, <2>2
<1>12. ASSUME NEW k \in 0..n
       PROVE  Visible!Overlay(content, Place, SubSeq(Piece, 1, k))
                = Visible!Overlay(before, Start, SubSeq(call.bytes, 1, done + k))
  <2>1. k \in 0..(Len(call.bytes) - done)
    BY <1>2, <1>6
  <2>2. /\ SubSeq(Piece, 1, k) \in Seq(Byte)
        /\ first \o SubSeq(Piece, 1, k) = SubSeq(call.bytes, 1, done + k)
    BY <1>7, <1>10, <2>1
  <2>3. first \in Seq(Bytes) /\ SubSeq(Piece, 1, k) \in Seq(Bytes)
    BY <1>9, <2>2 DEF Bytes
  <2>4. Visible!Overlay(Visible!Overlay(before, Start, first), Start + Len(first),
                        SubSeq(Piece, 1, k))
          = Visible!Overlay(before, Start, first \o SubSeq(Piece, 1, k))
    <3> DEFINE y == SubSeq(Piece, 1, k)
    <3>1. y \in Seq(Bytes)
      BY <2>3
    <3> HIDE DEF y
    <3>2. Visible!Overlay(Visible!Overlay(before, Start, first), Start + Len(first), y)
            = Visible!Overlay(before, Start, first \o y)
      BY ONLY <1>4, <1>5, <2>3, <3>1, OverlayTwice
    <3> QED
      BY <3>2 DEF y
  <2> QED
    BY <1>3, <1>9, <1>11, <2>2, <2>4
<1>13. /\ Remainder = SubSeq(call.bytes, (done + n) + 1, Len(call.bytes))
       /\ Remainder \in Seq(Byte) /\ Len(Remainder) = Len(call.rest) - n
  <2>1. Remainder = SubSeq(call.rest, n + 1, Len(call.rest)) /\ n \in 0..(Len(call.bytes) - done)
    BY <1>6, <1>9 DEF Remainder
  <2>2. /\ SubSeq(call.rest, n + 1, Len(call.rest)) \in Seq(Byte)
        /\ Len(SubSeq(call.rest, n + 1, Len(call.rest))) = Len(call.rest) - n
    BY ONLY <1>2, <1>6, CutTwice
  <2> QED
    BY <1>7, <2>1, <2>2
<1>14. \A k \in 0..n : SubSeq(Piece, 1, k) \in Seq(Byte) /\ Len(SubSeq(Piece, 1, k)) = k
  <2>1. \A k \in 0..n : k \in 0..(Len(call.bytes) - done)
    BY <1>2, <1>6
  <2> QED
    BY <1>7, <1>10, <2>1
<1>15. done \in Nat /\ done + n <= Len(call.bytes)
  BY <1>2, <1>3, <1>6
<1>16. SubSeq(Piece, 1, n) = Piece
  BY <1>6, <1>8, <1>10
<1> QED
  BY <1>1, <1>2, <1>3, <1>5, <1>6, <1>9, <1>10, <1>11, <1>12, <1>13, <1>14, <1>15, <1>16
     DEF done, first
-----------------------------------------------------------------------------
(***************************************************************************)
(* Each action of the transport keeps the invariant, and is an action of   *)
(* PositionalFile or shows nothing.                                        *)
(***************************************************************************)
LEMMA SliceNone ==
    ASSUME NEW S, NEW f \in Seq(S), NEW o \in Nat
    PROVE  Visible!Slice(f, o, 0) = <<>>
<1>1. Visible!Slice(f, o, 0) \in Seq(S) /\ Len(Visible!Slice(f, o, 0)) = 0
  <2>1. 0 \in Nat /\ Len(f) \in Nat
    OBVIOUS
  <2>2. /\ Visible!Slice(f, o, 0) \in Seq(S)
        /\ Len(Visible!Slice(f, o, 0))
             = IF o + 0 <= Len(f) THEN 0 ELSE IF o <= Len(f) THEN Len(f) - o ELSE 0
    BY ONLY <2>1, f \in Seq(S), o \in Nat, SliceIs
  <2> QED
    BY <2>1, <2>2
<1> QED
  BY <1>1

\* While no call runs the file shows as it is, otherwise as it was.
LEMMA ShownIdle ==
    ASSUME call = Idle
    PROVE  /\ (IF call.step = "none" THEN content ELSE before) = content
           /\ (IF call.step = "none" THEN [op |-> "none"] ELSE Request) = Visible!NoRequest
BY DEF Idle, Visible!NoRequest

LEMMA ShownRunning ==
    ASSUME call.step \in {"seek", "transfer"}
    PROVE  /\ (IF call.step = "none" THEN content ELSE before) = before
           /\ (IF call.step = "none" THEN [op |-> "none"] ELSE Request) = Request
OBVIOUS

\* What the device writes leaves a file and a cursor.
LEMMA DeviceWritesTypes ==
    ASSUME FileInv, call.handle \in Handle, Place \in Nat,
           NEW d \in Seq(Byte), DeviceWrites(d)
    PROVE  content' \in Seq(Bytes) /\ cursor' \in [Handle -> Nat]
<1>1. content \in Seq(Bytes) /\ Zero \in Bytes /\ d \in Seq(Bytes) /\ Len(d) \in Nat
  BY DEF FileInv, Types, Bytes
<1>2. content' = Visible!Overlay(content, Place, d)
  BY DEF DeviceWrites
<1>3. content' \in Seq(Bytes)
  <2>1. CASE d = <<>>
    BY <1>1, <1>2, <2>1 DEF Visible!Overlay
  <2>2. CASE d # <<>>
    <3>1. Visible!Overlay(content, Place, d) \in Seq(Bytes)
      BY ONLY <1>1, <2>2, Place \in Nat, OverlayIs
    <3> QED
      BY <1>2, <3>1
  <2> QED
    BY <2>1, <2>2
<1>4. cursor' = [cursor EXCEPT ![call.handle] = Place + Len(d)] /\ Place + Len(d) \in Nat
  BY <1>1 DEF DeviceWrites
<1>5. cursor' \in [Handle -> Nat]
  BY <1>4 DEF FileInv, Types
<1> QED
  BY <1>3, <1>5

LEMMA BeginReadKeeps ==
    ASSUME FileInv, NEW h \in Handle, NEW o \in Visible!Offset, NEW n \in Visible!Count,
           BeginRead(h, o, n)
    PROVE  FileInv' /\ Visible!Ask
<1>1. /\ call = Idle /\ before' = content /\ content' = content /\ cursor' = cursor
      /\ answer' = answer /\ changes' = changes
      /\ call' = [step |-> "seek", op |-> "read", handle |-> h, offset |-> o,
                  remaining |-> n, output |-> <<>>]
  BY DEF BeginRead
<1>2. content \in Seq(Bytes) /\ o \in Nat /\ n \in Nat
  BY BoundAssumption DEF FileInv, Types, Visible!Offset, Visible!Count
<1>3. Types'
  BY <1>1 DEF FileInv, Types
<1>4. call' \in Reads
  BY <1>1, <1>2 DEF Reads
<1>5. ReadSoFar'
  <2>1. Len(<<>>) = 0 /\ n + 0 = n
    BY <1>2
  <2>2. Visible!Slice(content, o, 0) = <<>>
    BY ONLY <1>2, SliceNone
  <2> QED
    BY <1>1, <2>1, <2>2 DEF ReadSoFar
<1>6. FileInv'
  BY <1>3, <1>4, <1>5 DEF FileInv, Running
<1>7. Visible!Ask
  <2>1. Request' = Visible!ToRead(h, o, n)
    <3>1. n + Len(<<>>) = n
      BY <1>2
    <3> QED
      BY <1>1, <3>1 DEF Request, Visible!ToRead
  <2>2. Request' \in Visible!Request
    BY <2>1 DEF Visible!Request
  <2>3. call.step = "none" /\ call'.step = "seek"
    BY <1>1 DEF Idle
  <2> QED
    BY <1>1, <2>2, <2>3 DEF Visible!Ask, Visible!NoRequest
<1> QED
  BY <1>6, <1>7

LEMMA BeginWriteKeeps ==
    ASSUME FileInv, NEW h \in Handle, NEW o \in Visible!Offset, NEW d \in Visible!Data,
           BeginWrite(h, o, d)
    PROVE  FileInv' /\ Visible!Ask
<1>1. /\ call = Idle /\ before' = content /\ content' = content /\ cursor' = cursor
      /\ answer' = answer /\ changes' = changes
      /\ call' = [step |-> "seek", op |-> "write", handle |-> h, offset |-> o,
                  bytes |-> d, rest |-> d]
  BY DEF BeginWrite
<1>2. content \in Seq(Bytes) /\ o \in Nat /\ d \in Seq(Byte) /\ Len(d) \in Nat
  BY BoundAssumption, DataIs DEF FileInv, Types, Visible!Offset
<1>3. Types'
  BY <1>1 DEF FileInv, Types
<1>4. call' \in WritesOf
  BY <1>1, <1>2 DEF WritesOf
<1>5. WrittenSoFar'
  <2>1. Len(d) - Len(d) = 0 /\ 0 \in 0..Len(d) /\ 0 + 1 = 1
    BY <1>2
  <2>2. d = SubSeq(d, 1, Len(d)) /\ SubSeq(d, 1, 0) = <<>>
    BY <1>2
  <2>3. \A p : Visible!Overlay(content, p, <<>>) = content
    BY DEF Visible!Overlay
  <2> QED
    BY <1>1, <2>1, <2>2, <2>3 DEF WrittenSoFar
<1>6. FileInv'
  BY <1>3, <1>4, <1>5 DEF FileInv, Running
<1>7. Visible!Ask
  <2>1. Request' = Visible!ToWrite(h, o, d)
    BY <1>1 DEF Request, Visible!ToWrite
  <2>2. Request' \in Visible!Request
    BY <2>1 DEF Visible!Request
  <2>3. call.step = "none" /\ call'.step = "seek"
    BY <1>1 DEF Idle
  <2> QED
    BY <1>1, <2>2, <2>3 DEF Visible!Ask, Visible!NoRequest
<1> QED
  BY <1>6, <1>7

LEMMA SeekKeeps ==
    ASSUME FileInv, Seek
    PROVE  FileInv' /\ UNCHANGED Visible!vars
<1>1. /\ call.step = "seek" /\ content' = content /\ answer' = answer
      /\ before' = before /\ changes' = changes
      /\ cursor' = [cursor EXCEPT ![call.handle] = call.offset]
      /\ call' = [call EXCEPT !.step = "transfer"]
  BY DEF Seek
<1>2. \/ call \in Reads /\ ReadSoFar
      \/ call \in WritesOf /\ WrittenSoFar
  BY <1>1, KindOfCall
<1>3. call.handle \in Handle /\ call.offset \in Nat
  BY <1>2, BoundAssumption DEF Reads, WritesOf, Visible!Offset
<1>4. cursor' \in [Handle -> Nat] /\ cursor'[call.handle] = call.offset
  BY <1>1, <1>3 DEF FileInv, Types
<1>5. Types'
  BY <1>1, <1>4 DEF FileInv, Types
<1>6. CASE call \in Reads /\ ReadSoFar
  <2>1. /\ call' \in Reads /\ call'.step = "transfer" /\ call'.handle = call.handle
        /\ call'.offset = call.offset /\ call'.output = call.output
        /\ call'.remaining = call.remaining /\ call'.op = call.op
    BY <1>1, <1>6 DEF Reads
  <2>2. Len(call.output) = 0 /\ call.offset + 0 = call.offset
    BY <1>1, <1>3, <1>6 DEF ReadSoFar
  <2>3. ReadSoFar'
    BY <1>1, <1>4, <1>6, <2>1, <2>2 DEF ReadSoFar
  <2>4. Request' = Request
    BY <1>6, <2>1 DEF Request, Reads
  <2> QED
    BY <1>1, <1>5, <2>1, <2>3, <2>4 DEF FileInv, Running, Visible!vars
<1>7. CASE call \in WritesOf /\ WrittenSoFar
  <2>1. /\ call' \in WritesOf /\ call'.step = "transfer" /\ call'.handle = call.handle
        /\ call'.offset = call.offset /\ call'.bytes = call.bytes
        /\ call'.rest = call.rest /\ call'.op = call.op
    BY <1>1, <1>7 DEF WritesOf
  <2>2. /\ call.rest = call.bytes /\ Len(call.bytes) \in Nat
        /\ Len(call.bytes) - Len(call.rest) = 0 /\ call.offset + 0 = call.offset
    <3>1. call.rest = call.bytes /\ call.rest \in Seq(Byte)
      BY <1>1, <1>7 DEF WrittenSoFar, WritesOf
    <3> QED
      BY <1>3, <3>1
  <2>3. WrittenSoFar'
    <3>1. Start' = Start
      BY <1>1, <2>1 DEF Start
    <3> QED
      BY <1>1, <1>4, <1>7, <2>1, <2>2, <3>1 DEF WrittenSoFar
  <2>4. Request' = Request
    BY <1>7, <2>1 DEF Request, WritesOf
  <2> QED
    BY <1>1, <1>5, <2>1, <2>3, <2>4 DEF FileInv, Running, Visible!vars
<1> QED
  BY <1>2, <1>6, <1>7

\* A read of what the request asks for, and its end.
LEMMA ReadEnds ==
    ASSUME FileInv, Transferring("read"), call' = Idle, content' = content,
           changes' = changes,
           \/ answer' = Visible!Got(Visible!Slice(content, call.offset,
                                        call.remaining + Len(call.output)))
           \/ answer' = Visible!Err
    PROVE  Visible!Read
<1>1. /\ call \in Reads /\ content = before
      /\ Request = Visible!ToRead(call.handle, call.offset,
                                  call.remaining + Len(call.output))
  BY ReadState DEF Reads, Request, Visible!ToRead
<1>2. call.step = "transfer" /\ call'.step = "none"
  BY DEF Transferring, Idle
<1>3. /\ Request.op = "read" /\ Request.offset = call.offset
      /\ Request.count = call.remaining + Len(call.output)
  BY <1>1 DEF Visible!ToRead
<1> QED
  BY <1>1, <1>2, <1>3 DEF Visible!Read, Visible!NoRequest

LEMMA ReadChunkKeeps ==
    ASSUME FileInv, ReadChunk
    PROVE  FileInv' /\ (Visible!Read \/ UNCHANGED Visible!vars)
<1> DEFINE got == Len(call.output)
           l == Len(Chunk)
<1>0. /\ Transferring("read") /\ call.step = "transfer"
      /\ content' = content /\ changes' = changes
      /\ cursor' = [cursor EXCEPT ![call.handle] = @ + l]
  BY DEF ReadChunk, Transferring
<1>1. /\ call \in Reads /\ call.offset \in Nat /\ got \in Nat
      /\ call.handle \in Handle
      /\ call.output \in Seq(Bytes)
      /\ call.remaining \in Nat /\ content = before
      /\ cursor[call.handle] = call.offset + got
      /\ got # 0 => call.offset + got <= Len(content)
      /\ call.remaining + got \in Visible!Count
      /\ Amount \in Nat /\ Amount <= call.remaining
      /\ Chunk \in Seq(Bytes) /\ l \in Nat /\ l <= Amount
      /\ l # 0 => (call.offset + got) + l <= Len(content)
      /\ call.output \o Chunk = Visible!Slice(content, call.offset, got + Amount)
  BY <1>0, ReadState DEF Reads
\* The numbers among these, by names of their own.
<1> DEFINE o == call.offset
           m == call.remaining
           x == Amount
<1>7. o \in Nat /\ m \in Nat /\ got \in Nat /\ l \in Nat /\ x \in Nat /\ l <= x /\ x <= m
  BY <1>1
<1> HIDE DEF o, m, x, got, l
<1>8. /\ (o + got) + l \in Nat /\ got + x \in Nat /\ m + got \in Nat /\ got + x <= m + got
      /\ l < x => got + l < got + x
      /\ ~(l < x) => l = x /\ m - l \in Nat /\ (m - l) + (got + l) = m + got
      /\ o + (got + l) = (o + got) + l
  BY ONLY <1>7
<1> USE DEF o, m, x, got, l
<1>2. content \in Seq(Bytes) /\ Len(content) \in Nat /\ cursor \in [Handle -> Nat]
  BY DEF FileInv, Types
<1>3. /\ call.output \o Chunk \in Seq(Bytes)
      /\ Len(call.output \o Chunk) = got + l
  <2> DEFINE a == call.output
             b == Chunk
  <2>1. a \in Seq(Bytes) /\ b \in Seq(Bytes)
    BY <1>1
  <2> HIDE DEF a, b
  <2>2. a \o b \in Seq(Bytes) /\ Len(a \o b) = Len(a) + Len(b)
    BY ONLY <2>1
  <2> QED
    BY <2>2 DEF a, b
<1>4. /\ cursor' \in [Handle -> Nat]
      /\ cursor'[call.handle] = (call.offset + got) + l
  <2>1. (call.offset + got) + l \in Nat
    BY <1>8
  <2> QED
    BY <1>0, <1>1, <1>2, <2>1
<1>5. CASE l < Amount
  <2>1. call' = Idle /\ before' = <<>> /\ answer' = Visible!Got(call.output \o Chunk)
    BY <1>5 DEF ReadChunk, Return
  <2>2. FileInv'
    BY <1>0, <1>2, <1>4, <2>1 DEF FileInv, Types, Running
  <2>3. call.output \o Chunk = Visible!Slice(content, call.offset, call.remaining + got)
    <3> DEFINE i == got + x
               n == m + got
    <3>1. i \in Nat /\ n \in Nat /\ i <= n /\ got + l < i
      BY <1>8, <1>5
    <3>2. Len(Visible!Slice(content, o, i)) < i
      BY <1>1, <1>3, <3>1
    <3>3. o \in Nat
      BY <1>1
    <3> HIDE DEF i, o, n
    <3>4. Visible!Slice(content, o, n) = Visible!Slice(content, o, i)
      BY ONLY <1>2, <3>1, <3>2, <3>3, SliceShort
    <3> QED
      BY <1>1, <3>4 DEF i, o, n
  <2>4. Visible!Read
    BY <1>0, <2>1, <2>3, ReadEnds
  <2> QED
    BY <2>2, <2>4
<1>6. CASE ~(l < Amount)
  <2>1. /\ call' = [call EXCEPT !.output = @ \o Chunk, !.remaining = @ - l]
        /\ answer' = answer /\ before' = before
    BY <1>6 DEF ReadChunk
  <2>2. l = Amount /\ call.remaining - l \in Nat
        /\ (call.remaining - l) + (got + l) = call.remaining + got
    BY <1>8, <1>6
  <2>3. /\ call' \in Reads /\ call'.step = "transfer" /\ call'.handle = call.handle
        /\ call'.offset = call.offset /\ call'.output = call.output \o Chunk
        /\ call'.remaining = call.remaining - l /\ call'.op = "read"
    BY <1>0, <1>1, <1>3, <2>1, <2>2 DEF Reads
  <2>4. Types'
    BY <1>0, <1>4, <2>1 DEF FileInv, Types
  <2>5. ReadSoFar'
    <3>1. Len(call'.output) = got + l
      BY <1>3, <2>3
    <3>2. call'.remaining + Len(call'.output) \in Visible!Count
      BY <1>1, <2>2, <2>3, <3>1
    <3>3. cursor'[call'.handle] = call'.offset + Len(call'.output)
      BY <1>8, <1>4, <2>3, <3>1
    <3>4. call'.output # <<>> => call'.offset + Len(call'.output) <= Len(content')
      <4>1. call'.output # <<>> => got + l # 0
        BY <1>3, <2>3
      <4>2. got + l # 0 => call.offset + (got + l) <= Len(content)
        BY <1>1, <1>2
      <4> QED
        BY <1>0, <2>3, <3>1, <4>1, <4>2
    <3>5. call'.output = Visible!Slice(content', call'.offset, Len(call'.output))
      BY <1>0, <1>1, <2>2, <2>3, <3>1
    <3>6. content' = before' /\ call'.step # "seek"
      BY <1>0, <1>1, <2>1, <2>3
    <3> QED
      BY <3>2, <3>3, <3>4, <3>5, <3>6 DEF ReadSoFar
  <2>6. Request' = Request
    <3>1. call'.remaining + Len(call'.output) = call.remaining + got
      BY <1>3, <2>2, <2>3
    <3> QED
      BY <1>1, <2>3, <3>1 DEF Request, Reads
  <2> QED
    BY <1>0, <2>1, <2>3, <2>4, <2>5, <2>6 DEF FileInv, Running, Visible!vars
<1> QED
  BY <1>5, <1>6

LEMMA ReadReturnsKeeps ==
    ASSUME FileInv, ReadReturns
    PROVE  FileInv' /\ Visible!Read
<1>1. /\ Transferring("read") /\ call' = Idle /\ before' = <<>>
      /\ content' = content /\ cursor' = cursor /\ changes' = changes
      /\ call.remaining = 0 /\ answer' = Visible!Got(call.output)
  BY DEF ReadReturns, Return
<1>2. FileInv'
  BY <1>1 DEF FileInv, Types, Running
<1>3. call.remaining + Len(call.output) = Len(call.output)
  BY <1>1, ReadState
<1>4. call.output = Visible!Slice(content, call.offset, Len(call.output))
  BY <1>1, ReadState
<1> QED
  BY <1>1, <1>2, <1>3, <1>4, ReadEnds

\* A write of what the request asks for, or of a first part of it, and its end.
LEMMA WriteEnds ==
    ASSUME FileInv, Transferring("write"), call' = Idle, changes' = changes,
           \/ /\ content' = Visible!Overlay(before, Start, call.bytes)
              /\ answer' = Visible!Done(Len(call.bytes))
           \/ /\ \E k \in 0..Len(call.bytes) :
                    content' = Visible!Overlay(before, Start, SubSeq(call.bytes, 1, k))
              /\ answer' = Visible!Err
    PROVE  Visible!Write
<1>1. call \in WritesOf /\ Request = Visible!ToWrite(call.handle, call.offset, call.bytes)
  BY WriteState DEF WritesOf, Request, Visible!ToWrite
<1>2. call.step = "transfer" /\ call'.step = "none"
  BY DEF Transferring, Idle
<1>3. /\ Request.op = "write" /\ Request.offset = call.offset
      /\ Request.handle = call.handle /\ Request.bytes = call.bytes
  BY <1>1 DEF Visible!ToWrite
<1>4. ASSUME NEW d, content' = Visible!Overlay(before, Start, d)
      PROVE  Visible!Written(d)
  BY <1>2, <1>3, <1>4 DEF Visible!Written, Visible!Target, Start
<1>5. \/ Visible!Written(call.bytes) /\ answer' = Visible!Done(Len(call.bytes))
      \/ /\ \E k \in 0..Len(call.bytes) : Visible!Written(SubSeq(call.bytes, 1, k))
         /\ answer' = Visible!Err
  BY <1>4
<1> QED
  BY <1>2, <1>3, <1>5 DEF Visible!Write, Visible!NoRequest

LEMMA WriteChunkKeeps ==
    ASSUME FileInv, WriteChunk
    PROVE  FileInv' /\ UNCHANGED Visible!vars
<1> DEFINE done == Len(call.bytes) - Len(call.rest)
           l == Len(Piece)
<1>1. /\ Transferring("write") /\ call.step = "transfer"
      /\ DeviceWrites(Piece) /\ call' = [call EXCEPT !.rest = Remainder]
      /\ answer' = answer /\ before' = before /\ changes' = changes
  BY DEF WriteChunk, Transferring
<1>2. /\ call \in WritesOf /\ done \in Nat /\ Start \in Nat /\ call.handle \in Handle
      /\ call.bytes \in Seq(Byte) /\ call.rest \in Seq(Byte)
      /\ Place = Start + done
      /\ Piece \in Seq(Byte) /\ l \in 0..Len(call.rest)
      /\ done + l <= Len(call.bytes)
      /\ SubSeq(Piece, 1, l) = Piece
      /\ Remainder = SubSeq(call.bytes, (done + l) + 1, Len(call.bytes))
      /\ Remainder \in Seq(Byte) /\ Len(Remainder) = Len(call.rest) - l
      /\ \A k \in 0..l :
            Visible!Overlay(content, Place, SubSeq(Piece, 1, k))
              = Visible!Overlay(before, Start, SubSeq(call.bytes, 1, done + k))
  BY <1>1, WriteState DEF WritesOf
<1> DEFINE n == Len(call.bytes)
           r == Len(call.rest)
<1>3. n \in Nat /\ r \in Nat /\ l \in Nat /\ l <= r /\ done = n - r /\ done \in Nat
  BY <1>2
<1> HIDE DEF n, r, l, done
<1>4. /\ l \in 0..l /\ n - (r - l) = done + l /\ done + l \in 0..n
      /\ \A p \in Nat : (p + done) + l = p + (done + l)
  BY ONLY <1>3
<1> USE DEF n, r, l, done
<1>5. content' \in Seq(Bytes) /\ cursor' \in [Handle -> Nat]
  <2>1. Place \in Nat
    BY <1>2
  <2> QED
    BY <1>1, <1>2, <2>1, DeviceWritesTypes
<1>6. content' = Visible!Overlay(before, Start, SubSeq(call.bytes, 1, done + l))
  BY <1>1, <1>2, <1>4 DEF DeviceWrites
<1>7. /\ call' \in WritesOf /\ call'.step = "transfer" /\ call'.handle = call.handle
      /\ call'.offset = call.offset /\ call'.bytes = call.bytes
      /\ call'.rest = Remainder /\ call'.op = "write"
  BY <1>1, <1>2 DEF WritesOf
<1>8. Len(call'.bytes) - Len(call'.rest) = done + l
  BY <1>2, <1>4, <1>7
<1>9. WrittenSoFar'
  <2>1. Start' = Start
    BY <1>1, <1>7 DEF Start
  <2>2. ASSUME call.handle \notin Appending
        PROVE  cursor'[call.handle] = call.offset + (done + l)
    <3>1. cursor'[call.handle] = Place + l /\ Start = call.offset
      BY <1>1, <1>2, <2>2 DEF DeviceWrites, FileInv, Types, Start
    <3> QED
      BY <1>2, <1>4, <3>1
  <2>3. call'.step # "seek"
    BY <1>7
  <2>4. /\ Len(call'.bytes) - Len(call'.rest) \in 0..Len(call'.bytes)
        /\ call'.rest = SubSeq(call'.bytes, (Len(call'.bytes) - Len(call'.rest)) + 1,
                               Len(call'.bytes))
    BY <1>2, <1>4, <1>7, <1>8
  <2> HIDE DEF done, l
  <2>5. /\ content' = Visible!Overlay(before', Start',
                         SubSeq(call'.bytes, 1, Len(call'.bytes) - Len(call'.rest)))
        /\ call'.handle \notin Appending =>
              cursor'[call'.handle] = call'.offset + (Len(call'.bytes) - Len(call'.rest))
    BY <1>1, <1>6, <1>7, <1>8, <2>1, <2>2
  <2> QED
    BY <2>3, <2>4, <2>5 DEF WrittenSoFar
<1>10. FileInv'
  BY <1>1, <1>5, <1>7, <1>9 DEF FileInv, Types, Running
<1>11. Request' = Request
  BY <1>2, <1>7 DEF Request, WritesOf
<1> QED
  BY <1>1, <1>7, <1>10, <1>11 DEF Visible!vars

LEMMA WriteReturnsKeeps ==
    ASSUME FileInv, WriteReturns
    PROVE  FileInv' /\ Visible!Write
<1>1. /\ Transferring("write") /\ call' = Idle /\ before' = <<>> /\ call.rest = <<>>
      /\ content' = content /\ cursor' = cursor /\ changes' = changes
      /\ answer' = Visible!Done(Len(call.bytes))
  BY DEF WriteReturns, Return
<1>2. FileInv'
  BY <1>1 DEF FileInv, Types, Running
<1>3. content = Visible!Overlay(before, Start, call.bytes)
  <2>1. /\ call.bytes \in Seq(Byte)
        /\ content = Visible!Overlay(before, Start,
                        SubSeq(call.bytes, 1, Len(call.bytes) - Len(call.rest)))
    BY <1>1, WriteState
  <2>2. Len(call.rest) = 0 /\ Len(call.bytes) \in Nat
    BY <1>1, <2>1
  <2>3. Len(call.bytes) - Len(call.rest) = Len(call.bytes)
    BY <2>2
  <2>4. SubSeq(call.bytes, 1, Len(call.bytes)) = call.bytes
    BY <2>1
  <2> QED
    BY <2>1, <2>3, <2>4
<1>4. content' = Visible!Overlay(before, Start, call.bytes)
  BY <1>1, <1>3
<1> QED
  BY <1>1, <1>2, <1>4, WriteEnds

\* The request that fails is the first of a call, one of a read, or a Write that
\* has put the first k bytes of its piece.
LEMMA RequestFailsKeeps ==
    ASSUME FileInv, RequestFails
    PROVE  FileInv' /\ (Visible!Read \/ Visible!Write)
<1>1. /\ call' = Idle /\ before' = <<>> /\ answer' = Visible!Err /\ changes' = changes
  BY DEF RequestFails, Return
<1>2. ASSUME content' \in Seq(Bytes), cursor' \in [Handle -> Nat]
      PROVE  FileInv'
  <2>1. <<>> \in Seq(Bytes)
    OBVIOUS
  <2> QED
    BY <1>1, <1>2, <2>1 DEF FileInv, Types, Running
<1>3. CASE /\ call.step = "seek" \/ (Transferring("read") /\ call.remaining > 0)
           /\ UNCHANGED <<content, cursor>>
  <2>1. FileInv'
    BY <1>2, <1>3 DEF FileInv, Types
  <2>2. call.step \in {"seek", "transfer"} /\ call'.step = "none"
    BY <1>1, <1>3 DEF Transferring, Idle
  <2>3. \/ call \in Reads /\ ReadSoFar
        \/ call \in WritesOf /\ WrittenSoFar /\ call.step = "seek"
    BY <1>3, <2>2, KindOfCall DEF Transferring
  <2>4. CASE call \in Reads /\ ReadSoFar
    <3>1. Request.op = "read"
      BY <2>4 DEF Reads, Request
    <3>2. content = before
      BY <2>4 DEF ReadSoFar
    <3>3. Visible!Read
      BY <1>1, <1>3, <2>2, <3>1, <3>2 DEF Visible!Read, Visible!NoRequest
    <3> QED
      BY <2>1, <3>3
  <2>5. CASE call \in WritesOf /\ WrittenSoFar /\ call.step = "seek"
    <3>1. /\ Request.op = "write" /\ Request.bytes = call.bytes
          /\ Request.offset = call.offset /\ Request.handle = call.handle
      BY <2>5 DEF WritesOf, Request
    <3>2. call.bytes \in Seq(Byte) /\ call.rest = call.bytes
      BY <2>5, DataIs DEF WritesOf, WrittenSoFar
    <3>3. 0 \in 0..Len(call.bytes) /\ SubSeq(call.bytes, 1, 0) = <<>>
          /\ Len(call.bytes) - Len(call.rest) = 0
      <4>1. Len(call.bytes) \in Nat
        BY <3>2
      <4> QED
        BY <3>2, <4>1
    <3>4. content = before
      BY <2>5, <3>3 DEF WrittenSoFar, Visible!Overlay
    <3>5. Visible!Written(SubSeq(call.bytes, 1, 0))
      BY <1>3, <2>2, <3>3, <3>4 DEF Visible!Written, Visible!Overlay
    <3>6. \E k \in 0..Len(call.bytes) : Visible!Written(SubSeq(call.bytes, 1, k))
      BY <3>3, <3>5
    <3>7. Visible!Write
      BY <1>1, <2>2, <3>1, <3>6 DEF Visible!Write, Visible!NoRequest
    <3> QED
      BY <2>1, <3>7
  <2> QED
    BY <2>3, <2>4, <2>5
<1>4. CASE /\ Transferring("write") /\ call.rest # <<>>
           /\ \E k \in 0..Len(Piece) : DeviceWrites(SubSeq(Piece, 1, k))
  <2> DEFINE done == Len(call.bytes) - Len(call.rest)
  <2>1. PICK k \in 0..Len(Piece) : DeviceWrites(SubSeq(Piece, 1, k))
    BY <1>4
  <2>2. /\ call \in WritesOf /\ call.handle \in Handle /\ Start \in Nat /\ done \in Nat
        /\ Place = Start + done /\ SubSeq(Piece, 1, k) \in Seq(Byte)
        /\ Len(Piece) \in Nat /\ Len(call.bytes) \in Nat
        /\ done + Len(Piece) <= Len(call.bytes)
        /\ Visible!Overlay(content, Place, SubSeq(Piece, 1, k))
             = Visible!Overlay(before, Start, SubSeq(call.bytes, 1, done + k))
    <3>1. Len(Piece) \in 0..Len(call.rest) /\ call.bytes \in Seq(Byte) /\ call.rest \in Seq(Byte)
      BY <1>4, WriteState
    <3>2. Len(Piece) \in Nat /\ Len(call.bytes) \in Nat
      BY <3>1
    <3> QED
      BY <1>4, <3>2, WriteState DEF WritesOf
  <2>3. content' = Visible!Overlay(before, Start, SubSeq(call.bytes, 1, done + k))
    BY <2>1, <2>2 DEF DeviceWrites
  <2>4. Place \in Nat /\ done + k \in 0..Len(call.bytes)
    <3> HIDE DEF done
    <3> QED
      BY <2>1, <2>2
  <2>5. FileInv'
    BY <1>2, <2>1, <2>2, <2>4, DeviceWritesTypes
  <2>6. Visible!Write
    BY <1>1, <1>4, <2>3, <2>4, WriteEnds
  <2> QED
    BY <2>5, <2>6
<1> QED
  BY <1>3, <1>4 DEF RequestFails

LEMMA TruncateKeeps ==
    ASSUME FileInv, NEW n \in 0..MaxLength, Truncate(n)
    PROVE  FileInv' /\ Visible!SetSize(n)
<1>1. call = Idle /\ cursor' = cursor /\ call' = call /\ before' = before /\ changes' = changes
  BY DEF Truncate
<1>2. content' \in Seq(Bytes)
  <2>1. n \in Nat /\ content \in Seq(Bytes) /\ Zero \in Bytes
    BY BoundAssumption DEF FileInv, Types, Bytes
  <2>2. Visible!Resize(content, n) \in [1..n -> Bytes]
    BY <2>1 DEF Visible!Resize
  <2>3. Visible!Resize(content, n) \in Seq(Bytes)
    BY <2>1, <2>2
  <2> QED
    BY <2>1, <2>3 DEF Truncate
<1>3. FileInv'
  BY <1>1, <1>2 DEF FileInv, Types, Running
<1>4. Visible!SetSize(n)
  BY <1>1 DEF Truncate, Visible!SetSize, Visible!NoRequest, Idle
<1> QED
  BY <1>3, <1>4

LEMMA ElsewhereKeeps ==
    ASSUME FileInv, Elsewhere
    PROVE  FileInv' /\ Visible!Elsewhere
<1>1. /\ call = Idle /\ cursor' = cursor /\ call' = call /\ before' = before
      /\ answer' = answer /\ changes' = changes + 1
  BY DEF Elsewhere
<1>2. content' \in Seq(Bytes)
  <2>1. content \in Seq(Bytes) /\ \A b \in Byte : b \in Bytes
    BY DEF FileInv, Types, Bytes
  <2>2. \A b \in Byte : Append(content, b) \in Seq(Bytes)
    BY <2>1
  <2>3. \A n \in 0..Len(content) : SubSeq(content, 1, n) \in Seq(Bytes)
    BY <2>1
  <2> QED
    BY <2>2, <2>3 DEF Elsewhere
<1>3. FileInv'
  BY <1>1, <1>2 DEF FileInv, Types, Running
<1>4. Visible!Elsewhere
  BY <1>1, <1>2 DEF Visible!Elsewhere, Visible!NoRequest, Idle, Bytes
<1> QED
  BY <1>3, <1>4

LEMMA FileInvStays ==
    ASSUME FileInv, UNCHANGED vars
    PROVE  FileInv' /\ UNCHANGED Visible!vars
BY DEF vars, FileInv, Types, Running, Reads, WritesOf, ReadSoFar, WrittenSoFar, Start,
   Request, Visible!vars
-----------------------------------------------------------------------------
(***************************************************************************)
(* The handlers: each keeps the invariant and does what PositionalFile     *)
(* allows.                                                                 *)
(***************************************************************************)
Shown == Visible!Next \/ UNCHANGED Visible!vars


LEMMA StepShown ==
    ASSUME Inv, HandlersNext
    PROVE  FileInv' /\ Shown
<1> USE DEF Shown
<1>0. FileInv
  BY DEF Inv
<1>1. ASSUME NEW h \in Handle, NEW o \in Visible!Offset, NEW n \in Visible!Count,
             read(h, o, n)
      PROVE  FileInv' /\ Shown
  BY <1>0, <1>1, BeginReadKeeps DEF read, Visible!Next
<1>2. ASSUME NEW h \in Handle, NEW d \in Visible!Data, write_to_eof(h, d)
      PROVE  FileInv' /\ Shown
  <2>1. UNCHANGED vars
    BY <1>2 DEF write_to_eof
  <2> QED
    BY <1>0, <2>1, FileInvStays
<1>3. ASSUME NEW h \in Handle, NEW d \in Visible!Data, NEW o \in Visible!Offset,
             write(h, o, d)
      PROVE  FileInv' /\ Shown
  BY <1>0, <1>3, BeginWriteKeeps DEF write, Visible!Next
<1>4. ASSUME NEW n \in 0..MaxLength, set_file_size(n)
      PROVE  FileInv' /\ Shown
  BY <1>0, <1>4, TruncateKeeps DEF set_file_size, Visible!Next
<1>5. ASSUME Requests
      PROVE  FileInv' /\ Shown
  <2>1. CASE Progress
    BY <1>0, <2>1, SeekKeeps, ReadChunkKeeps, ReadReturnsKeeps, WriteChunkKeeps,
       WriteReturnsKeeps DEF Progress, Visible!Next
  <2>2. CASE RequestFails
    BY <1>0, <2>2, RequestFailsKeeps DEF Visible!Next
  <2> QED
    BY <1>5, <2>1, <2>2 DEF Requests
<1>6. ASSUME writeAtSize
      PROVE  FileInv' /\ Shown
  <2>1. handler.handle \in Handle /\ handler.bytes \in Visible!Data
    BY <1>6 DEF writeAtSize, Inv, HandlerInv
  <2> QED
    BY <1>0, <1>6, <2>1, BeginWriteKeeps DEF writeAtSize, Visible!Next
<1>7. ASSUME Returned \/ Done
      PROVE  FileInv' /\ Shown
  <2>1. UNCHANGED vars
    BY <1>7 DEF Returned, Done
  <2> QED
    BY <1>0, <2>1, FileInvStays
<1>8. ASSUME Elsewhere
      PROVE  FileInv' /\ Shown
  BY <1>0, <1>8, ElsewhereKeeps DEF Visible!Next
<1> QED
  BY <1>1, <1>2, <1>3, <1>4, <1>5, <1>6, <1>7, <1>8 DEF HandlersNext

\* A handler that has made no call, and a call that has no handler.
LEMMA NoCall ==
    ASSUME Inv, handler.step \notin {"read", "write"}
    PROVE  call = Idle
<1>1. call # Idle => call.op \in {"read", "write"}
  BY DEF Inv, FileInv, Running, Reads, WritesOf
<1> QED
  BY <1>1 DEF Inv, HandlerInv

\* The requests of a call leave alone what it was made with.
LEMMA RequestsOfCall ==
    ASSUME FileInv, Progress \/ RequestFails
    PROVE  /\ call # Idle /\ changes' = changes
           /\ \/ call' = Idle
              \/ /\ call' # Idle /\ before' = before
                 /\ call'.op = call.op /\ call'.offset = call.offset
<1>1. call.step \in {"seek", "transfer"}
  BY DEF Progress, RequestFails, Seek, ReadChunk, ReadReturns, WriteChunk, WriteReturns,
     Transferring
<1>2. call # Idle /\ (call \in Reads \/ call \in WritesOf)
  BY <1>1, KindOfCall
<1>3. changes' = changes
  BY DEF Progress, RequestFails, Seek, ReadChunk, ReadReturns, WriteChunk, WriteReturns
<1>4. \/ call' = Idle
      \/ /\ before' = before
         /\ \/ call' = [call EXCEPT !.step = "transfer"]
            \/ call' = [call EXCEPT !.output = @ \o Chunk, !.remaining = @ - Len(Chunk)]
            \/ call' = [call EXCEPT !.rest = Remainder]
  BY DEF Progress, RequestFails, Seek, ReadChunk, ReadReturns, WriteChunk, WriteReturns,
     Return
<1>5. ASSUME call' = [call EXCEPT !.step = "transfer"]
      PROVE  call' # Idle /\ call'.op = call.op /\ call'.offset = call.offset
  BY <1>2, <1>5 DEF Idle, Reads, WritesOf
<1>6. ASSUME call' = [call EXCEPT !.output = @ \o Chunk, !.remaining = @ - Len(Chunk)]
      PROVE  call' # Idle /\ call'.op = call.op /\ call'.offset = call.offset
  BY <1>1, <1>2, <1>6 DEF Idle, Reads, WritesOf
<1>7. ASSUME call' = [call EXCEPT !.rest = Remainder]
      PROVE  call' # Idle /\ call'.op = call.op /\ call'.offset = call.offset
  BY <1>1, <1>2, <1>7 DEF Idle, Reads, WritesOf
<1> QED
  BY <1>2, <1>3, <1>4, <1>5, <1>6, <1>7

LEMMA HandlerStep ==
    ASSUME Inv, HandlersNext
    PROVE  HandlerInv'
<1>0. FileInv /\ HandlerInv /\ changes \in Nat
  BY DEF Inv, FileInv, Types
<1>1. ASSUME NEW h \in Handle, NEW o \in Visible!Offset, NEW n \in Visible!Count,
             read(h, o, n)
      PROVE  HandlerInv'
  BY <1>1 DEF read, BeginRead, HandlerInv
<1>2. ASSUME NEW h \in Handle, NEW d \in Visible!Data, write_to_eof(h, d)
      PROVE  HandlerInv'
  <2>1. call = Idle /\ call' = call /\ content' = content /\ changes' = changes
    BY <1>2, NoCall DEF write_to_eof, NoHandler, vars
  <2>2. handler' = [step |-> "size", handle |-> h, bytes |-> d, size |-> Len(content),
                    seen |-> changes]
    BY <1>2 DEF write_to_eof
  <2>3. changes \in 0..changes
    BY <1>0
  <2> QED
    BY <2>1, <2>2, <2>3 DEF HandlerInv
<1>3. ASSUME NEW h \in Handle, NEW d \in Visible!Data, NEW o \in Visible!Offset,
             write(h, o, d)
      PROVE  HandlerInv'
  BY <1>3 DEF write, BeginWrite, HandlerInv
<1>4. ASSUME NEW n \in 0..MaxLength, set_file_size(n)
      PROVE  HandlerInv'
  BY <1>4 DEF set_file_size, Truncate, HandlerInv
<1>5. ASSUME Requests
      PROVE  HandlerInv'
  <2>1. handler' = handler /\ (Progress \/ RequestFails)
    BY <1>5 DEF Requests
  <2>2. /\ call # Idle /\ changes' = changes
        /\ \/ call' = Idle
           \/ /\ call' # Idle /\ before' = before
              /\ call'.op = call.op /\ call'.offset = call.offset
    BY <1>0, <2>1, RequestsOfCall
  <2>3. handler.step # "size" /\ handler.step = call.op
    BY <1>0, <2>2 DEF HandlerInv
  <2> QED
    BY <1>0, <2>1, <2>2, <2>3 DEF HandlerInv
<1>6. ASSUME writeAtSize
      PROVE  HandlerInv'
  <2>1. /\ handler.seen = changes => handler.size = Len(content)
        /\ BeginWrite(handler.handle, handler.size, handler.bytes)
        /\ handler' = [step |-> "write", eof |-> TRUE, seen |-> handler.seen]
    BY <1>0, <1>6 DEF writeAtSize, HandlerInv
  <2>2. /\ before' = content /\ changes' = changes
        /\ call'.op = "write" /\ call'.offset = handler.size
    BY <2>1 DEF BeginWrite
  <2>3. handler'.step = "write" /\ handler'.seen = handler.seen
    BY <2>1
  <2> QED
    BY <2>1, <2>2, <2>3 DEF HandlerInv
<1>7. ASSUME Returned \/ Done
      PROVE  HandlerInv'
  <2>1. call = Idle /\ call' = call
    BY <1>7, NoCall DEF Returned, Done, vars
  <2>2. handler'.step # "size"
    BY <1>7 DEF Returned, Done, NoHandler
  <2> QED
    BY <2>1, <2>2 DEF HandlerInv
<1>8. ASSUME Elsewhere, handler' = handler
      PROVE  HandlerInv'
  <2>1. call = Idle /\ call' = call /\ changes' = changes + 1
    BY <1>8 DEF Elsewhere
  <2>2. handler.step = "size" => /\ handler.handle \in Handle
                                 /\ handler.bytes \in Visible!Data
                                 /\ handler.seen \in 0..changes
    BY <1>0 DEF HandlerInv
  <2>3. ASSUME NEW s \in 0..changes
        PROVE  s \in 0..(changes + 1) /\ s # changes + 1
    BY <1>0
  <2> QED
    BY <1>8, <2>1, <2>2, <2>3 DEF HandlerInv
<1> QED
  BY <1>1, <1>2, <1>3, <1>4, <1>5, <1>6, <1>7, <1>8 DEF HandlersNext

LEMMA HandlerStays ==
    ASSUME Inv, UNCHANGED handlerVars
    PROVE  Inv' /\ UNCHANGED Visible!vars
<1>1. UNCHANGED vars /\ handler' = handler
  BY DEF handlerVars
<1>2. FileInv' /\ UNCHANGED Visible!vars
  BY <1>1, FileInvStays DEF Inv
<1>3. HandlerInv'
  BY <1>1 DEF Inv, HandlerInv, vars
<1> QED
  BY <1>2, <1>3 DEF Inv

LEMMA InvStart ==
    ASSUME HandlersInit
    PROVE  Inv /\ Visible!Init
<1>1. /\ content = <<>> /\ cursor = [h \in Handle |-> 0] /\ call = Idle
      /\ before = <<>> /\ changes = 0 /\ handler = NoHandler /\ answer = Visible!Err
  BY DEF HandlersInit, Init
<1>2. <<>> \in Seq(Bytes)
  OBVIOUS
<1>3. FileInv
  BY <1>1, <1>2 DEF FileInv, Types, Running
<1>4. HandlerInv
  BY <1>1 DEF HandlerInv, NoHandler
<1>5. Visible!Init
  BY <1>1, ShownIdle DEF Visible!Init
<1> QED
  BY <1>3, <1>4, <1>5 DEF Inv
-----------------------------------------------------------------------------
(***************************************************************************)
(* In every state a call that runs has done a first part of what it was    *)
(* asked for, with its cursor behind it, and the handler that made it is   *)
(* the one that waits for it (afc.rs:201-239).                             *)
(***************************************************************************)
THEOREM FileLoopsInvariant == HandlersSpec => []Inv
<1>1. HandlersInit => Inv
  BY InvStart
<1>2. Inv /\ [HandlersNext]_handlerVars => Inv'
  BY StepShown, HandlerStep, HandlerStays DEF Inv
<1> QED
  BY <1>1, <1>2, PTL DEF HandlersSpec

(***************************************************************************)
(* The seeks and chunks of afc.rs:201-239 amount to positional I/O, from   *)
(* whatever cursors earlier calls have left, for every size of a request   *)
(* and every number of handles: each step is a step of PositionalFile, or  *)
(* shows nothing.                                                          *)
(***************************************************************************)
THEOREM LoopsArePositional == HandlersSpec => ImplementsPositionalFile
<1>1. HandlersInit => Visible!Init
  BY InvStart
<1>2. Inv /\ [HandlersNext]_handlerVars => [Visible!Next]_(Visible!vars)
  BY StepShown, HandlerStays DEF Shown
<1> QED
  BY <1>1, <1>2, FileLoopsInvariant, PTL DEF HandlersSpec, ImplementsPositionalFile,
     Visible!Spec

\* The only step that writes is the device's, which has done k bytes of a piece.
LEMMA WriteStep ==
    ASSUME Inv, HandlersNext, Writes
    PROVE  /\ FileInv /\ HandlerInv /\ Transferring("write")
           /\ \E k \in 0..Len(Piece) : DeviceWrites(SubSeq(Piece, 1, k))
<1>1. /\ Transferring("write") /\ call # Idle /\ content' # content
      /\ FileInv /\ HandlerInv
  BY DEF Writes, Transferring, Idle, Inv
<1>2. handler.step = "write"
  BY <1>1 DEF HandlerInv, Transferring
<1>3. Requests
  BY <1>1, <1>2 DEF HandlersNext, read, write, write_to_eof, set_file_size, BeginRead,
     BeginWrite, Truncate, writeAtSize, Returned, Done, Elsewhere, vars, NoHandler
<1>4. \E k \in 0..Len(Piece) : DeviceWrites(SubSeq(Piece, 1, k))
  <2>1. CASE Progress
    <3>1. DeviceWrites(Piece)
      BY <1>1, <2>1 DEF Progress, Seek, ReadChunk, ReadReturns, WriteChunk, WriteReturns
    <3>2. SubSeq(Piece, 1, Len(Piece)) = Piece /\ Piece \in Seq(Byte)
      BY <1>1, WriteState
    <3>3. Len(Piece) \in 0..Len(Piece)
      BY <3>2
    <3> QED
      BY <3>1, <3>2, <3>3
  <2>2. CASE RequestFails
    BY <1>1, <2>2 DEF RequestFails
  <2> QED
    BY <1>3, <2>1, <2>2 DEF Requests
<1> QED
  BY <1>1, <1>4

\* A write that began at the end of the file is still there.
LEMMA StaysAtEnd ==
    ASSUME FileInv, Transferring("write"), Start = Len(before)
    PROVE  Place = Len(content)
<1> DEFINE done == Len(call.bytes) - Len(call.rest)
           first == SubSeq(call.bytes, 1, done)
<1>1. /\ call.bytes \in Seq(Byte) /\ done \in Nat /\ Start \in Nat /\ Place = Start + done
      /\ content = Visible!Overlay(before, Start, first)
  BY WriteState
<1>2. first \in Seq(Byte) /\ Len(first) = done
  <2>1. done \in 0..Len(call.bytes)
    BY KindOfCall DEF Transferring, WrittenSoFar
  <2> HIDE DEF done
  <2> QED
    BY <1>1, <2>1
<1>3. before \in Seq(Bytes) /\ first \in Seq(Bytes) /\ Zero \in Bytes /\ Len(before) \in Nat
  BY <1>2 DEF FileInv, Types, Bytes
<1> HIDE DEF first, done
<1>4. CASE first = <<>>
  <2>1. content = before /\ done = 0
    BY <1>1, <1>2, <1>4 DEF Visible!Overlay
  <2> QED
    BY <1>1, <1>3, <2>1
<1>5. CASE first # <<>>
  <2>1. Len(Visible!Overlay(before, Start, first))
          = IF Start + Len(first) > Len(before) THEN Start + Len(first) ELSE Len(before)
    BY ONLY <1>1, <1>3, <1>5, OverlayIs
  <2> QED
    BY <1>1, <1>2, <1>3, <2>1
<1> QED
  BY <1>4, <1>5

(***************************************************************************)
(* A write to the end of the file never overwrites what is there, chunk by *)
(* chunk and also where it breaks off, unless the device's own programs    *)
(* have moved the end since the stat and the handle does not append        *)
(* (windows_filesystem.rs:371).                                            *)
(***************************************************************************)
THEOREM EofWritesKeepAll == HandlersSpec => EofWriteKeepsAll
<1> DEFINE Keeps ==
      Writes /\ handler.eof /\ (handler.seen = changes \/ call.handle \in Appending) =>
        SubSeq(content', 1, Len(content)) = content
<1>1. Inv /\ [HandlersNext]_handlerVars => [Keeps]_handlerVars
  <2> SUFFICES ASSUME Inv, HandlersNext, Writes, handler.eof,
                      handler.seen = changes \/ call.handle \in Appending
               PROVE  SubSeq(content', 1, Len(content)) = content
    OBVIOUS
  <2>1. /\ FileInv /\ HandlerInv /\ Transferring("write")
        /\ \E k \in 0..Len(Piece) : DeviceWrites(SubSeq(Piece, 1, k))
    BY WriteStep
  <2>2. PICK k \in 0..Len(Piece) : DeviceWrites(SubSeq(Piece, 1, k))
    BY <2>1
  <2>3. Start = Len(before)
    <3>1. call # Idle /\ call.op = "write"
      BY <2>1 DEF Transferring, Idle
    <3> QED
      BY <2>1, <3>1 DEF HandlerInv, Start
  <2>4. Place = Len(content)
    BY <2>1, <2>3, StaysAtEnd
  <2>5. SubSeq(Piece, 1, k) \in Seq(Byte)
    BY <2>1, WriteState
  <2> DEFINE d == SubSeq(Piece, 1, k)
  <2>6. content \in Seq(Bytes) /\ d \in Seq(Bytes) /\ Zero \in Bytes
    BY <2>1, <2>5 DEF FileInv, Types, Bytes
  <2>7. content' = Visible!Overlay(content, Len(content), d)
    BY <2>2, <2>4 DEF DeviceWrites
  <2> HIDE DEF d
  <2>8. SubSeq(Visible!Overlay(content, Len(content), d), 1, Len(content)) = content
    BY ONLY <2>6, OverlayAtEnd
  <2> QED
    BY <2>7, <2>8
<1> QED
  BY <1>1, FileLoopsInvariant, PTL DEF HandlersSpec, EofWriteKeepsAll

(***************************************************************************)
(* Whether a write of a Windows handle goes to the end or to its offset is *)
(* decided by its append right alone, for every chunk of it and whatever   *)
(* other rights it has (windows_filesystem.rs:479).                        *)
(***************************************************************************)
THEOREM AppendRightDecides == HandlersSpec => AppendAccessDecides
<1> DEFINE Decides ==
      Writes =>
        LET done == Len(call.bytes) - Len(call.rest)
            place == IF "append" \in Access[call.handle] THEN Len(content)
                                                         ELSE call.offset + done
        IN  \E k \in 1..Len(call.rest) :
               content' = Visible!Overlay(content, place, SubSeq(call.rest, 1, k))
<1>1. Inv /\ [HandlersNext]_handlerVars => [Decides]_handlerVars
  <2> SUFFICES ASSUME Inv, HandlersNext, Writes
               PROVE  Decides
    OBVIOUS
  <2> DEFINE done == Len(call.bytes) - Len(call.rest)
             place == IF "append" \in Access[call.handle] THEN Len(content)
                                                          ELSE call.offset + done
  <2>1. /\ FileInv /\ HandlerInv /\ Transferring("write")
        /\ \E k \in 0..Len(Piece) : DeviceWrites(SubSeq(Piece, 1, k))
    BY WriteStep
  <2>2. PICK k \in 0..Len(Piece) : DeviceWrites(SubSeq(Piece, 1, k))
    BY <2>1
  <2>3. /\ call.handle \in Handle /\ call.rest \in Seq(Byte)
        /\ Len(Piece) \in 0..Len(call.rest) /\ Place = Start + done
        /\ SubSeq(Piece, 1, k) = SubSeq(call.rest, 1, k)
        /\ SubSeq(Piece, 1, k) \in Seq(Byte) /\ Len(SubSeq(Piece, 1, k)) = k
    BY <2>1, WriteState DEF WritesOf
  <2>4. call.handle \in Appending <=> "append" \in Access[call.handle]
    BY <2>3, OpenAssumption DEF access_mode, AppendModes
  <2>5. Place = place
    <3>1. CASE call.handle \in Appending
      BY <2>4, <3>1 DEF Place
    <3>2. CASE call.handle \notin Appending
      BY <2>3, <2>4, <3>2 DEF Start
    <3> QED
      BY <3>1, <3>2
  <2>6. content' = Visible!Overlay(content, place, SubSeq(call.rest, 1, k))
    BY <2>2, <2>3, <2>5 DEF DeviceWrites
  <2>7. k # 0
    <3>1. SubSeq(call.rest, 1, k) # <<>>
      BY <2>6 DEF Writes, Visible!Overlay
    <3> QED
      BY <2>3, <3>1
  <2>8. k \in 1..Len(call.rest)
    BY <2>2, <2>3, <2>7
  <2> QED
    BY <2>6, <2>8
<1> QED
  BY <1>1, FileLoopsInvariant, PTL DEF HandlersSpec, AppendAccessDecides
-----------------------------------------------------------------------------
(***************************************************************************)
(* Conversions.                                                            *)
(***************************************************************************)
Absolute(p) == p # <<>> /\ p[1] = Slash

\* A root that connect_source gives a transport.
IsRoot(root) == Absolute(root) /\ (root # <<Slash>> => Len(root) > 1)

(***************************************************************************)
(* A concatenation with the same front determines its back.                *)
(***************************************************************************)
LEMMA SameFront ==
    ASSUME NEW S, NEW r \in Seq(S), NEW p \in Seq(S), NEW q \in Seq(S), r \o p = r \o q
    PROVE  p = q
<1>1. Len(r \o p) = Len(r) + Len(p) /\ Len(r \o q) = Len(r) + Len(q)
      /\ Len(r) \in Nat /\ Len(p) \in Nat /\ Len(q) \in Nat
  OBVIOUS
<1>2. Len(p) = Len(q)
  BY <1>1
<1>3. ASSUME NEW k \in 1..Len(p) PROVE p[k] = q[k]
  <2>1. (r \o p)[Len(r) + k] = p[k] /\ (r \o q)[Len(r) + k] = q[k]
    BY <1>1, <1>2
  <2> QED BY <2>1
<1> QED BY <1>2, <1>3, SeqEqual

(***************************************************************************)
(* On the device every absolute path of the mount is a path of its own:    *)
(* two files are never taken for one, whatever the root of the service     *)
(* (afc.rs:61-73).                                                         *)
(***************************************************************************)
THEOREM PathsDistinct ==
    ASSUME NEW S, Slash \in S,
           NEW root \in Seq(S), IsRoot(root),
           NEW p \in Seq(S), Absolute(p), NEW q \in Seq(S), Absolute(q),
           path(root, p) = path(root, q)
    PROVE  p = q
<1>1. CASE root = <<Slash>>
  BY <1>1 DEF path, Absolute
<1>2. CASE root # <<Slash>> /\ p # <<Slash>> /\ q # <<Slash>>
  <2>1. root \o p = root \o q
    BY <1>2 DEF path, Absolute
  <2> QED BY <2>1, SameFront
<1>3. ASSUME root # <<Slash>>, NEW x \in Seq(S), x # <<>>
      PROVE  root \o x # root
  <2>1. Len(root \o x) = Len(root) + Len(x) /\ Len(x) # 0 /\ Len(root) \in Nat /\ Len(x) \in Nat
    BY <1>3
  <2> QED BY <2>1
<1>4. CASE root # <<Slash>> /\ p = <<Slash>>
  <2>1. CASE q = <<Slash>>
    BY <1>4, <2>1
  <2>2. CASE q # <<Slash>>
    <3>1. path(root, p) = root /\ path(root, q) = root \o q
      BY <1>4, <2>2 DEF path, Absolute
    <3> QED BY <1>3, <1>4, <3>1 DEF Absolute
  <2> QED BY <2>1, <2>2
<1>5. CASE root # <<Slash>> /\ q = <<Slash>> /\ p # <<Slash>>
  <2>1. path(root, q) = root /\ path(root, p) = root \o p
    BY <1>5 DEF path, Absolute
  <2> QED BY <1>3, <1>5, <2>1 DEF Absolute
<1> QED BY <1>1, <1>2, <1>4, <1>5

(***************************************************************************)
(* What the device gets for an absolute path is the root of the service    *)
(* or goes on behind it with a slash (afc.rs:61-73).  This is about the    *)
(* text: of a component that is two dots it says nothing.  (It fails for   *)
(* the relative target of a link, which is glued to the root.)             *)
(***************************************************************************)
THEOREM PathsInside ==
    ASSUME NEW S, Slash \in S,
           NEW root \in Seq(S), IsRoot(root), root # <<Slash>>,
           NEW p \in Seq(S), Absolute(p)
    PROVE  /\ \A k \in 1..Len(root) : path(root, p)[k] = root[k]
           /\ path(root, p) = root \/ path(root, p)[Len(root) + 1] = Slash
<1>1. CASE p = <<Slash>>
  BY <1>1 DEF path
<1>2. CASE p # <<Slash>>
  <2>1. path(root, p) = root \o p
    BY <1>2 DEF path, Absolute
  <2>2. Len(p) \in Nat /\ Len(p) # 0 /\ Len(root) \in Nat
    BY DEF Absolute
  <2>3. (root \o p)[Len(root) + 1] = p[1]
    BY <2>2
  <2>4. \A k \in 1..Len(root) : (root \o p)[k] = root[k]
    BY <2>2
  <2> QED BY <2>1, <2>3, <2>4 DEF Absolute
<1> QED BY <1>1, <1>2
-----------------------------------------------------------------------------
(***************************************************************************)
(* The separators and U+FFFD are no halves of characters.                  *)
(***************************************************************************)
LEMMA UnitsApart ==
    /\ Slash \in Unit /\ Backslash \in Unit /\ Replacement \in Unit
    /\ Slash # Backslash /\ Replacement # Slash /\ Replacement # Backslash
    /\ Slash \notin High \union Low /\ Backslash \notin High \union Low
    /\ Replacement \notin High \union Low
    /\ High \subseteq Unit /\ Low \subseteq Unit /\ High \intersect Low = {}
<1>1. /\ Slash \in Unit /\ Backslash \in Unit /\ Replacement \in Unit
      /\ Slash # Backslash /\ Replacement # Slash /\ Replacement # Backslash
  BY DEF Slash, Backslash, Replacement, Unit
<1>2. /\ Slash \notin High \union Low /\ Backslash \notin High \union Low
      /\ Replacement \notin High \union Low
  BY DEF Slash, Backslash, Replacement, High, Low
<1>3. High \subseteq Unit /\ Low \subseteq Unit /\ High \intersect Low = {}
  BY DEF High, Low, Unit
<1> QED BY <1>1, <1>2, <1>3

(***************************************************************************)
(* Unit by unit, what the conversion to a String makes of a text.          *)
(***************************************************************************)
LEMMA WideUnits ==
    ASSUME NEW t \in Seq(Unit)
    PROVE  /\ wide_string(t) \in Seq(Unit) /\ Len(wide_string(t)) = Len(t)
           /\ \A k \in 1..Len(t) :
                 wide_string(t)[k] = IF Unpaired(t, k) THEN Replacement ELSE t[k]
<1>1. Len(t) \in Nat
  OBVIOUS
<1> QED
  BY <1>1, UnitsApart DEF wide_string

\* u is t with the unit new for every old.
Swapped(u, t, old, new) ==
    /\ u \in Seq(Unit) /\ Len(u) = Len(t)
    /\ \A k \in 1..Len(t) : u[k] = IF t[k] = old THEN new ELSE t[k]

LEMMA ReplacedUnits ==
    ASSUME NEW t \in Seq(Unit), NEW old \in Unit, NEW new \in Unit
    PROVE  Swapped(Replaced(t, old, new), t, old, new)
<1>1. Len(t) \in Nat
  OBVIOUS
<1> QED
  BY <1>1 DEF Replaced, Swapped

\* A text without halves of characters is the same as a String.
LEMMA WideKeeps ==
    ASSUME NEW t \in Seq(Unit), WellFormed(t)
    PROVE  wide_string(t) = t
<1>1. \A k \in 1..Len(t) : wide_string(t)[k] = t[k]
  BY WideUnits DEF WellFormed
<1> QED
  BY <1>1, WideUnits, SeqEqual

(***************************************************************************)
(* The path of a name that begins with a backslash, unit by unit.          *)
(***************************************************************************)
LEMMA NameUnits ==
    ASSUME NEW t \in Seq(Unit), t # <<>>, t[1] = Backslash
    PROVE  /\ afc_path(t) = Replaced(wide_string(t), Backslash, Slash)
           /\ Absolute(afc_path(t))
           /\ Len(afc_path(t)) = Len(t)
           /\ \A k \in 1..Len(t) :
                 afc_path(t)[k] = IF t[k] = Backslash THEN Slash
                                  ELSE IF Unpaired(t, k) THEN Replacement ELSE t[k]
<1> DEFINE wide == wide_string(t)
           value == Replaced(wide, Backslash, Slash)
<1>1. Len(t) \in Nat /\ Len(t) # 0
  OBVIOUS
<1>2. /\ wide \in Seq(Unit) /\ Len(wide) = Len(t)
      /\ \A k \in 1..Len(t) : wide[k] = IF Unpaired(t, k) THEN Replacement ELSE t[k]
  BY WideUnits
<1> HIDE DEF wide
<1>3. /\ value \in Seq(Unit) /\ Len(value) = Len(t)
      /\ \A k \in 1..Len(t) : value[k] = IF wide[k] = Backslash THEN Slash ELSE wide[k]
  <2>1. wide \in Seq(Unit) /\ Backslash \in Unit /\ Slash \in Unit
    BY <1>2, UnitsApart
  <2>2. Swapped(value, wide, Backslash, Slash)
    BY ONLY <2>1, ReplacedUnits, Zenon
  <2> HIDE DEF value
  <2> QED BY <1>2, <2>2 DEF Swapped
<1> HIDE DEF value
<1>4. ASSUME NEW k \in 1..Len(t)
      PROVE  value[k] = IF t[k] = Backslash THEN Slash
                        ELSE IF Unpaired(t, k) THEN Replacement ELSE t[k]
  <2>1. t[k] = Backslash => ~Unpaired(t, k)
    BY UnitsApart DEF Unpaired
  <2> QED BY <1>2, <1>3, <2>1, UnitsApart
<1>5. value # <<>> /\ value[1] = Slash
  <2>1. value[1] = Slash /\ Len(value) # 0
    BY <1>1, <1>3, <1>4
  <2> QED BY <2>1
<1>6. afc_path(t) = value
  BY <1>5 DEF afc_path, value, wide
<1> QED BY <1>3, <1>4, <1>5, <1>6 DEF Absolute, value, wide

\* A unit of which the String does not say what it was.
Lost(t, k) == Unpaired(t, k) \/ t[k] = Replacement

(***************************************************************************)
(* Two names WinFsp gives - they begin with a backslash and have no slash  *)
(* in them - are two absolute paths, if their surrogates are paired.  In   *)
(* any case the names of one path differ at most where each of them has an *)
(* unpaired surrogate or U+FFFD itself (windows_filesystem.rs:447-462).    *)
(***************************************************************************)
THEOREM WindowsNamesDistinct ==
    ASSUME NEW p \in Seq(Unit), p # <<>>, p[1] = Backslash,
           \A k \in 1..Len(p) : p[k] # Slash,
           NEW q \in Seq(Unit), q # <<>>, q[1] = Backslash,
           \A k \in 1..Len(q) : q[k] # Slash
    PROVE  /\ Absolute(afc_path(p))
           /\ afc_path(p) = afc_path(q) =>
                 /\ Len(p) = Len(q)
                 /\ \A k \in 1..Len(p) : p[k] = q[k] \/ (Lost(p, k) /\ Lost(q, k))
           /\ WellFormed(p) /\ WellFormed(q) /\ afc_path(p) = afc_path(q) => p = q
<1>1. ASSUME afc_path(p) = afc_path(q), NEW k \in 1..Len(p)
      PROVE  /\ Len(p) = Len(q)
             /\ p[k] = q[k] \/ (Lost(p, k) /\ Lost(q, k))
             /\ ~Unpaired(p, k) /\ ~Unpaired(q, k) => p[k] = q[k]
  <2>1. Len(p) = Len(q)
    BY <1>1, NameUnits
  <2>2. afc_path(p)[k] = (IF p[k] = Backslash THEN Slash
                          ELSE IF Unpaired(p, k) THEN Replacement ELSE p[k])
    BY NameUnits
  <2>3. afc_path(q)[k] = (IF q[k] = Backslash THEN Slash
                          ELSE IF Unpaired(q, k) THEN Replacement ELSE q[k])
    BY <2>1, NameUnits
  <2>4. p[k] # Slash /\ q[k] # Slash /\ Replacement # Slash
    BY <2>1, UnitsApart
  <2> QED BY <1>1, <2>1, <2>2, <2>3, <2>4 DEF Lost
<1>2. Absolute(afc_path(p))
  BY NameUnits
<1>3. afc_path(p) = afc_path(q) => Len(p) = Len(q)
  BY NameUnits
<1>4. ASSUME WellFormed(p), WellFormed(q), afc_path(p) = afc_path(q) PROVE p = q
  <2>1. Len(p) = Len(q)
    BY <1>3, <1>4
  <2>2. \A k \in 1..Len(p) : p[k] = q[k]
    BY <1>1, <1>4, <2>1 DEF WellFormed
  <2> QED BY <2>1, <2>2, SeqEqual
<1> QED BY <1>1, <1>2, <1>3, <1>4

(***************************************************************************)
(* What that exception is about: names that differ in an unpaired          *)
(* surrogate are one path, so the code takes two files for one.            *)
(***************************************************************************)
THEOREM SurrogatesMerge ==
    ASSUME NEW a \in High, NEW b \in High
    PROVE  afc_path(<<Backslash, a>>) = afc_path(<<Backslash, b>>)
<1>1. ASSUME NEW c \in High
      PROVE  /\ afc_path(<<Backslash, c>>) \in Seq(Unit)
             /\ Len(afc_path(<<Backslash, c>>)) = 2
             /\ afc_path(<<Backslash, c>>)[1] = Slash
             /\ afc_path(<<Backslash, c>>)[2] = Replacement
  <2> DEFINE t == <<Backslash, c>>
  <2>1. t \in Seq(Unit) /\ t # <<>> /\ Len(t) = 2 /\ t[1] = Backslash /\ t[2] = c
    BY UnitsApart
  <2>2. c # Backslash
    BY UnitsApart
  <2> HIDE DEF t
  <2>3. Unpaired(t, 2)
    BY <2>1 DEF Unpaired
  <2>4. /\ Len(afc_path(t)) = 2 /\ afc_path(t)[1] = Slash /\ afc_path(t)[2] = Replacement
        /\ afc_path(t) = Replaced(wide_string(t), Backslash, Slash)
    BY <2>1, <2>2, <2>3, NameUnits
  <2>5. wide_string(t) \in Seq(Unit)
    BY <2>1, WideUnits
  <2>6. afc_path(t) \in Seq(Unit)
    BY <2>4, <2>5, ReplacedUnits, UnitsApart DEF Swapped
  <2> QED BY <2>4, <2>6 DEF t
<1>2. \A k \in 1..2 : afc_path(<<Backslash, a>>)[k] = afc_path(<<Backslash, b>>)[k]
  BY <1>1
<1> QED BY <1>1, <1>2, SeqEqual

\* t is a, the unit x and b behind each other.
Joined(t, a, x, b) ==
    /\ t \in Seq(Unit) /\ Len(t) = Len(a) + 1 + Len(b)
    /\ \A k \in 1..Len(t) :
          t[k] = IF k <= Len(a) THEN a[k]
                 ELSE IF k = Len(a) + 1 THEN x ELSE b[k - Len(a) - 1]

LEMMA Separated ==
    ASSUME NEW a \in Seq(Unit), NEW x \in Unit, NEW b \in Seq(Unit)
    PROVE  Joined(a \o <<x>> \o b, a, x, b)
  BY DEF Joined

(***************************************************************************)
(* Behind a separator the conversion to a String begins anew: no character *)
(* goes across it.                                                         *)
(***************************************************************************)
LEMMA WideBelow ==
    ASSUME NEW a \in Seq(Unit), NEW name \in Seq(Unit), WellFormed(name),
           NEW t, t = a \o <<Backslash>> \o name
    PROVE  Joined(wide_string(t), wide_string(a), Backslash, name)
<1>1. Len(a) \in Nat /\ Len(name) \in Nat
  OBVIOUS
<1>2. /\ t \in Seq(Unit) /\ Len(t) = Len(a) + 1 + Len(name)
      /\ \A k \in 1..Len(t) :
            t[k] = IF k <= Len(a) THEN a[k]
                   ELSE IF k = Len(a) + 1 THEN Backslash ELSE name[k - Len(a) - 1]
  BY Separated, UnitsApart DEF Joined
<1>3. /\ wide_string(t) \in Seq(Unit) /\ Len(wide_string(t)) = Len(t)
      /\ \A k \in 1..Len(t) :
            wide_string(t)[k] = IF Unpaired(t, k) THEN Replacement ELSE t[k]
  BY <1>2, WideUnits
<1>4. ASSUME NEW k \in 1..Len(a) PROVE wide_string(t)[k] = wide_string(a)[k]
  <2>1. k \in 1..Len(t) /\ k <= Len(a) /\ t[k] = a[k]
    BY <1>1, <1>2
  <2>2. k > 1 => t[k - 1] = a[k - 1]
    BY <1>1, <1>2
  <2>3. k < Len(a) => t[k + 1] = a[k + 1]
    BY <1>1, <1>2
  <2>4. k = Len(a) => t[k + 1] = Backslash
    BY <1>1, <1>2
  <2>5. k < Len(t)
    BY <1>1, <1>2
  <2>6. Unpaired(t, k) <=> Unpaired(a, k)
    <3>1. CASE k < Len(a)
      BY <2>1, <2>2, <2>3, <2>5, <3>1 DEF Unpaired
    <3>2. CASE k = Len(a)
      BY <1>1, <2>1, <2>2, <2>4, <3>2, UnitsApart DEF Unpaired
    <3> QED BY <1>1, <3>1, <3>2
  <2>7. wide_string(a)[k] = IF Unpaired(a, k) THEN Replacement ELSE a[k]
    BY WideUnits
  <2> QED BY <1>3, <2>1, <2>6, <2>7
<1>5. wide_string(t)[Len(a) + 1] = Backslash
  <2>1. Len(a) + 1 \in 1..Len(t) /\ t[Len(a) + 1] = Backslash
    BY <1>1, <1>2
  <2>2. ~Unpaired(t, Len(a) + 1)
    BY <2>1, UnitsApart DEF Unpaired
  <2> QED BY <1>3, <2>1, <2>2
<1>6. ASSUME NEW j \in 1..Len(name) PROVE wide_string(t)[Len(a) + 1 + j] = name[j]
  <2> DEFINE k == Len(a) + 1 + j
  <2>1. k \in 1..Len(t) /\ ~(k <= Len(a)) /\ k # Len(a) + 1 /\ k - Len(a) - 1 = j /\ k > 1
    BY <1>1, <1>2
  <2>2. t[k] = name[j]
    BY <1>2, <2>1
  <2>3. j > 1 => t[k - 1] = name[j - 1]
    <3>1. j > 1 => /\ k - 1 \in 1..Len(t) /\ ~(k - 1 <= Len(a)) /\ k - 1 # Len(a) + 1
                   /\ (k - 1) - Len(a) - 1 = j - 1
      BY <1>1, <1>2
    <3> QED BY <1>2, <3>1
  <2>4. j = 1 => t[k - 1] = Backslash
    <3>1. j = 1 => k - 1 \in 1..Len(t) /\ ~(k - 1 <= Len(a)) /\ k - 1 = Len(a) + 1
      BY <1>1, <1>2
    <3> QED BY <1>2, <3>1
  <2>5. j < Len(name) => t[k + 1] = name[j + 1]
    <3>1. j < Len(name) => /\ k + 1 \in 1..Len(t) /\ ~(k + 1 <= Len(a)) /\ k + 1 # Len(a) + 1
                           /\ (k + 1) - Len(a) - 1 = j + 1
      BY <1>1, <1>2
    <3> QED BY <1>2, <3>1
  <2>6. j < Len(name) => k < Len(t)
    BY <1>1, <1>2
  <2> HIDE DEF k
  <2>7. ~Unpaired(name, j)
    BY DEF WellFormed
  <2>8. name[j] \in High => k < Len(t) /\ t[k + 1] \in Low
    BY <2>5, <2>6, <2>7 DEF Unpaired
  <2>9. name[j] \in Low => k > 1 /\ t[k - 1] \in High
    BY <2>1, <2>3, <2>7 DEF Unpaired
  <2>10. ~Unpaired(t, k)
    BY <2>2, <2>8, <2>9 DEF Unpaired
  <2>11. wide_string(t)[k] = name[j]
    BY <1>3, <2>1, <2>2, <2>10
  <2> QED BY <2>11 DEF k
<1>7. ASSUME NEW k \in 1..Len(t)
      PROVE  wide_string(t)[k] = IF k <= Len(a) THEN wide_string(a)[k]
                                 ELSE IF k = Len(a) + 1 THEN Backslash
                                 ELSE name[k - Len(a) - 1]
  <2>1. CASE k <= Len(a)
    <3>1. k \in 1..Len(a)
      BY <1>1, <2>1
    <3> QED BY <1>4, <2>1, <3>1
  <2>2. CASE k = Len(a) + 1
    BY <1>1, <1>5, <2>2
  <2>3. CASE k > Len(a) + 1
    <3> DEFINE j == k - Len(a) - 1
    <3>1. j \in 1..Len(name) /\ k = Len(a) + 1 + j /\ ~(k <= Len(a)) /\ k # Len(a) + 1
      BY <1>1, <1>2, <2>3
    <3> HIDE DEF j
    <3>2. wide_string(t)[k] = name[j]
      BY <1>6, <3>1
    <3> QED BY <3>1, <3>2 DEF j
  <2> QED BY <1>1, <2>1, <2>2, <2>3
<1>8. Len(wide_string(a)) = Len(a)
  BY WideUnits
<1> QED BY <1>2, <1>3, <1>7, <1>8 DEF Joined

(***************************************************************************)
(* So does the path: that of a name below another is the one of the other, *)
(* a slash and the name.                                                   *)
(***************************************************************************)
LEMMA PathBelow ==
    ASSUME NEW a \in Seq(Unit), NEW name \in Seq(Unit), WellFormed(name),
           \A k \in 1..Len(name) : name[k] # Backslash
    PROVE  Replaced(wide_string(a \o <<Backslash>> \o name), Backslash, Slash)
              = Replaced(wide_string(a), Backslash, Slash) \o <<Slash>> \o name
<1> DEFINE t == a \o <<Backslash>> \o name
           wide == wide_string(t)
           value == Replaced(wide, Backslash, Slash)
           head == wide_string(a)
           front == Replaced(head, Backslash, Slash)
           joined == front \o <<Slash>> \o name
<1>1. Len(a) \in Nat /\ Len(name) \in Nat
  OBVIOUS
<1>2. Joined(wide, head, Backslash, name)
  BY ONLY a \in Seq(Unit), name \in Seq(Unit), WellFormed(name), WideBelow, Zenon
<1>3. head \in Seq(Unit) /\ Len(head) = Len(a)
  BY WideUnits
<1> HIDE DEF wide, head
<1>4. Slash \in Unit /\ Backslash \in Unit /\ wide \in Seq(Unit)
  BY <1>2, UnitsApart DEF Joined
<1>5. Swapped(front, head, Backslash, Slash) /\ Swapped(value, wide, Backslash, Slash)
  BY ONLY <1>3, <1>4, ReplacedUnits, Zenon
<1> HIDE DEF value, front
<1>6. Joined(joined, front, Slash, name)
  <2>1. front \in Seq(Unit)
    BY <1>5 DEF Swapped
  <2> QED
    BY ONLY <2>1, <1>4, name \in Seq(Unit), Separated, Zenon
<1> HIDE DEF joined
<1> USE DEF Joined, Swapped
<1>7. ASSUME NEW k \in 1..Len(wide) PROVE value[k] = joined[k]
  <2>0. k \in 1..Len(joined) /\ k \in Nat
    BY <1>2, <1>3, <1>5, <1>6
  <2>1. CASE k <= Len(a)
    <3>1. k \in 1..Len(a) /\ wide[k] = head[k] /\ joined[k] = front[k]
      BY <1>1, <1>2, <1>3, <1>5, <1>6, <2>0, <2>1
    <3> QED BY <1>3, <1>5, <3>1
  <2>2. CASE k = Len(a) + 1
    <3>1. ~(k <= Len(a))
      BY <1>1, <2>2
    <3> QED BY <1>2, <1>3, <1>5, <1>6, <2>0, <2>2, <3>1
  <2>3. CASE k > Len(a) + 1
    <3>1. k - Len(a) - 1 \in 1..Len(name) /\ ~(k <= Len(a)) /\ k # Len(a) + 1
      BY <1>1, <1>2, <1>3, <2>3
    <3>2. wide[k] = name[k - Len(a) - 1] /\ joined[k] = name[k - Len(a) - 1]
      BY <1>2, <1>3, <1>5, <1>6, <2>0, <3>1
    <3> QED BY <1>5, <3>1, <3>2
  <2> QED BY <1>1, <2>0, <2>1, <2>2, <2>3
<1>8. value = joined
  <2>1. value \in Seq(Unit) /\ joined \in Seq(Unit) /\ Len(value) = Len(joined)
        /\ Len(value) = Len(wide)
    BY <1>2, <1>3, <1>5, <1>6
  <2> QED BY <1>7, <2>1, SeqEqual
<1> QED BY <1>8 DEF value, joined, front, head, wide

\* The name WinFsp gives an entry of a directory; the root is one backslash.
Below(p, name) ==
    IF p = <<Backslash>> THEN p \o name ELSE p \o <<Backslash>> \o name

(***************************************************************************)
(* An entry of a listing can be opened under the name it is listed with,   *)
(* in the root as in any other directory: the path read_directory asks the *)
(* device for is the one open will ask for - if the name has no backslash  *)
(* in it, which the device allows and Windows does not.  A name the device *)
(* lists is a String, hence well-formed                                    *)
(* (windows_filesystem.rs:246, 447-470).                                   *)
(***************************************************************************)
THEOREM ListedCanBeOpened ==
    ASSUME NEW p \in Seq(Unit), p # <<>>, p[1] = Backslash,
           NEW name \in Seq(Unit), WellFormed(name),
           \A k \in 1..Len(name) : name[k] # Backslash
    PROVE  afc_path(Below(p, name)) = join_afc_path(afc_path(p), name)
<1>1. CASE p = <<Backslash>>
  <2> DEFINE e == SubSeq(p, 1, 0)
             t == p \o name
  <2>1. e \in Seq(Unit) /\ e = <<>>
    OBVIOUS
  <2>2. t = e \o <<Backslash>> \o name /\ <<Slash>> \o name = e \o <<Slash>> \o name
    <3>1. ASSUME NEW x \in Unit PROVE <<x>> \o name = <<>> \o <<x>> \o name
      OBVIOUS
    <3> QED BY <1>1, <2>1, <3>1, UnitsApart
  <2>3. Replaced(wide_string(e), Backslash, Slash) = <<>>
    <3> HIDE DEF e
    <3> DEFINE w == wide_string(e)
    <3>1. w \in Seq(Unit) /\ Len(w) = 0
      BY <2>1, WideUnits
    <3> HIDE DEF w
    <3>2. Swapped(Replaced(w, Backslash, Slash), w, Backslash, Slash)
      BY <3>1, ReplacedUnits, UnitsApart
    <3>3. Replaced(w, Backslash, Slash) = <<>>
      BY <3>1, <3>2 DEF Swapped
    <3> QED BY <3>3 DEF w
  <2>4. Replaced(wide_string(t), Backslash, Slash) = <<Slash>> \o name
    <3> HIDE DEF e, t
    <3>1. Replaced(wide_string(e \o <<Backslash>> \o name), Backslash, Slash)
             = Replaced(wide_string(e), Backslash, Slash) \o <<Slash>> \o name
      BY <2>1, PathBelow
    <3> QED BY <2>1, <2>2, <2>3, <3>1
  <2>5. t \in Seq(Unit) /\ t # <<>> /\ t[1] = Backslash
    BY <1>1, UnitsApart
  <2> HIDE DEF e, t
  <2>6. afc_path(t) = <<Slash>> \o name
    BY <2>4, <2>5, NameUnits
  <2>7. afc_path(p) = <<Slash>>
    <3>1. Len(p) = 1 /\ afc_path(p) = Replaced(wide_string(p), Backslash, Slash)
          /\ Len(afc_path(p)) = 1 /\ afc_path(p)[1] = Slash
      BY <1>1, NameUnits DEF Absolute
    <3>2. afc_path(p) \in Seq(Unit)
      BY <3>1, WideUnits, ReplacedUnits, UnitsApart DEF Swapped
    <3> HIDE DEF e, t
    <3> QED BY <3>1, <3>2
  <2> QED BY <1>1, <2>6, <2>7 DEF Below, join_afc_path, t
<1>2. CASE p # <<Backslash>>
  <2> DEFINE t == p \o <<Backslash>> \o name
  <2>1. Len(p) \in Nat /\ Len(p) > 1
    <3>1. Len(p) \in Nat /\ Len(p) # 0
      OBVIOUS
    <3>2. Len(p) # 1
      <4>1. Len(p) = 1 => p = <<p[1]>>
        OBVIOUS
      <4> QED BY <1>2, <4>1
    <3> DEFINE n == Len(p)
    <3>3. n \in Nat /\ n # 0 /\ n # 1
      BY <3>1, <3>2
    <3> HIDE DEF n
    <3>4. n > 1
      BY <3>3
    <3> QED BY <3>3, <3>4 DEF n
  <2>2. Replaced(wide_string(t), Backslash, Slash)
           = Replaced(wide_string(p), Backslash, Slash) \o <<Slash>> \o name
    BY PathBelow
  <2>3. t \in Seq(Unit) /\ t # <<>> /\ t[1] = Backslash
    <3>1. /\ t \in Seq(Unit) /\ Len(t) = Len(p) + 1 + Len(name)
          /\ \A k \in 1..Len(t) :
                t[k] = IF k <= Len(p) THEN p[k]
                       ELSE IF k = Len(p) + 1 THEN Backslash ELSE name[k - Len(p) - 1]
      BY Separated, UnitsApart DEF Joined
    <3> HIDE DEF t
    <3>2. Len(name) \in Nat
      OBVIOUS
    <3>3. 1 \in 1..Len(t) /\ 1 <= Len(p) /\ Len(t) # 0
      BY <2>1, <3>1, <3>2
    <3> QED BY <3>1, <3>3
  <2> HIDE DEF t
  <2>4. afc_path(t) = afc_path(p) \o <<Slash>> \o name
    BY <2>2, <2>3, NameUnits
  <2>5. afc_path(p) # <<Slash>>
    <3> DEFINE it == afc_path(p)
    <3>1. Len(it) # 1
      BY <2>1, NameUnits
    <3> HIDE DEF it
    <3>2. Len(<<Slash>>) = 1
      OBVIOUS
    <3>3. it # <<Slash>>
      BY <3>1, <3>2, Zenon
    <3> QED BY <3>3 DEF it
  <2> QED BY <1>2, <2>4, <2>5 DEF Below, join_afc_path, t
<1> QED BY <1>1, <1>2
-----------------------------------------------------------------------------
LEMMA Division ==
    ASSUME NEW t \in Nat
    PROVE  /\ t \div 100 \in Nat
           /\ t % 100 \in 0..99
           /\ t = 100 * (t \div 100) + (t % 100)
<1>1. t \div 100 \in Nat
  OBVIOUS
<1>2. t % 100 \in 0..99
  OBVIOUS
<1>3. t = 100 * (t \div 100) + (t % 100)
  OBVIOUS
<1> QED BY <1>1, <1>2, <1>3

(***************************************************************************)
(* A time the device has comes back from Windows rounded down to 100 ns,   *)
(* and no later: nothing overflows up to the largest time the device can   *)
(* name (windows_filesystem.rs:526-543).                                   *)
(***************************************************************************)
THEOREM TimesComeBack ==
    ASSUME NEW time \in Nat, time <= U64Max
    PROVE  /\ system_time_to_windows_time(time) \in Nat
           /\ system_time_to_windows_time(time) <= U64Max
           /\ windows_time_to_unix_nanos(system_time_to_windows_time(time))
                 = time - (time % 100)
<1> DEFINE d == time \div 100
           r == time % 100
<1>1. U64Max \in Nat /\ WINDOWS_EPOCH_TICKS \in Nat
      /\ 100 * WINDOWS_EPOCH_TICKS <= 99 * U64Max
  BY DEF U64Max, WINDOWS_EPOCH_TICKS
<1>2. d \in Nat /\ r \in 0..99 /\ time = 100 * d + r
  BY Division
<1>3. Largest(time, 0) = time
  BY <1>1 DEF Largest
<1>4. system_time_to_windows_time(time) = WINDOWS_EPOCH_TICKS + d
  BY <1>3 DEF system_time_to_windows_time
<1> HIDE DEF d, r
<1>5. (WINDOWS_EPOCH_TICKS + d) - WINDOWS_EPOCH_TICKS = d /\ d * 100 = time - r
      /\ time - r \in Int /\ time - r <= U64Max
  BY <1>1, <1>2
<1>6. windows_time_to_unix_nanos(WINDOWS_EPOCH_TICKS + d) = time - r
  <2>1. Largest(d, 0) = d
    BY <1>2 DEF Largest
  <2>2. Smallest(time - r, U64Max) = time - r
    BY <1>1, <1>5 DEF Smallest
  <2>3. windows_time_to_unix_nanos(WINDOWS_EPOCH_TICKS + d)
           = Smallest(Largest((WINDOWS_EPOCH_TICKS + d) - WINDOWS_EPOCH_TICKS, 0) * 100, U64Max)
    BY Zenon DEF windows_time_to_unix_nanos
  <2> QED BY <1>5, <2>1, <2>2, <2>3, Zenon
<1>7. WINDOWS_EPOCH_TICKS + d \in Nat /\ WINDOWS_EPOCH_TICKS + d <= U64Max
  BY <1>1, <1>2
<1> QED BY <1>4, <1>6, <1>7 DEF r

(***************************************************************************)
(* A time Windows sets, from 1970 on and as long as the device can name    *)
(* it, is the time Windows sees afterwards.                                *)
(***************************************************************************)
THEOREM TicksComeBack ==
    ASSUME NEW ticks \in Nat, ticks >= WINDOWS_EPOCH_TICKS,
           (ticks - WINDOWS_EPOCH_TICKS) * 100 <= U64Max
    PROVE  system_time_to_windows_time(windows_time_to_unix_nanos(ticks)) = ticks
<1> DEFINE n == ticks - WINDOWS_EPOCH_TICKS
<1>1. n \in Nat /\ (n * 100) \div 100 = n
  BY DEF WINDOWS_EPOCH_TICKS
<1>2. windows_time_to_unix_nanos(ticks) = n * 100
  BY <1>1 DEF windows_time_to_unix_nanos, Smallest, Largest, WINDOWS_EPOCH_TICKS, U64Max
<1> QED BY <1>1, <1>2 DEF system_time_to_windows_time, Largest, WINDOWS_EPOCH_TICKS

\* No file seems older than one that was changed before it.
THEOREM TimesKeepOrder ==
    ASSUME NEW t \in Nat, NEW u \in Nat, t <= u
    PROVE  system_time_to_windows_time(t) <= system_time_to_windows_time(u)
<1>2. t \div 100 <= u \div 100
  OBVIOUS
<1>3. Largest(t, 0) = t /\ Largest(u, 0) = u
  BY DEF Largest
<1>4. t \div 100 \in Nat /\ u \div 100 \in Nat
  BY Division
<1> QED BY <1>2, <1>3, <1>4 DEF system_time_to_windows_time, WINDOWS_EPOCH_TICKS
-----------------------------------------------------------------------------
(***************************************************************************)
(* The target of a link that fits the 16 KiB Windows allows for reparse    *)
(* data is read back as it was written, with slashes for any backslashes:  *)
(* its length does not outgrow the u16 of the header, and a String has no  *)
(* surrogate the lossy conversion would replace                            *)
(* (windows_filesystem.rs:552-592).                                        *)
(***************************************************************************)
THEOREM TargetsComeBack ==
    ASSUME NEW target \in Seq(Unit), WellFormed(target), ReparseSize(target) <= 16384
    PROVE  parse_symlink_reparse(write_symlink_reparse(target))
              = Replaced(target, Backslash, Slash)
<1> DEFINE wide == Replaced(target, Slash, Backslash)
           n == Len(target)
           data == write_symlink_reparse(target)
           back == SubSeq(data.units, n + 1, n + n)
<1>1. n \in Nat /\ n < 32768
  BY DEF ReparseSize
<1>2. wide \in Seq(Unit) /\ Len(wide) = n /\ \A k \in 1..n :
         wide[k] = IF target[k] = Slash THEN Backslash ELSE target[k]
  BY ReplacedUnits, UnitsApart DEF Swapped
<1>3. data.units = wide \o wide /\ data.offset = 2 * n /\ data.length = 2 * n
  <2>1. U16(2 * n) = 2 * n
    BY <1>1 DEF U16
  <2> QED BY <1>2, <2>1 DEF write_symlink_reparse
<1>4. back = wide
  <2>1. back = SubSeq(wide \o wide, Len(wide) + 1, Len(wide) + Len(wide))
    <3>1. data.units = wide \o wide /\ n = Len(wide)
      BY <1>2, <1>3
    <3> HIDE DEF wide, data, n
    <3> QED
      BY <3>1
  <2>2. wide \in Seq(Unit)
    BY <1>2
  <2> HIDE DEF wide, back
  <2>3. SubSeq(wide \o wide, Len(wide) + 1, Len(wide) + Len(wide)) = wide
    BY ONLY <2>2, SecondHalf
  <2> QED
    BY ONLY <2>1, <2>3, Zenon
<1>5. parse_symlink_reparse(data) = Replaced(wide_string(back), Backslash, Slash)
  BY <1>1, <1>3 DEF parse_symlink_reparse
<1>6. wide_string(wide) = wide
  <2>1. ASSUME NEW k \in 1..n
        PROVE  /\ wide[k] \in High <=> target[k] \in High
               /\ wide[k] \in Low <=> target[k] \in Low
    BY <1>2, UnitsApart
  <2> HIDE DEF wide
  <2>2. ASSUME NEW k \in 1..n PROVE ~Unpaired(wide, k)
    <3>1. ~Unpaired(target, k)
      BY DEF WellFormed
    <3>2. k < n => k + 1 \in 1..n
      BY <1>1
    <3>3. k > 1 => k - 1 \in 1..n
      BY <1>1
    <3> QED BY <1>2, <2>1, <3>1, <3>2, <3>3 DEF Unpaired
  <2> QED BY <1>2, <2>2, WideKeeps DEF WellFormed
<1>7. Replaced(wide, Backslash, Slash) = Replaced(target, Backslash, Slash)
  <2>1. \A k \in 1..n : (IF wide[k] = Backslash THEN Slash ELSE wide[k])
                          = (IF target[k] = Backslash THEN Slash ELSE target[k])
    BY <1>2
  <2>2. Len(wide) = n
    BY <1>2
  <2> HIDE DEF wide
  <2> QED BY <2>1, <2>2 DEF Replaced
<1> HIDE DEF wide, back, data
<1> QED BY <1>4, <1>5, <1>6, <1>7 DEF data
-----------------------------------------------------------------------------
(***************************************************************************)
(* The loops of the inode table.  The table that others see while a call   *)
(* runs is the one it began with; the maps are that table with a part of   *)
(* the selected paths moved or removed - those the loop has reached, in    *)
(* whatever order it reaches them.  When it has reached all of them, that  *)
(* is what InodeTable says the call does.                                  *)
(***************************************************************************)
TP == INSTANCE InodeTableProofs WITH by_inode <- ShownMaps.inode, by_path <- ShownMaps.path

\* What the call has selected, and what becomes of a part of it.
Selected == {p \in DOMAIN began.path : T!Under(p, args[1])}
Moves(paths) == {[path |-> p, inode |-> began.path[p]] : p \in paths}
Numbers(paths) == {began.path[p] : p \in paths}
Moved(p) == T!Rebase(p, args[1], args[2])
Places(paths) == {Moved(p) : p \in paths}

\* The maps with a part moved, and with a part removed.
PathsMoved(done) ==
    [q \in (DOMAIN began.path \ done) \union Places(done) |->
        IF q \in Places(done) THEN began.path[T!Rebase(q, args[2], args[1])] ELSE began.path[q]]
InodesMoved(done) ==
    [i \in DOMAIN began.inode \union Numbers(done) |->
        IF i \in Numbers(done) THEN Moved(CHOOSE p \in done : began.path[p] = i)
                               ELSE began.inode[i]]
PathsLeft(done) == [p \in DOMAIN began.path \ done |-> began.path[p]]
InodesLeft(done) == [i \in DOMAIN began.inode \ Numbers(done) |-> began.inode[i]]

\* The loop has reached these paths, and none of the others.
Reached(done) ==
    /\ done \subseteq Selected
    /\ todo = Moves(Selected \ done)
    /\ op = "rename" => by_path = PathsMoved(done) /\ by_inode = InodesMoved(done)
    /\ op = "remove" => by_path = PathsLeft(done) /\ by_inode = InodesLeft(done)

TableLoops ==
    /\ op \in {"idle", "rename", "remove"}
    /\ op # "idle" =>
          /\ args[1] \in T!Path /\ args[2] \in T!Path
          /\ op = "rename" => /\ T!MayRename(args[1], args[2])
                              /\ \A p \in Selected : Moved(p) \in T!Path
          /\ op = "remove" => args[1] # T!Root
          /\ \E done \in SUBSET Selected : Reached(done)

\* The paths of the three instances are the same.
LEMMA SameTablePaths ==
    /\ Table!Path = T!Path /\ TP!Path = T!Path
    /\ Table!Root = T!Root /\ TP!Root = T!Root
    /\ \A p, q : (Table!Under(p, q) <=> T!Under(p, q)) /\ (TP!Under(p, q) <=> T!Under(p, q))
    /\ \A p, q, r : Table!Rebase(p, q, r) = T!Rebase(p, q, r) /\ TP!Rebase(p, q, r) = T!Rebase(p, q, r)
    /\ \A f, x, v : Table!Put(f, x, v) = T!Put(f, x, v) /\ TP!Put(f, x, v) = T!Put(f, x, v)
    /\ \A p, q : Table!MayRename(p, q) <=> T!MayRename(p, q)
  BY DEF Table!Path, TP!Path, T!Path, Table!Root, TP!Root, T!Root, Table!Under, TP!Under, T!Under,
         Table!Rebase, TP!Rebase, T!Rebase, Table!Suffix, TP!Suffix, T!Suffix,
         Table!Put, TP!Put, T!Put, Table!MayRename, T!MayRename, Table!Nested, T!Nested

\* The table others see is the one the theorems of InodeTableProofs are about.
LEMMA SameShownTable ==
    /\ Table!Init <=> TP!Init
    /\ Table!vars = TP!vars
    /\ Table!Next <=> TP!Next
<1>1. Table!Init <=> TP!Init
  BY SameTablePaths DEF Table!Init, TP!Init, Table!RootInode, TP!RootInode
<1>2. Table!vars = TP!vars
  BY DEF Table!vars, TP!vars
<1>3. \A p : Table!inode(p) <=> TP!inode(p)
  <2>1. UNCHANGED Table!vars <=> UNCHANGED TP!vars
    BY DEF Table!vars, TP!vars
  <2> QED
    BY <2>1, SameTablePaths DEF Table!inode, TP!inode
<1>4. \A p : Table!Remove(p) <=> TP!Remove(p)
  BY DEF Table!Remove, TP!Remove, Table!remove, TP!remove, Table!Root, TP!Root,
         Table!Subtree, TP!Subtree, Table!SubtreeInodes, TP!SubtreeInodes,
         Table!Under, TP!Under
<1>5. \A p, q : Table!Rename(p, q) <=> TP!Rename(p, q)
  BY SameTablePaths DEF Table!Rename, TP!Rename, Table!rename, TP!rename, Table!Root, TP!Root,
         Table!Subtree, TP!Subtree, Table!SubtreeInodes, TP!SubtreeInodes,
         Table!Under, TP!Under, Table!MayRename, TP!MayRename, Table!Nested, TP!Nested,
         Table!WithinDepth, TP!WithinDepth, Table!Rebase, TP!Rebase,
         Table!Suffix, TP!Suffix
<1> QED
  BY <1>1, <1>2, <1>3, <1>4, <1>5, SameTablePaths DEF Table!Next, TP!Next

\* The invariant of the table, while a call has hold of it.
LEMMA BeganBacked ==
    ASSUME TP!Inv, op # "idle"
    PROVE  /\ DOMAIN began.path \subseteq T!Path
           /\ \A p \in DOMAIN began.path :
                 began.path[p] \in DOMAIN began.inode /\ began.inode[began.path[p]] = p
<1>1. ShownMaps = began
  BY DEF ShownMaps
<1> QED
  BY <1>1, SameTablePaths DEF TP!Inv, TP!TypeOK, TP!PathEntriesBacked

\* A path has one number: the one who has it is the one who had it.
LEMMA BeganOnce ==
    ASSUME TP!Inv, op # "idle"
    PROVE  \A p, q \in DOMAIN began.path : began.path[p] = began.path[q] => p = q
  BY BeganBacked

\* Of two paths above a third one lies above the other.
LEMMA BothAbove ==
    ASSUME NEW p \in Seq(Name), NEW a \in Seq(Name), NEW b \in Seq(Name),
           T!Under(p, a), T!Under(p, b), Len(a) <= Len(b)
    PROVE  T!Under(b, a)
<1>1. /\ Len(a) \in Nat /\ Len(b) \in Nat /\ Len(b) <= Len(p) /\ Len(a) <= Len(p)
      /\ a = SubSeq(p, 1, Len(a)) /\ b = SubSeq(p, 1, Len(b))
  BY DEF T!Under
<1>2. \A k \in 1..Len(a) : a[k] = p[k]
  BY <1>1
<1>3. \A k \in 1..Len(b) : b[k] = p[k]
  BY <1>1
<1>4. \A k \in 1..Len(a) : SubSeq(b, 1, Len(a))[k] = b[k]
  BY <1>1
<1>5. SubSeq(b, 1, Len(a)) \in Seq(Name) /\ Len(SubSeq(b, 1, Len(a))) = Len(a)
  BY <1>1
<1>6. \A k \in 1..Len(a) : SubSeq(b, 1, Len(a))[k] = a[k]
  BY <1>1, <1>2, <1>3, <1>4
<1>7. SubSeq(b, 1, Len(a)) = a
  BY <1>5, <1>6, SeqEqual
<1> QED
  BY <1>7 DEF T!Under

\* What is moved comes back, and is not put where something is still to move.
LEMMA MovedAway ==
    ASSUME NEW from \in T!Path, NEW to \in T!Path, T!MayRename(from, to),
           NEW p \in T!Path, T!Under(p, from)
    PROVE  /\ T!Rebase(T!Rebase(p, from, to), to, from) = p
           /\ T!Rebase(p, from, to) \in T!Path => ~T!Under(T!Rebase(p, from, to), from)
<1>1. \A q \in T!Path : q \in Seq(Name)
  BY TableAssumption, SameTablePaths, TP!PathIsSeq
<1>2. TP!Under(p, from) /\ p \in Seq(Name) /\ from \in Seq(Name) /\ to \in Seq(Name)
  BY <1>1, SameTablePaths
<1>3. TP!Rebase(TP!Rebase(p, from, to), to, from) = p
  BY <1>2, TableAssumption, TP!RebaseAndBack
<1>4. TP!Suffix(p, from) \in Seq(Name)
  BY <1>2, TableAssumption, TP!UnderSplits
<1>5. T!Under(T!Rebase(p, from, to), to)
  <2>1. TP!Under(to \o TP!Suffix(p, from), to)
    BY <1>2, <1>4, TableAssumption, TP!JoinSplits
  <2>2. TP!Rebase(p, from, to) = to \o TP!Suffix(p, from)
    BY DEF TP!Rebase
  <2> QED
    BY <2>1, <2>2, SameTablePaths
<1>6. ASSUME T!Rebase(p, from, to) \in T!Path, T!Under(T!Rebase(p, from, to), from)
      PROVE  FALSE
  <2>1. T!Rebase(p, from, to) \in Seq(Name)
    BY <1>1, <1>6
  <2>2. Len(from) \in Nat /\ Len(to) \in Nat
    BY <1>2
  <2>3. T!Under(from, to) \/ T!Under(to, from)
    BY <1>2, <1>5, <1>6, <2>1, <2>2, BothAbove
  <2> QED
    BY <2>3 DEF T!MayRename, T!Nested
<1> QED
  BY <1>3, <1>6, SameTablePaths

\* A lookup is seen when it is made; nothing is seen of the rest of a call.
LEMMA LookupShown ==
    ASSUME TableLoops, NEW p \in T!Path, Lookup(p)
    PROVE  TableLoops' /\ Table!Next
<1>1. op = "idle" /\ op' = "idle" /\ T!inode(p)
  BY DEF Lookup
<1>2. /\ ShownMaps = [inode |-> by_inode, path |-> by_path]
      /\ ShownMaps' = [inode |-> by_inode', path |-> by_path']
  BY <1>1 DEF ShownMaps
<1>3. UNCHANGED T!vars <=> UNCHANGED Table!vars
  BY <1>2 DEF T!vars, Table!vars
<1>4. Table!inode(p)
  BY <1>1, <1>2, <1>3, SameTablePaths DEF T!inode, Table!inode
<1>5. TableLoops'
  BY <1>1 DEF TableLoops
<1> QED
  BY <1>4, <1>5, SameTablePaths DEF Table!Next

\* A call begins with all of what it has selected to be moved or removed.
LEMMA CollectReaches ==
    ASSUME TP!Inv, NEW kind \in {"rename", "remove"}, NEW from \in T!Path, NEW to \in T!Path,
           Collect(kind, from, to)
    PROVE  /\ op' = kind /\ args' = <<from, to>> /\ UNCHANGED Table!vars
           /\ Selected' = T!Subtree(from)
           /\ Reached({})'
<1>1. /\ op = "idle" /\ op' = kind /\ args' = <<from, to>>
      /\ todo' = {[path |-> p, inode |-> by_path[p]] : p \in T!Subtree(from)}
      /\ began' = [inode |-> by_inode, path |-> by_path]
      /\ next' = next /\ by_inode' = by_inode /\ by_path' = by_path
  BY DEF Collect, table
<1>2. ShownMaps = [inode |-> by_inode, path |-> by_path] /\ ShownMaps' = ShownMaps
  BY <1>1 DEF ShownMaps
<1>3. UNCHANGED Table!vars
  BY <1>1, <1>2 DEF Table!vars
<1>4. /\ by_inode = [i \in DOMAIN by_inode |-> by_inode[i]]
      /\ by_path = [p \in DOMAIN by_path |-> by_path[p]]
  BY <1>2 DEF TP!Inv, TP!TypeOK
<1>5. Selected' = T!Subtree(from)
  BY <1>1 DEF Selected, T!Subtree
<1>6. todo' = Moves(Selected \ {})'
  BY <1>1, <1>5 DEF Moves
<1>7. Places({})' = {} /\ Numbers({})' = {}
  BY DEF Places, Numbers
<1>8. by_path = PathsMoved({})' /\ by_path = PathsLeft({})'
  <2>1. began'.path = by_path /\ (DOMAIN by_path \ {}) \union {} = DOMAIN by_path
        /\ DOMAIN by_path \ {} = DOMAIN by_path
    BY <1>1
  <2>2. PathsMoved({})' = [q \in DOMAIN by_path |-> by_path[q]]
    BY <1>7, <2>1 DEF PathsMoved
  <2>3. PathsLeft({})' = [q \in DOMAIN by_path |-> by_path[q]]
    BY <2>1 DEF PathsLeft
  <2> QED
    BY <1>4, <2>2, <2>3
<1>9. by_inode = InodesMoved({})' /\ by_inode = InodesLeft({})'
  <2>1. began'.inode = by_inode /\ DOMAIN by_inode \union {} = DOMAIN by_inode
        /\ DOMAIN by_inode \ {} = DOMAIN by_inode
    BY <1>1
  <2>2. InodesMoved({})' = [i \in DOMAIN by_inode |-> by_inode[i]]
    BY <1>7, <2>1 DEF InodesMoved
  <2>3. InodesLeft({})' = [i \in DOMAIN by_inode |-> by_inode[i]]
    BY <1>7, <2>1 DEF InodesLeft
  <2> QED
    BY <1>4, <2>2, <2>3
<1>10. Reached({})'
  BY <1>1, <1>6, <1>8, <1>9 DEF Reached
<1> QED
  BY <1>1, <1>3, <1>5, <1>10

LEMMA BeginShown ==
    ASSUME TP!Inv, NEW from \in T!Path, NEW to \in T!Path,
           BeginRename(from, to) \/ (to = from /\ BeginRemove(from))
    PROVE  TableLoops' /\ UNCHANGED Table!vars
<1>1. CASE BeginRename(from, to)
  <2>1. T!MayRename(from, to) /\ T!WithinDepth(from, to) /\ Collect("rename", from, to)
    BY <1>1 DEF BeginRename
  <2>2. /\ op' = "rename" /\ args' = <<from, to>> /\ UNCHANGED Table!vars
        /\ Selected' = T!Subtree(from) /\ Reached({})'
    BY <2>1, CollectReaches
  <2>3. \A p \in Selected' : Moved(p)' \in T!Path
    BY <2>1, <2>2 DEF T!WithinDepth, Moved
  <2> QED
    BY <2>1, <2>2, <2>3 DEF TableLoops
<1>2. CASE to = from /\ BeginRemove(from)
  <2>1. from # T!Root /\ Collect("remove", from, from)
    BY <1>2 DEF BeginRemove
  <2>2. /\ op' = "remove" /\ args' = <<from, from>> /\ UNCHANGED Table!vars
        /\ Reached({})'
    BY <2>1, CollectReaches
  <2> QED
    BY <2>1, <2>2 DEF TableLoops
<1> QED
  BY <1>1, <1>2

\* Where the paths a rename has selected go, and that they come back.
LEMMA PlacesOfTheMoved ==
    ASSUME TP!Inv, TableLoops, op = "rename"
    PROVE  /\ \A r \in Selected : /\ r \in DOMAIN began.path
                                  /\ Moved(r) \notin Selected
                                  /\ T!Rebase(Moved(r), args[2], args[1]) = r
           /\ \A r, s \in Selected : Moved(r) = Moved(s) => r = s
<1>1. /\ args[1] \in T!Path /\ args[2] \in T!Path /\ T!MayRename(args[1], args[2])
      /\ \A r \in Selected : Moved(r) \in T!Path
  BY DEF TableLoops
<1>2. ASSUME NEW r \in Selected
      PROVE  /\ r \in DOMAIN began.path
             /\ Moved(r) \notin Selected
             /\ T!Rebase(Moved(r), args[2], args[1]) = r
  <2>1. r \in DOMAIN began.path /\ r \in T!Path /\ T!Under(r, args[1])
    BY BeganBacked DEF Selected
  <2>2. /\ T!Rebase(T!Rebase(r, args[1], args[2]), args[2], args[1]) = r
        /\ T!Rebase(r, args[1], args[2]) \in T!Path
              => ~T!Under(T!Rebase(r, args[1], args[2]), args[1])
    BY ONLY <1>1, <2>1, MovedAway, Zenon
  <2> QED
    BY <1>1, <2>1, <2>2 DEF Moved, Selected
<1> QED
  BY <1>2

\* Another path moves (inode.rs:51-55).
LEMMA MoveReaches ==
    ASSUME TP!Inv, TableLoops, MoveOne
    PROVE  TableLoops' /\ UNCHANGED Table!vars
<1>1. op = "rename" /\ op' = op /\ args' = args /\ began' = began /\ next' = next
  BY DEF MoveOne
<1>2. PICK m \in todo :
          /\ by_path' = T!Put(T!Drop(by_path, m.path), Moved(m.path), m.inode)
          /\ by_inode' = T!Put(by_inode, m.inode, Moved(m.path))
          /\ todo' = todo \ {m}
  BY DEF MoveOne, Moved
<1>3. PICK done \in SUBSET Selected : Reached(done)
  BY <1>1 DEF TableLoops
<1>4. PICK p \in Selected \ done : m = [path |-> p, inode |-> began.path[p]]
  BY <1>3 DEF Reached, Moves
<1>5. /\ \A r \in Selected : /\ r \in DOMAIN began.path
                             /\ Moved(r) \notin Selected
                             /\ T!Rebase(Moved(r), args[2], args[1]) = r
      /\ \A r, s \in Selected : Moved(r) = Moved(s) => r = s
  BY <1>1, PlacesOfTheMoved
<1>6. \A r, s \in DOMAIN began.path : began.path[r] = began.path[s] => r = s
  BY <1>1, BeganOnce
<1> DEFINE more == done \union {p}
<1>7. Places(more) = Places(done) \union {Moved(p)} /\ p \notin Places(done)
  BY <1>3, <1>4, <1>5 DEF Places
<1>8. Numbers(more) = Numbers(done) \union {began.path[p]}
  BY DEF Numbers
<1>9. by_path' = PathsMoved(more)
  <2>1. by_path = PathsMoved(done)
    BY <1>1, <1>3 DEF Reached
  <2>2. by_path' = [q \in (DOMAIN by_path \ {p}) \union {Moved(p)} |->
                      IF q = Moved(p) THEN began.path[p] ELSE by_path[q]]
    BY <1>2, <1>4 DEF T!Put, T!Drop
  <2>3. (DOMAIN by_path \ {p}) \union {Moved(p)} = (DOMAIN began.path \ more) \union Places(more)
    BY <1>7, <2>1 DEF PathsMoved
  <2>4. ASSUME NEW q \in (DOMAIN began.path \ more) \union Places(more)
        PROVE  (IF q = Moved(p) THEN began.path[p] ELSE by_path[q])
                 = (IF q \in Places(more) THEN began.path[T!Rebase(q, args[2], args[1])]
                                          ELSE began.path[q])
    <3>1. CASE q = Moved(p)
      BY <1>4, <1>5, <1>7, <3>1
    <3>2. CASE q # Moved(p)
      <4>1. (q \in Places(more) <=> q \in Places(done))
            /\ q \in (DOMAIN began.path \ done) \union Places(done)
        BY <1>7, <3>2
      <4> QED
        BY <2>1, <3>2, <4>1 DEF PathsMoved
    <3> QED
      BY <3>1, <3>2
  <2> HIDE DEF more
  <2> QED
    BY <2>2, <2>3, <2>4 DEF PathsMoved
<1>10. by_inode' = InodesMoved(more)
  <2>1. by_inode = InodesMoved(done)
    BY <1>1, <1>3 DEF Reached
  <2>2. by_inode' = [i \in DOMAIN by_inode \union {began.path[p]} |->
                       IF i = began.path[p] THEN Moved(p) ELSE by_inode[i]]
    BY <1>2, <1>4 DEF T!Put
  <2>3. DOMAIN by_inode \union {began.path[p]} = DOMAIN began.inode \union Numbers(more)
    BY <1>8, <2>1 DEF InodesMoved
  <2>4. \A i : \A s \in SUBSET Selected : \A r \in s :
           began.path[r] = i => (CHOOSE x \in s : began.path[x] = i) = r
    BY <1>5, <1>6
  <2>5. ASSUME NEW i \in DOMAIN began.inode \union Numbers(more)
        PROVE  (IF i = began.path[p] THEN Moved(p) ELSE by_inode[i])
                 = (IF i \in Numbers(more) THEN Moved(CHOOSE r \in more : began.path[r] = i)
                                           ELSE began.inode[i])
    <3>1. CASE i = began.path[p]
      <4>1. more \in SUBSET Selected /\ p \in more
        BY <1>3, <1>4
      <4>2. (CHOOSE r \in more : began.path[r] = i) = p
        BY <2>4, <3>1, <4>1
      <4> QED
        BY <1>8, <3>1, <4>2
    <3>2. CASE i # began.path[p] /\ i \in Numbers(done)
      <4>1. PICK r \in done : began.path[r] = i
        BY <3>2 DEF Numbers
      <4>2. more \in SUBSET Selected /\ r \in more /\ done \in SUBSET Selected
        BY <1>3, <1>4
      <4>3. (CHOOSE x \in more : began.path[x] = i) = r /\ (CHOOSE x \in done : began.path[x] = i) = r
        BY <2>4, <4>1, <4>2
      <4>4. by_inode[i] = Moved(CHOOSE x \in done : began.path[x] = i)
        BY <2>1, <3>2 DEF InodesMoved
      <4> QED
        BY <1>8, <3>2, <4>3, <4>4
    <3>3. CASE i # began.path[p] /\ i \notin Numbers(done)
      <4>1. i \notin Numbers(more) /\ i \in DOMAIN began.inode
        BY <1>8, <3>3
      <4> QED
        BY <2>1, <3>3, <4>1 DEF InodesMoved
    <3> QED
      BY <3>1, <3>2, <3>3
  <2> HIDE DEF more
  <2> QED
    BY <2>2, <2>3, <2>5 DEF InodesMoved
<1>11. todo' = Moves(Selected \ more)
  <2>1. todo = Moves(Selected \ done)
    BY <1>3 DEF Reached
  <2> QED
    BY <1>2, <1>4, <2>1 DEF Moves
<1>12. Selected' = Selected /\ \A r : Moved(r)' = Moved(r)
  BY <1>1 DEF Selected, Moved
<1>13. Reached(more)'
  <2>1. PathsMoved(more)' = PathsMoved(more) /\ InodesMoved(more)' = InodesMoved(more)
    BY <1>1 DEF PathsMoved, InodesMoved, Places, Numbers, Moved
  <2>2. Moves(Selected \ more)' = Moves(Selected \ more)
    BY <1>1, <1>12 DEF Moves
  <2>3. more \subseteq Selected'
    BY <1>3, <1>4, <1>12
  <2>4. op' # "remove"
    BY <1>1
  <2> HIDE DEF more
  <2> QED
    BY <1>9, <1>10, <1>11, <2>1, <2>2, <2>3, <2>4 DEF Reached
<1>14. TableLoops'
  <2>1. more \in SUBSET Selected'
    BY <1>3, <1>4, <1>12
  <2>2. /\ args'[1] \in T!Path /\ args'[2] \in T!Path
        /\ T!MayRename(args'[1], args'[2])
        /\ \A r \in Selected' : Moved(r)' \in T!Path
    BY <1>1, <1>12 DEF TableLoops
  <2> HIDE DEF more
  <2> QED
    BY <1>1, <1>13, <2>1, <2>2 DEF TableLoops
<1>15. UNCHANGED Table!vars
  BY <1>1 DEF Table!vars, ShownMaps
<1> QED
  BY <1>14, <1>15

\* Another path is removed (inode.rs:68-69).
LEMMA RemoveReaches ==
    ASSUME TP!Inv, TableLoops, RemoveOne
    PROVE  TableLoops' /\ UNCHANGED Table!vars
<1>1. op = "remove" /\ op' = op /\ args' = args /\ began' = began /\ next' = next
  BY DEF RemoveOne
<1>2. PICK m \in todo :
          /\ by_path' = T!Drop(by_path, m.path)
          /\ by_inode' = T!Drop(by_inode, m.inode)
          /\ todo' = todo \ {m}
  BY DEF RemoveOne
<1>3. PICK done \in SUBSET Selected : Reached(done)
  BY <1>1 DEF TableLoops
<1>4. PICK p \in Selected \ done : m = [path |-> p, inode |-> began.path[p]]
  BY <1>3 DEF Reached, Moves
<1> DEFINE more == done \union {p}
<1>5. by_path' = PathsLeft(more)
  <2>1. by_path = PathsLeft(done)
    BY <1>1, <1>3 DEF Reached
  <2> QED
    BY <1>2, <1>4, <2>1 DEF T!Drop, PathsLeft
<1>6. by_inode' = InodesLeft(more)
  <2>1. by_inode = InodesLeft(done)
    BY <1>1, <1>3 DEF Reached
  <2>2. Numbers(more) = Numbers(done) \union {began.path[p]}
    BY DEF Numbers
  <2> HIDE DEF more
  <2> QED
    BY <1>2, <1>4, <2>1, <2>2 DEF T!Drop, InodesLeft
<1>7. todo' = Moves(Selected \ more)
  <2>1. todo = Moves(Selected \ done)
    BY <1>3 DEF Reached
  <2> QED
    BY <1>2, <1>4, <2>1 DEF Moves
<1>8. Selected' = Selected
  BY <1>1 DEF Selected
<1>9. more \in SUBSET Selected'
  BY <1>3, <1>4, <1>8
<1>10. Reached(more)'
  <2>1. PathsLeft(more)' = PathsLeft(more) /\ InodesLeft(more)' = InodesLeft(more)
    BY <1>1 DEF PathsLeft, InodesLeft, Numbers
  <2>2. Moves(Selected \ more)' = Moves(Selected \ more)
    BY <1>1, <1>8 DEF Moves
  <2>3. op' # "rename"
    BY <1>1
  <2> HIDE DEF more
  <2> QED
    BY <1>5, <1>6, <1>7, <1>9, <2>1, <2>2, <2>3 DEF Reached
<1>11. TableLoops'
  <2>1. args'[1] \in T!Path /\ args'[2] \in T!Path /\ args'[1] # T!Root
    BY <1>1 DEF TableLoops
  <2> HIDE DEF more
  <2> QED
    BY <1>1, <1>9, <1>10, <2>1 DEF TableLoops
<1>12. UNCHANGED Table!vars
  BY <1>1 DEF Table!vars, ShownMaps
<1> QED
  BY <1>11, <1>12

\* When the loop has reached everything, the call has done what it was to do.
LEMMA FinishShows ==
    ASSUME TP!Inv, TableLoops, Finish
    PROVE  /\ TableLoops' /\ Table!Next
           /\ \/ op = "rename" /\ Table!Rename(args[1], args[2])
              \/ op = "remove" /\ Table!Remove(args[1])
<1>1. /\ op # "idle" /\ todo = {} /\ op' = "idle"
      /\ by_inode' = by_inode /\ by_path' = by_path /\ next' = next
  BY DEF Finish
<1>2. ShownMaps = began /\ ShownMaps'.inode = by_inode /\ ShownMaps'.path = by_path
  BY <1>1 DEF ShownMaps
<1>3. PICK done \in SUBSET Selected : Reached(done)
  BY <1>1 DEF TableLoops
<1>4. done = Selected
  BY <1>1, <1>3 DEF Reached, Moves
<1>5. /\ Table!Subtree(args[1]) = Selected
      /\ Table!SubtreeInodes(args[1]) = Numbers(Selected)
  BY <1>2, SameTablePaths DEF Table!Subtree, Table!SubtreeInodes, Selected, Numbers
<1>6. args[1] \in T!Path /\ args[2] \in T!Path
  BY <1>1 DEF TableLoops
<1>7. CASE op = "rename"
  <2>1. T!MayRename(args[1], args[2]) /\ \A p \in Selected : Moved(p) \in T!Path
    BY <1>7 DEF TableLoops
  <2>2. Table!MayRename(args[1], args[2]) /\ Table!WithinDepth(args[1], args[2])
    BY <1>5, <2>1, SameTablePaths DEF Table!WithinDepth, Moved
  <2>3. by_path = PathsMoved(Selected) /\ by_inode = InodesMoved(Selected)
    BY <1>3, <1>4, <1>7 DEF Reached
  <2>4. Places(Selected) = {Table!Rebase(p, args[1], args[2]) : p \in Selected}
    BY SameTablePaths DEF Places, Moved
  <2>5. ShownMaps'.path
           = [q \in (DOMAIN ShownMaps.path \ Selected) \union Places(Selected) |->
                IF q \in Places(Selected)
                THEN ShownMaps.path[Table!Rebase(q, args[2], args[1])] ELSE ShownMaps.path[q]]
    BY <1>2, <2>3, SameTablePaths DEF PathsMoved
  <2>6. ShownMaps'.inode
           = [i \in DOMAIN ShownMaps.inode \union Numbers(Selected) |->
                IF i \in Numbers(Selected)
                THEN Table!Rebase(CHOOSE p \in Selected : ShownMaps.path[p] = i, args[1], args[2])
                ELSE ShownMaps.inode[i]]
    BY <1>2, <2>3, SameTablePaths DEF InodesMoved, Moved
  <2>7. Table!rename(args[1], args[2])
    BY <1>1, <1>5, <2>4, <2>5, <2>6 DEF Table!rename
  <2>8. Table!Rename(args[1], args[2])
    BY <2>2, <2>7 DEF Table!Rename
  <2> QED
    BY <1>1, <1>6, <1>7, <2>8, SameTablePaths DEF Table!Next, TableLoops
<1>8. CASE op = "remove"
  <2>1. args[1] # T!Root
    BY <1>8 DEF TableLoops
  <2>2. by_path = PathsLeft(Selected) /\ by_inode = InodesLeft(Selected)
    BY <1>3, <1>4, <1>8 DEF Reached
  <2>3. Table!remove(args[1])
    BY <1>1, <1>2, <1>5, <2>2 DEF Table!remove, PathsLeft, InodesLeft
  <2>4. Table!Remove(args[1])
    BY <2>1, <2>3, SameTablePaths DEF Table!Remove
  <2> QED
    BY <1>1, <1>6, <1>8, <2>4, SameTablePaths DEF Table!Next, TableLoops
<1> QED
  BY <1>1, <1>7, <1>8 DEF TableLoops

\* Every step of the loops is a step of the table others see, or no step of it.
LEMMA LoopsStep ==
    ASSUME TP!Inv, TableLoops, [LoopsNext]_loopVars
    PROVE  /\ TableLoops'
           /\ [Table!Next]_(Table!vars)
           /\ op # op' /\ op' = "idle" =>
                 \/ op = "rename" /\ Table!Rename(args[1], args[2])
                 \/ op = "remove" /\ Table!Remove(args[1])
<1>1. ASSUME NEW p \in T!Path, Lookup(p)
      PROVE  TableLoops' /\ Table!Next /\ op' = op
  BY <1>1, LookupShown DEF Lookup
<1>2. ASSUME NEW from \in T!Path, NEW to \in T!Path, BeginRename(from, to)
      PROVE  TableLoops' /\ UNCHANGED Table!vars /\ op' # "idle"
  BY <1>2, BeginShown DEF BeginRename, Collect
<1>3. ASSUME NEW p \in T!Path, BeginRemove(p)
      PROVE  TableLoops' /\ UNCHANGED Table!vars /\ op' # "idle"
  BY <1>3, BeginShown DEF BeginRemove, Collect
<1>4. CASE MoveOne
  BY <1>4, MoveReaches DEF MoveOne
<1>5. CASE RemoveOne
  BY <1>5, RemoveReaches DEF RemoveOne
<1>6. CASE Finish
  BY <1>6, FinishShows
<1>7. CASE UNCHANGED loopVars
  <2>1. /\ op' = op /\ args' = args /\ todo' = todo /\ began' = began
        /\ next' = next /\ by_inode' = by_inode /\ by_path' = by_path
    BY <1>7 DEF loopVars
  <2>2. Selected' = Selected /\ \A r : Moved(r)' = Moved(r)
    BY <2>1 DEF Selected, Moved
  <2>3. \A done : Reached(done) => Reached(done)'
    BY <2>1, <2>2 DEF Reached, Moves, PathsMoved, InodesMoved, PathsLeft, InodesLeft,
                      Places, Numbers, Moved
  <2>4. TableLoops'
    BY <2>1, <2>2, <2>3 DEF TableLoops
  <2> QED
    BY <2>1, <2>4 DEF Table!vars, ShownMaps
<1> QED
  BY <1>1, <1>2, <1>3, <1>4, <1>5, <1>6, <1>7 DEF LoopsNext

(***************************************************************************)
(* InodeTable::rename and ::remove, whose loops visit what they selected   *)
(* in the order in which a HashMap iterates, do what InodeTable says they  *)
(* do in one step: no order matters, no path is moved onto one that the    *)
(* loop has still to reach, and no number is lost (inode.rs:42-71).        *)
(***************************************************************************)
THEOREM LoopsAreSteps == LoopsSpec => ImplementsTable
<1>1. LoopsInit => Table!Init /\ TP!Inv /\ TableLoops
  <2> SUFFICES ASSUME LoopsInit PROVE Table!Init /\ TP!Inv /\ TableLoops
    OBVIOUS
  <2>1. ShownMaps.inode = by_inode /\ ShownMaps.path = by_path
    BY DEF LoopsInit, ShownMaps
  <2>2. Table!Init
    BY <2>1, SameTablePaths DEF LoopsInit, T!Init, Table!Init, T!RootInode, Table!RootInode
  <2>3. TP!Inv
    BY <2>2, SameShownTable, TableAssumption, TP!InitInv
  <2> QED
    BY <2>2, <2>3 DEF LoopsInit, TableLoops
<1>2. TP!Inv /\ TableLoops /\ [LoopsNext]_loopVars => TP!Inv' /\ TableLoops'
  <2> SUFFICES ASSUME TP!Inv, TableLoops, [LoopsNext]_loopVars
               PROVE  TP!Inv' /\ TableLoops'
    OBVIOUS
  <2>1. TableLoops' /\ [Table!Next]_(Table!vars)
    BY LoopsStep
  <2>2. [TP!Next]_(TP!vars)
    BY <2>1, SameShownTable DEF Table!vars, TP!vars
  <2> QED
    BY <2>1, <2>2, TableAssumption, TP!NextInv
<1>3. TP!Inv /\ TableLoops /\ [LoopsNext]_loopVars
        => /\ [Table!Next]_(Table!vars)
           /\ [op # op' /\ op' = "idle" =>
                 \/ op = "rename" /\ Table!Rename(args[1], args[2])
                 \/ op = "remove" /\ Table!Remove(args[1])]_loopVars
  BY LoopsStep
<1> QED
  BY <1>1, <1>2, <1>3, PTL DEF LoopsSpec, ImplementsTable, Table!Spec
===============================================================================
