---------------------------- MODULE WireProofs ----------------------------
(***************************************************************************)
(* A conversation with a provider, for any calls, any number of pieces and *)
(* of rounds: what the provider answers is the history, and the reply that *)
(* joins the history is what was streamed.                                 *)
(***************************************************************************)
EXTENDS Wire, Positions, SequenceTheorems, TLAPS

(* Flattening a sequence of sequences, as a function of how many of them   *)
(* are joined.                                                             *)
FlatOver(ss, g, k) == g = [n \in 0..k |-> IF n = 0 THEN <<>> ELSE g[n - 1] \o ss[n]]

(* There is such a function for every sequence.                            *)
LEMMA FlatExists ==
  ASSUME NEW ss, NEW k \in Nat
  PROVE  \E g : FlatOver(ss, g, k)
<1> DEFINE S == {j \in 0..k : \E g : FlatOver(ss, g, j)}
<1>1. 0 \in S
  <2>1. FlatOver(ss, [n \in 0..0 |-> <<>>], 0)
    BY DEF FlatOver
  <2> QED
    BY <2>1
<1>2. ASSUME NEW j \in 0..k, j \in S, j < k PROVE j + 1 \in S
  <2>1. PICK g : FlatOver(ss, g, j)
    BY <1>2
  <2> DEFINE h == [n \in 0..(j + 1) |-> IF n = 0 THEN <<>> ELSE g[n - 1] \o ss[n]]
  <2>2. \A n \in 0..j : h[n] = g[n]
    BY <2>1 DEF FlatOver
  <2>3. \A n \in 0..(j + 1) : n # 0 => n - 1 \in 0..j
    OBVIOUS
  <2>4. FlatOver(ss, h, j + 1)
    <3>1. \A n \in 0..(j + 1) : n # 0 => h[n - 1] = g[n - 1]
      BY <2>2, <2>3
    <3>2. h = [n \in 0..(j + 1) |-> IF n = 0 THEN <<>> ELSE h[n - 1] \o ss[n]]
      BY <3>1
    <3> QED
      BY <3>2 DEF FlatOver
  <2> HIDE DEF h
  <2>5. j + 1 \in 0..k
    BY <1>2
  <2> QED
    BY <2>4, <2>5
<1> HIDE DEF S
<1>3. k \in S
  BY <1>1, <1>2, Upwards
<1> QED
  BY <1>3 DEF S

(* Its values are sequences of the same members, one longer each time.     *)
LEMMA FlatSteps ==
  ASSUME NEW X, NEW ss \in Seq(Seq(X)), NEW g, FlatOver(ss, g, Len(ss))
  PROVE  /\ g[0] = <<>>
         /\ \A n \in 0..Len(ss) : g[n] \in Seq(X)
         /\ \A n \in 0..Len(ss) : n < Len(ss) => g[n + 1] = g[n] \o ss[n + 1]
<1>1. Len(ss) \in Nat /\ \A n \in 1..Len(ss) : ss[n] \in Seq(X)
  OBVIOUS
<1>2. g[0] = <<>>
  BY <1>1 DEF FlatOver
<1>3. \A n \in 0..Len(ss) : n < Len(ss) => g[n + 1] = g[n] \o ss[n + 1]
  <2> SUFFICES ASSUME NEW n \in 0..Len(ss), n < Len(ss) PROVE g[n + 1] = g[n] \o ss[n + 1]
    OBVIOUS
  <2>1. n + 1 \in 0..Len(ss) /\ n + 1 # 0 /\ (n + 1) - 1 = n
    BY <1>1
  <2> QED
    BY <2>1 DEF FlatOver
<1> DEFINE S == {n \in 0..Len(ss) : g[n] \in Seq(X)}
<1>4. 0 \in S
  <2>1. <<>> \in Seq(X) /\ 0 \in 0..Len(ss)
    BY <1>1
  <2> QED
    BY <1>2, <2>1
<1>5. ASSUME NEW n \in 0..Len(ss), n \in S, n < Len(ss) PROVE n + 1 \in S
  <2>1. n + 1 \in 1..Len(ss) /\ n + 1 \in 0..Len(ss)
    BY <1>1, <1>5
  <2>2. g[n + 1] = g[n] \o ss[n + 1] /\ g[n] \in Seq(X) /\ ss[n + 1] \in Seq(X)
    BY <1>1, <1>3, <1>5, <2>1
  <2>3. g[n + 1] \in Seq(X)
    BY <2>2
  <2> QED
    BY <2>1, <2>3
<1> HIDE DEF S
<1>6. \A n \in 0..Len(ss) : n \in S
  BY <1>1, <1>4, <1>5, Upwards
<1> QED
  BY <1>2, <1>3, <1>6 DEF S

(* FlattenSeq is its last value.                                           *)
LEMMA Flattened ==
  ASSUME NEW X, NEW ss \in Seq(Seq(X)), NEW g, FlatOver(ss, g, Len(ss))
  PROVE  FlattenSeq(ss) = g[Len(ss)]
<1>1. Len(ss) \in Nat
  OBVIOUS
<1>2. CASE Len(ss) = 0
  <2>1. ss = <<>>
    BY <1>2
  <2> QED
    BY <1>2, <2>1, FlatSteps DEF FlattenSeq
<1>3. CASE Len(ss) # 0
  <2> DEFINE L(f) == f = [i \in 1..Len(ss) |-> IF i = 1 THEN ss[i] ELSE f[i - 1] \o ss[i]]
             f == CHOOSE f : L(f)
             S == {n \in 0..Len(ss) : n # 0 => f[n] = g[n]}
  <2>1. FlattenSeq(ss) = f[Len(ss)]
    BY <1>3 DEF FlattenSeq
  <2>2. g[1] = ss[1]
    <3>1. 0 \in 0..Len(ss) /\ 0 < Len(ss) /\ 0 + 1 = 1 /\ ss[1] \in Seq(X)
      BY <1>1, <1>3
    <3>2. g[0 + 1] = g[0] \o ss[0 + 1] /\ g[0] = <<>>
      BY <3>1, FlatSteps
    <3> QED
      BY <3>1, <3>2, ConcatEmptySeq
  <2>3. \E e : L(e)
    <3> DEFINE e == [i \in 1..Len(ss) |-> g[i]]
    <3>1. ASSUME NEW i \in 1..Len(ss), i # 1 PROVE g[i] = e[i - 1] \o ss[i]
      <4>1. i - 1 \in 0..Len(ss) /\ i - 1 \in 1..Len(ss) /\ i - 1 < Len(ss) /\ (i - 1) + 1 = i
        BY <1>1, <3>1
      <4>2. g[(i - 1) + 1] = g[i - 1] \o ss[(i - 1) + 1]
        BY <4>1, FlatSteps
      <4> QED
        BY <4>1, <4>2
    <3>2. L(e)
      BY <2>2, <3>1
    <3> HIDE DEF e, L
    <3> QED
      BY <3>2
  <2>4. L(f)
    <3> HIDE DEF L
    <3> QED
      BY <2>3
  <2> HIDE DEF f
  <2>5. ASSUME NEW n \in 0..Len(ss), n \in S, n < Len(ss) PROVE n + 1 \in S
    <3>1. n + 1 \in 1..Len(ss) /\ n + 1 \in 0..Len(ss) /\ (n + 1) - 1 = n
      <4> HIDE DEF S
      <4> QED
        BY <1>1, <2>5
    <3>2. CASE n = 0
      <4>1. f[1] = ss[1]
        BY <2>4, <3>1, <3>2
      <4> QED
        BY <2>2, <3>1, <3>2, <4>1
    <3>3. CASE n # 0
      <4>1. f[n + 1] = f[n] \o ss[n + 1]
        <5>1. n + 1 # 1
          BY <3>3
        <5> QED
          BY <2>4, <3>1, <5>1
      <4>2. g[n + 1] = g[n] \o ss[n + 1]
        BY <2>5, FlatSteps
      <4> QED
        BY <2>5, <3>1, <3>3, <4>1, <4>2
    <3> QED
      BY <3>2, <3>3
  <2>6. 0 \in S
    BY <1>1
  <2> HIDE DEF S
  <2>7. \A n \in 0..Len(ss) : n \in S
    BY <1>1, <2>5, <2>6, Upwards
  <2>8. Len(ss) \in S
    BY <1>1, <2>7
  <2> QED
    BY <1>3, <2>1, <2>8 DEF S
<1> QED
  BY <1>2, <1>3

(* Sequences that begin alike are flattened alike so far.                  *)
LEMMA FlatAlike ==
  ASSUME NEW X, NEW ss \in Seq(Seq(X)), NEW ts \in Seq(Seq(X)), NEW g, NEW h,
         FlatOver(ss, g, Len(ss)), FlatOver(ts, h, Len(ts)),
         NEW m \in Nat, m <= Len(ss), m <= Len(ts), \A k \in 1..m : ss[k] = ts[k]
  PROVE  g[m] = h[m]
<1>1. Len(ss) \in Nat /\ Len(ts) \in Nat
  OBVIOUS
<1> DEFINE S == {n \in 0..m : g[n] = h[n]}
<1>2. 0 \in S
  <2>1. g[0] = <<>>
    BY FlatSteps
  <2>2. h[0] = <<>>
    BY FlatSteps
  <2> QED
    BY <2>1, <2>2
<1>3. ASSUME NEW n \in 0..m, n \in S, n < m PROVE n + 1 \in S
  <2>1. /\ n + 1 \in 1..m /\ n + 1 \in 0..m /\ n \in 0..Len(ss) /\ n < Len(ss)
        /\ n \in 0..Len(ts) /\ n < Len(ts)
    BY <1>1, <1>3
  <2>2. g[n + 1] = g[n] \o ss[n + 1]
    BY <2>1, FlatSteps, ZenonT(30)
  <2>3. h[n + 1] = h[n] \o ts[n + 1]
    BY <2>1, FlatSteps, ZenonT(30)
  <2> QED
    BY <1>3, <2>1, <2>2, <2>3
<1> HIDE DEF S
<1>4. \A n \in 0..m : n \in S
  BY <1>2, <1>3, Upwards
<1>5. m \in S
  BY <1>4
<1> QED
  BY <1>5 DEF S

(* What is flattened is a sequence, and one more is appended as a whole.   *)
LEMMA FlatAppended ==
  ASSUME NEW X, NEW ss \in Seq(Seq(X)), NEW x \in Seq(X)
  PROVE  /\ FlattenSeq(ss) \in Seq(X)
         /\ FlattenSeq(Append(ss, x)) = FlattenSeq(ss) \o x
<1> DEFINE ts == Append(ss, x)
<1>1. /\ Len(ss) \in Nat /\ ts \in Seq(Seq(X)) /\ Len(ts) \in Nat
      /\ Len(ts) = Len(ss) + 1 /\ ts[Len(ss) + 1] = x
      /\ \A k \in 1..Len(ss) : ss[k] = ts[k]
  OBVIOUS
<1> HIDE DEF ts
<1>2. PICK g : FlatOver(ss, g, Len(ss))
  BY <1>1, FlatExists
<1>3. PICK h : FlatOver(ts, h, Len(ts))
  BY <1>1, FlatExists
<1>4. g[Len(ss)] = h[Len(ss)]
  <2>1. /\ Len(ss) \in Nat /\ Len(ss) <= Len(ss) /\ Len(ss) <= Len(ts) /\ ts \in Seq(Seq(X))
        /\ \A k \in 1..Len(ss) : ss[k] = ts[k]
    BY <1>1
  <2>2. PICK m : m = Len(ss)
    OBVIOUS
  <2>3. m \in Nat /\ m <= Len(ss) /\ m <= Len(ts)
    BY <2>1, <2>2
  <2>4. \A k \in 1..m : ss[k] = ts[k]
    BY <2>1, <2>2
  <2>5. g[m] = h[m]
    BY <1>2, <1>3, <2>1, <2>3, <2>4, FlatAlike
  <2> QED
    BY <2>2, <2>5
<1>5. Len(ss) \in 0..Len(ts) /\ Len(ss) < Len(ts) /\ Len(ss) \in 0..Len(ss)
  BY <1>1
<1>6. h[Len(ss) + 1] = h[Len(ss)] \o ts[Len(ss) + 1]
  BY <1>1, <1>3, <1>5, FlatSteps
<1>7. FlattenSeq(ss) = g[Len(ss)] /\ FlattenSeq(ts) = h[Len(ts)] /\ g[Len(ss)] \in Seq(X)
  BY <1>1, <1>2, <1>3, <1>5, Flattened, FlatSteps
<1> QED
  BY <1>1, <1>4, <1>6, <1>7 DEF ts

(* Nothing flattened is nothing.                                           *)
LEMMA FlatEmpty == FlattenSeq(<<>>) = <<>>
  BY DEF FlattenSeq

(* Flattening two sequences one after the other.                           *)
LEMMA FlatJoined ==
  ASSUME NEW X, NEW s \in Seq(Seq(X)), NEW t \in Seq(Seq(X))
  PROVE  FlattenSeq(s \o t) = FlattenSeq(s) \o FlattenSeq(t)
<1> DEFINE u == s \o t
<1>1. /\ Len(s) \in Nat /\ Len(t) \in Nat /\ u \in Seq(Seq(X))
      /\ Len(u) \in Nat /\ Len(u) = Len(s) + Len(t)
      /\ \A k \in 1..Len(s) : s[k] = u[k]
      /\ \A k \in 1..Len(t) : u[Len(s) + k] = t[k]
  OBVIOUS
<1> HIDE DEF u
<1>2. PICK f : FlatOver(s, f, Len(s))
  BY <1>1, FlatExists
<1>3. PICK g : FlatOver(t, g, Len(t))
  BY <1>1, FlatExists
<1>4. PICK h : FlatOver(u, h, Len(u))
  BY <1>1, FlatExists
<1>5. /\ FlattenSeq(s) = f[Len(s)] /\ FlattenSeq(t) = g[Len(t)] /\ FlattenSeq(u) = h[Len(u)]
      /\ f[Len(s)] \in Seq(X) /\ g[0] = <<>>
      /\ \A n \in 0..Len(t) : g[n] \in Seq(X)
  <2>1. Len(s) \in 0..Len(s)
    BY <1>1
  <2> QED
    BY <1>1, <1>2, <1>3, <1>4, <2>1, Flattened, FlatSteps
<1> DEFINE S == {n \in 0..Len(t) : h[Len(s) + n] = f[Len(s)] \o g[n]}
<1>6. 0 \in S
  <2>1. f[Len(s)] = h[Len(s)]
    <3>1. /\ Len(s) \in Nat /\ Len(s) <= Len(s) /\ Len(s) <= Len(u) /\ u \in Seq(Seq(X))
          /\ \A k \in 1..Len(s) : s[k] = u[k]
      BY <1>1
    <3> QED
      BY <1>2, <1>4, <3>1, FlatAlike
  <2>2. f[Len(s)] \o g[0] = f[Len(s)]
    BY <1>5, ConcatEmptySeq
  <2>3. Len(s) + 0 = Len(s) /\ 0 \in 0..Len(t)
    BY <1>1
  <2> QED
    BY <2>1, <2>2, <2>3
<1>7. ASSUME NEW n \in 0..Len(t), n \in S, n < Len(t) PROVE n + 1 \in S
  <2>1. /\ n + 1 \in 0..Len(t) /\ n + 1 \in 1..Len(t)
        /\ Len(s) + n \in 0..Len(u) /\ Len(s) + n < Len(u) /\ (Len(s) + n) + 1 = Len(s) + (n + 1)
    BY <1>1, <1>7
  <2>0. h[Len(s) + n] = f[Len(s)] \o g[n]
    BY <1>7
  <2> HIDE DEF S
  <2>2. h[Len(s) + (n + 1)] = h[Len(s) + n] \o u[Len(s) + (n + 1)]
    <3>1. \A j \in 0..Len(u) : j < Len(u) => h[j + 1] = h[j] \o u[j + 1]
      <4>1. u \in Seq(Seq(X)) /\ FlatOver(u, h, Len(u))
        BY <1>1, <1>4
      <4> QED
        BY <4>1, FlatSteps, ZenonT(30)
    <3>2. h[(Len(s) + n) + 1] = h[Len(s) + n] \o u[(Len(s) + n) + 1]
      BY <2>1, <3>1
    <3> QED
      BY <2>1, <3>2
  <2>3. g[n + 1] = g[n] \o t[n + 1]
    <3>1. \A j \in 0..Len(t) : j < Len(t) => g[j + 1] = g[j] \o t[j + 1]
      BY <1>3, FlatSteps, ZenonT(30)
    <3> QED
      BY <1>7, <3>1
  <2>4. u[Len(s) + (n + 1)] = t[n + 1] /\ t[n + 1] \in Seq(X)
    <3>1. t[n + 1] \in Seq(X)
      BY <2>1
    <3> QED
      BY <1>1, <2>1, <3>1
  <2>5. (f[Len(s)] \o g[n]) \o t[n + 1] = f[Len(s)] \o (g[n] \o t[n + 1])
    <3>1. PICK p, q, r : p = f[Len(s)] /\ q = g[n] /\ r = t[n + 1]
      OBVIOUS
    <3>2. p \in Seq(X) /\ q \in Seq(X) /\ r \in Seq(X)
      BY <1>5, <2>4, <3>1
    <3>3. (p \o q) \o r = p \o (q \o r)
      BY <3>2, ConcatAssociative, SMTT(40)
    <3> QED
      BY <3>1, <3>3
  <2>6. h[Len(s) + (n + 1)] = f[Len(s)] \o g[n + 1]
    BY <2>0, <2>2, <2>3, <2>4, <2>5
  <2> QED
    BY <2>1, <2>6 DEF S
<1> HIDE DEF S
<1>8. Len(t) \in S
  <2>1. \A n \in 0..Len(t) : n \in S
    BY <1>1, <1>6, <1>7, Upwards
  <2> QED
    BY <1>1, <2>1
<1> QED
  BY <1>1, <1>5, <1>8 DEF S, u

(* The messages of flattened items are the flattened messages.             *)
LEMMA FlatTold ==
  ASSUME NEW X, NEW Y, NEW ss \in Seq(Seq(X)), NEW ts \in Seq(Seq(Y)), Len(ts) = Len(ss),
         \A n \in 1..Len(ss) : /\ Len(ts[n]) = Len(ss[n])
                               /\ \A k \in 1..Len(ss[n]) : ts[n][k] = ss[n][k].message
  PROVE  [i \in DOMAIN FlattenSeq(ss) |-> FlattenSeq(ss)[i].message] = FlattenSeq(ts)
<1>1. Len(ss) \in Nat
  OBVIOUS
<1>2. PICK g : FlatOver(ss, g, Len(ss))
  BY <1>1, FlatExists
<1>3. PICK h : FlatOver(ts, h, Len(ts))
  BY <1>1, FlatExists
<1> DEFINE Told(n) == /\ Len(h[n]) = Len(g[n])
                      /\ \A i \in 1..Len(g[n]) : h[n][i] = g[n][i].message
           S == {n \in 0..Len(ss) : Told(n)}
<1>4. 0 \in S
  <2>1. g[0] = <<>> /\ h[0] = <<>>
    BY <1>2, <1>3, FlatSteps
  <2> QED
    BY <1>1, <2>1
<1>5. ASSUME NEW n \in 0..Len(ss), n \in S, n < Len(ss) PROVE n + 1 \in S
  <2>1. n + 1 \in 1..Len(ss) /\ n + 1 \in 0..Len(ss)
    BY <1>1, <1>5
  <2>2. PICK a : a = g[n]
    OBVIOUS
  <2>3. PICK b : b = ss[n + 1]
    OBVIOUS
  <2>4. PICK c : c = h[n]
    OBVIOUS
  <2>5. PICK d : d = ts[n + 1]
    OBVIOUS
  <2>6. /\ a \in Seq(X) /\ b \in Seq(X) /\ c \in Seq(Y) /\ d \in Seq(Y)
        /\ g[n + 1] = a \o b /\ h[n + 1] = c \o d
    <3>1. g[n] \in Seq(X) /\ g[n + 1] = g[n] \o ss[n + 1]
      BY <1>2, <1>5, FlatSteps, ZenonT(30)
    <3>2. n \in 0..Len(ts) /\ n < Len(ts)
      BY <1>5
    <3>3. h[n] \in Seq(Y) /\ h[n + 1] = h[n] \o ts[n + 1]
      BY <1>3, <3>2, FlatSteps, ZenonT(30)
    <3>4. ss[n + 1] \in Seq(X) /\ ts[n + 1] \in Seq(Y)
      BY <2>1
    <3> QED
      BY <2>2, <2>3, <2>4, <2>5, <3>1, <3>3, <3>4
  <2>7. /\ Len(c) = Len(a) /\ Len(d) = Len(b)
        /\ \A i \in 1..Len(a) : c[i] = a[i].message
        /\ \A i \in 1..Len(b) : d[i] = b[i].message
    BY <1>5, <2>1, <2>2, <2>3, <2>4, <2>5
  <2>8. /\ Len(a) \in Nat /\ Len(b) \in Nat
        /\ Len(a \o b) = Len(a) + Len(b) /\ Len(c \o d) = Len(c) + Len(d)
        /\ \A i \in 1..(Len(a) + Len(b)) : (a \o b)[i] = IF i <= Len(a) THEN a[i] ELSE b[i - Len(a)]
        /\ \A i \in 1..(Len(c) + Len(d)) : (c \o d)[i] = IF i <= Len(c) THEN c[i] ELSE d[i - Len(c)]
    BY <2>6, ConcatProperties
  <2>9. ASSUME NEW i \in 1..(Len(a) + Len(b)) PROVE (c \o d)[i] = (a \o b)[i].message
    <3>1. CASE i <= Len(a)
      <4>1. i \in 1..Len(a)
        BY <2>8, <3>1
      <4> QED
        BY <2>7, <2>8, <3>1, <4>1
    <3>2. CASE i > Len(a)
      <4>1. i - Len(a) \in 1..Len(b) /\ ~(i <= Len(a))
        BY <2>8, <3>2
      <4>2. (a \o b)[i] = b[i - Len(a)]
        BY <2>8, <4>1
      <4>3. (c \o d)[i] = d[i - Len(a)]
        BY <2>7, <2>8, <4>1
      <4> QED
        BY <2>7, <4>1, <4>2, <4>3
    <3>3. i <= Len(a) \/ i > Len(a)
      BY <2>8
    <3> QED
      BY <3>1, <3>2, <3>3
  <2>10. Told(n + 1)
    BY <2>6, <2>7, <2>8, <2>9
  <2> HIDE DEF Told
  <2> QED
    BY <2>1, <2>10
<1> HIDE DEF S
<1>6. \A n \in 0..Len(ss) : n \in S
  BY <1>1, <1>4, <1>5, Upwards
<1>7. Told(Len(ss)) /\ g[Len(ss)] \in Seq(X) /\ h[Len(ss)] \in Seq(Y)
  <2>1. Len(ss) \in 0..Len(ss)
    BY <1>1
  <2>2. Told(Len(ss))
    BY <1>6, <2>1 DEF S
  <2> HIDE DEF Told
  <2> QED
    BY <1>2, <1>3, <2>1, <2>2, FlatSteps
<1>8. FlattenSeq(ss) = g[Len(ss)] /\ FlattenSeq(ts) = h[Len(ss)]
  BY <1>2, <1>3, Flattened
<1>9. PICK a : a = g[Len(ss)]
  OBVIOUS
<1>10. PICK c : c = h[Len(ss)]
  OBVIOUS
<1>11. /\ a \in Seq(X) /\ c \in Seq(Y) /\ Len(c) = Len(a)
       /\ \A i \in 1..Len(a) : c[i] = a[i].message
  BY <1>7, <1>9, <1>10
<1>12. DOMAIN a = 1..Len(a) /\ c = [i \in 1..Len(a) |-> c[i]]
  BY <1>11
<1>13. [i \in DOMAIN a |-> a[i].message] = c
  BY <1>11, <1>12
<1> QED
  BY <1>8, <1>9, <1>10, <1>13

(* What is flattened is still there.                                       *)
LEMMA FlatHas ==
  ASSUME NEW X, NEW ss \in Seq(Seq(X)), NEW m \in 1..Len(ss)
  PROVE  ToSet(ss[m]) \subseteq ToSet(FlattenSeq(ss))
<1>1. Len(ss) \in Nat /\ ss[m] \in Seq(X)
  OBVIOUS
<1>2. PICK g : FlatOver(ss, g, Len(ss))
  BY <1>1, FlatExists
<1> DEFINE S == {n \in 0..Len(ss) : n >= m => ToSet(ss[m]) \subseteq ToSet(g[n])}
<1>3. 0 \in S
  BY <1>1
<1>4. ASSUME NEW n \in 0..Len(ss), n \in S, n < Len(ss) PROVE n + 1 \in S
  <2>1. n + 1 \in 1..Len(ss) /\ n + 1 \in 0..Len(ss)
    BY <1>1, <1>4
  <2>2. PICK a : a = g[n]
    OBVIOUS
  <2>3. PICK b : b = ss[n + 1]
    OBVIOUS
  <2>4. a \in Seq(X) /\ b \in Seq(X) /\ g[n + 1] = a \o b
    <3>1. g[n] \in Seq(X) /\ g[n + 1] = g[n] \o ss[n + 1]
      BY <1>2, <1>4, FlatSteps
    <3>2. ss[n + 1] \in Seq(X)
      BY <2>1
    <3> QED
      BY <2>2, <2>3, <3>1, <3>2
  <2>5. ToSet(a) \subseteq ToSet(a \o b) /\ ToSet(b) \subseteq ToSet(a \o b)
    <3>1. /\ Len(a) \in Nat /\ Len(b) \in Nat /\ DOMAIN a = 1..Len(a) /\ DOMAIN b = 1..Len(b)
          /\ DOMAIN (a \o b) = 1..(Len(a) + Len(b))
          /\ \A i \in 1..Len(a) : (a \o b)[i] = a[i]
          /\ \A i \in 1..Len(b) : (a \o b)[Len(a) + i] = b[i]
      BY <2>4
    <3>2. \A i \in 1..Len(a) : i \in 1..(Len(a) + Len(b))
      BY <3>1
    <3>3. \A i \in 1..Len(b) : Len(a) + i \in 1..(Len(a) + Len(b))
      BY <3>1
    <3> QED
      BY <3>1, <3>2, <3>3 DEF ToSet
  <2>6. CASE n >= m
    BY <1>4, <2>1, <2>2, <2>4, <2>5, <2>6
  <2>7. CASE ~(n >= m)
    <3>1. n + 1 >= m => n + 1 = m
      BY <2>1, <2>7
    <3> QED
      BY <2>1, <2>3, <2>4, <2>5, <3>1
  <2> QED
    BY <2>6, <2>7
<1> HIDE DEF S
<1>5. \A n \in 0..Len(ss) : n \in S
  BY <1>1, <1>3, <1>4, Upwards
<1>6. Len(ss) \in S /\ Len(ss) >= m
  BY <1>1, <1>5
<1> QED
  BY <1>2, <1>6, Flattened DEF S

-----------------------------------------------------------------------------
(* The messages and their items, the blocks of a reply, the reply that is  *)
(* being assembled, and what of each call was streamed.                    *)
Messages == [id : Nat, role : {"user", "assistant", "context"}, calls : Seq(Calls), response : Nat]
Items == [message : Nat, kind : {"text", "call", "result"}, call : Calls \cup {""}]
Answers == [call : Calls \cup {""}, said : Seq(Nat)]
Assemblies == [content : Seq(Answers), text : Seq(Nat), meta : SUBSET Calls,
            inputs : [Calls -> Seq(Nat)]]
Streams == [Calls -> [sent : Nat, state : {"unsent", "open", "over"}]]

(* The items of a message, in either order: as many as its text and calls, *)
(* all of them its own.                                                    *)
LEMMA ItemsOf ==
  ASSUME NEW m \in Messages
  PROVE  /\ TextFirst(m) \in Seq(Items)
         /\ \A k \in 1..Len(TextFirst(m)) : TextFirst(m)[k].message = m.id
         /\ ResultsFirst(m) \in Seq(Items)
         /\ Len(ResultsFirst(m)) = Len(TextFirst(m))
         /\ \A k \in 1..Len(TextFirst(m)) : ResultsFirst(m)[k].message = m.id
         /\ ToSet(TextFirst(m)) \subseteq ToSet(ResultsFirst(m))
<1>1. /\ m.id \in Nat /\ m.calls \in Seq(Calls) /\ Len(m.calls) \in Nat
      /\ DOMAIN m.calls = 1..Len(m.calls)
  BY DEF Messages
<1>2. PICK a : a = TextOf(m)
  OBVIOUS
<1>3. PICK b : b = CallItems(m)
  OBVIOUS
<1>4. /\ a \in Seq(Items) /\ Len(a) \in Nat /\ DOMAIN a = 1..Len(a)
      /\ \A k \in 1..Len(a) : a[k].message = m.id
  <2>1. CASE m.calls = <<>> \/ m.role = "assistant"
    <3>1. a = <<Item(m, "text", "")>> /\ Item(m, "text", "") \in Items
      BY <1>1, <1>2, <2>1 DEF TextOf, Item, Items
    <3>2. PICK x \in Items : x = Item(m, "text", "") /\ x.message = m.id
      BY <3>1 DEF Item
    <3>3. a = <<x>>
      BY <3>1, <3>2
    <3>4. a \in Seq(Items) /\ Len(a) = 1 /\ a[1] = x
      BY <3>3
    <3>5. Len(a) \in Nat /\ DOMAIN a = 1..Len(a)
      BY <3>4
    <3>6. \A k \in 1..Len(a) : k = 1
      BY <3>4
    <3>7. \A k \in 1..Len(a) : a[k].message = m.id
      BY <3>2, <3>4, <3>6
    <3> QED
      BY <3>4, <3>5, <3>7
  <2>2. CASE ~(m.calls = <<>> \/ m.role = "assistant")
    <3>1. a = <<>>
      BY <1>2, <2>2 DEF TextOf
    <3> QED
      BY <3>1
  <2> QED
    BY <2>1, <2>2
<1>5. /\ b \in Seq(Items) /\ Len(b) \in Nat /\ DOMAIN b = 1..Len(b)
      /\ \A k \in 1..Len(b) : b[k].message = m.id
  <2>1. PICK k \in {"call", "result"} : k = IF m.role = "assistant" THEN "call" ELSE "result"
    OBVIOUS
  <2>2. b = [i \in 1..Len(m.calls) |-> Item(m, k, m.calls[i])]
    BY <1>1, <1>3, <2>1 DEF CallItems
  <2>3. \A i \in 1..Len(m.calls) : /\ Item(m, k, m.calls[i]) \in Items
                                   /\ Item(m, k, m.calls[i]).message = m.id
    <3>1. \A i \in 1..Len(m.calls) : m.calls[i] \in Calls
      BY <1>1
    <3> QED
      BY <1>1, <2>1, <3>1 DEF Item, Items
  <2>4. b \in Seq(Items) /\ Len(b) = Len(m.calls)
    BY <1>1, <2>2, <2>3
  <2> QED
    BY <1>1, <2>2, <2>3, <2>4
<1>6. /\ a \o b \in Seq(Items) /\ Len(a \o b) = Len(a) + Len(b)
      /\ DOMAIN (a \o b) = 1..(Len(a) + Len(b))
      /\ \A i \in 1..Len(a) : (a \o b)[i] = a[i]
      /\ \A i \in 1..Len(b) : (a \o b)[Len(a) + i] = b[i]
  BY <1>4, <1>5
<1>7. /\ b \o a \in Seq(Items) /\ Len(b \o a) = Len(b) + Len(a)
      /\ DOMAIN (b \o a) = 1..(Len(b) + Len(a))
      /\ \A i \in 1..Len(b) : (b \o a)[i] = b[i]
      /\ \A i \in 1..Len(a) : (b \o a)[Len(b) + i] = a[i]
  BY <1>4, <1>5
<1>8. \A i \in 1..(Len(a) + Len(b)) : i \in 1..Len(a) \/ \E j \in 1..Len(b) : i = Len(a) + j
  <2> SUFFICES ASSUME NEW i \in 1..(Len(a) + Len(b)), i \notin 1..Len(a)
               PROVE  \E j \in 1..Len(b) : i = Len(a) + j
    OBVIOUS
  <2>1. i - Len(a) \in 1..Len(b) /\ i = Len(a) + (i - Len(a))
    BY <1>4, <1>5
  <2> QED
    BY <2>1
<1>9. \A i \in 1..(Len(b) + Len(a)) : i \in 1..Len(b) \/ \E j \in 1..Len(a) : i = Len(b) + j
  <2> SUFFICES ASSUME NEW i \in 1..(Len(b) + Len(a)), i \notin 1..Len(b)
               PROVE  \E j \in 1..Len(a) : i = Len(b) + j
    OBVIOUS
  <2>1. i - Len(b) \in 1..Len(a) /\ i = Len(b) + (i - Len(b))
    BY <1>4, <1>5
  <2> QED
    BY <2>1
<1>10. Len(b) + Len(a) = Len(a) + Len(b)
  BY <1>4, <1>5
<1>11. \A i \in 1..(Len(a) + Len(b)) : (a \o b)[i].message = m.id /\ (b \o a)[i].message = m.id
  <2> SUFFICES ASSUME NEW i \in 1..(Len(a) + Len(b))
               PROVE  (a \o b)[i].message = m.id /\ (b \o a)[i].message = m.id
    OBVIOUS
  <2>1. (a \o b)[i].message = m.id
    <3>1. CASE i \in 1..Len(a)
      BY <1>4, <1>6, <3>1
    <3>2. ASSUME NEW j \in 1..Len(b), i = Len(a) + j PROVE (a \o b)[i].message = m.id
      BY <1>5, <1>6, <3>2
    <3> QED
      BY <1>8, <3>1, <3>2
  <2>2. (b \o a)[i].message = m.id
    <3>1. CASE i \in 1..Len(b)
      BY <1>5, <1>7, <3>1
    <3>2. ASSUME NEW j \in 1..Len(a), i = Len(b) + j PROVE (b \o a)[i].message = m.id
      BY <1>4, <1>7, <3>2
    <3> QED
      BY <1>9, <1>10, <3>1, <3>2
  <2> QED
    BY <2>1, <2>2
<1>12. ToSet(a \o b) \subseteq ToSet(b \o a)
  <2>1. \A i \in 1..Len(a) : (a \o b)[i] \in ToSet(b \o a)
    <3>1. \A i \in 1..Len(a) : Len(b) + i \in 1..(Len(b) + Len(a))
      BY <1>4, <1>5
    <3> QED
      BY <1>6, <1>7, <3>1 DEF ToSet
  <2>2. \A i \in 1..Len(b) : (a \o b)[Len(a) + i] \in ToSet(b \o a)
    <3>1. \A i \in 1..Len(b) : i \in 1..(Len(b) + Len(a))
      BY <1>4, <1>5
    <3> QED
      BY <1>6, <1>7, <3>1 DEF ToSet
  <2>3. \A i \in 1..(Len(a) + Len(b)) : (a \o b)[i] \in ToSet(b \o a)
    BY <1>8, <2>1, <2>2
  <2> QED
    BY <1>6, <2>3 DEF ToSet
<1>13. TextFirst(m) = a \o b
  BY <1>2, <1>3 DEF TextFirst
<1>14. ResultsFirst(m) = a \o b \/ ResultsFirst(m) = b \o a
  BY <1>2, <1>3, <1>13 DEF ResultsFirst
<1>15. CASE ResultsFirst(m) = a \o b
  BY <1>6, <1>11, <1>13, <1>15
<1>16. CASE ResultsFirst(m) = b \o a
  BY <1>6, <1>7, <1>10, <1>11, <1>12, <1>13, <1>16
<1> QED
  BY <1>14, <1>15, <1>16

(* The history laid out message by message.                                *)
Layout(ms) == [i \in DOMAIN ms |-> ResultsFirst(ms[i])]

(* It is a sequence of item sequences, one for each message, and the       *)
(* request is what it flattens to.                                         *)
LEMMA LayoutTyped ==
  ASSUME NEW ms \in Seq(Messages)
  PROVE  /\ Layout(ms) \in Seq(Seq(Items)) /\ Len(Layout(ms)) = Len(ms)
         /\ \A i \in 1..Len(ms) : Layout(ms)[i] = ResultsFirst(ms[i])
         /\ ResponsesInput(ms) = FlattenSeq(Layout(ms))
         /\ ResponsesInput(ms) \in Seq(Items)
<1>1. Len(ms) \in Nat /\ DOMAIN ms = 1..Len(ms) /\ \A i \in 1..Len(ms) : ms[i] \in Messages
  OBVIOUS
<1>2. \A i \in 1..Len(ms) : ResultsFirst(ms[i]) \in Seq(Items)
  BY <1>1, ItemsOf
<1>3. /\ Layout(ms) \in Seq(Seq(Items)) /\ Len(Layout(ms)) = Len(ms)
      /\ \A i \in 1..Len(ms) : Layout(ms)[i] = ResultsFirst(ms[i])
  BY <1>1, <1>2 DEF Layout
<1>4. ResponsesInput(ms) = FlattenSeq(Layout(ms))
  BY DEF ResponsesInput, Layout
<1>5. FlattenSeq(Layout(ms)) \in Seq(Items)
  <2>1. <<>> \in Seq(Items)
    OBVIOUS
  <2> QED
    BY <1>3, <2>1, FlatAppended
<1> QED
  BY <1>3, <1>4, <1>5

(* A reply adds its own items at the end.                                  *)
LEMMA ReplyAdds ==
  ASSUME NEW ms \in Seq(Messages), NEW m \in Messages
  PROVE  ResponsesInput(Append(ms, m)) = ResponsesInput(ms) \o ResponsesInput(<<m>>)
<1>1. Append(ms, m) \in Seq(Messages) /\ <<m>> \in Seq(Messages) /\ Len(ms) \in Nat
  OBVIOUS
<1>2. /\ Layout(ms) \in Seq(Seq(Items)) /\ Layout(<<m>>) \in Seq(Seq(Items))
      /\ Len(Layout(ms)) = Len(ms) /\ Len(Layout(<<m>>)) = 1
      /\ Layout(Append(ms, m)) \in Seq(Seq(Items)) /\ Len(Layout(Append(ms, m))) = Len(ms) + 1
      /\ \A i \in 1..Len(ms) : Layout(ms)[i] = ResultsFirst(ms[i])
      /\ Layout(<<m>>)[1] = ResultsFirst(m)
      /\ \A i \in 1..(Len(ms) + 1) : Layout(Append(ms, m))[i] = ResultsFirst(Append(ms, m)[i])
  <2>1. Len(<<m>>) = 1 /\ <<m>>[1] = m /\ 1 \in 1..1 /\ Len(Append(ms, m)) = Len(ms) + 1
    OBVIOUS
  <2> QED
    BY <1>1, <2>1, LayoutTyped
<1>3. PICK s \in Seq(Seq(Items)) : s = Layout(ms)
  BY <1>2
<1>4. PICK t \in Seq(Seq(Items)) : t = Layout(<<m>>)
  BY <1>2
<1>5. PICK u \in Seq(Seq(Items)) : u = Layout(Append(ms, m))
  BY <1>2
<1>6. u = s \o t
  <2>1. /\ Len(s \o t) = Len(ms) + 1 /\ Len(u) = Len(ms) + 1
        /\ \A i \in 1..Len(ms) : (s \o t)[i] = s[i]
        /\ (s \o t)[Len(ms) + 1] = t[1]
    <3>1. Len(s) = Len(ms) /\ Len(t) = 1 /\ Len(u) = Len(ms) + 1
      BY <1>2, <1>3, <1>4, <1>5
    <3>2. /\ Len(s \o t) = Len(s) + Len(t)
          /\ \A i \in 1..(Len(s) + Len(t)) :
               (s \o t)[i] = IF i <= Len(s) THEN s[i] ELSE t[i - Len(s)]
      BY ConcatProperties
    <3>3. /\ \A i \in 1..Len(ms) : i \in 1..(Len(ms) + 1) /\ i <= Len(ms)
          /\ Len(ms) + 1 \in 1..(Len(ms) + 1) /\ ~(Len(ms) + 1 <= Len(ms))
          /\ (Len(ms) + 1) - Len(ms) = 1
      BY <1>1
    <3> QED
      BY <3>1, <3>2, <3>3
  <2>2. \A i \in 1..Len(ms) : u[i] = s[i]
    <3>1. \A i \in 1..Len(ms) : Append(ms, m)[i] = ms[i] /\ i \in 1..(Len(ms) + 1)
      BY <1>1
    <3> QED
      BY <1>2, <1>3, <1>5, <3>1
  <2>3. u[Len(ms) + 1] = t[1]
    <3>1. Append(ms, m)[Len(ms) + 1] = m /\ Len(ms) + 1 \in 1..(Len(ms) + 1)
      BY <1>1
    <3> QED
      BY <1>2, <1>4, <1>5, <3>1
  <2>4. \A i \in 1..(Len(ms) + 1) : u[i] = (s \o t)[i]
    <3>1. \A i \in 1..(Len(ms) + 1) : i \in 1..Len(ms) \/ i = Len(ms) + 1
      BY <1>1
    <3> QED
      BY <2>1, <2>2, <2>3, <3>1
  <2>5. s \o t \in Seq(Seq(Items))
    OBVIOUS
  <2> QED
    BY <2>1, <2>4, <2>5, SeqEqual
<1>7. FlattenSeq(s \o t) = FlattenSeq(s) \o FlattenSeq(t)
  BY FlatJoined
<1> QED
  BY <1>1, <1>3, <1>4, <1>5, <1>6, <1>7, LayoutTyped

-----------------------------------------------------------------------------
(* What each event does to the reply that is being assembled: it stays one *)
(* of the replies, and only the named parts change.                        *)
LEMMA Flushed ==
  ASSUME NEW a \in Assemblies
  PROVE  /\ FlushText(a) \in Assemblies
         /\ FlushText(a).text = <<>> /\ FlushText(a).meta = a.meta
         /\ FlushText(a).inputs = a.inputs
         /\ \/ FlushText(a).content = a.content /\ a.text = <<>>
            \/ FlushText(a).content = Append(a.content, [call |-> "", said |-> a.text])
<1>1. a.content \in Seq(Answers) /\ a.text \in Seq(Nat)
  BY DEF Assemblies
<1>2. [call |-> "", said |-> a.text] \in Answers
  BY <1>1 DEF Answers
<1>3. Append(a.content, [call |-> "", said |-> a.text]) \in Seq(Answers) /\ <<>> \in Seq(Nat)
  <2>1. PICK p \in Seq(Answers), b \in Answers : p = a.content /\ b = [call |-> "", said |-> a.text]
    BY <1>1, <1>2
  <2>2. Append(p, b) \in Seq(Answers) /\ <<>> \in Seq(Nat)
    OBVIOUS
  <2> QED
    BY <2>1, <2>2
<1>4. CASE a.text = <<>>
  BY <1>4 DEF FlushText
<1>5. CASE a.text # <<>>
  <2>1. FlushText(a) = [a EXCEPT !.content = Append(a.content, [call |-> "", said |-> a.text]),
                                 !.text = <<>>]
    BY <1>5 DEF FlushText
  <2> QED
    BY <1>3, <2>1 DEF Assemblies
<1> QED
  BY <1>4, <1>5

(* A call that starts flushes the text and opens an empty buffer.          *)
LEMMA Started ==
  ASSUME NEW a \in Assemblies, NEW c \in Calls
  PROVE  /\ OnStart(a, c) \in Assemblies
         /\ OnStart(a, c).content = FlushText(a).content
         /\ OnStart(a, c).text = <<>>
         /\ OnStart(a, c).meta = a.meta \cup {c}
         /\ OnStart(a, c).inputs = [a.inputs EXCEPT ![c] = <<>>]
<1>1. PICK b \in Assemblies : /\ b = FlushText(a) /\ b.text = <<>> /\ b.meta = a.meta
                           /\ b.inputs = a.inputs
  BY Flushed
<1>2. OnStart(a, c) = [b EXCEPT !.meta = b.meta \cup {c}, !.inputs = [b.inputs EXCEPT ![c] = <<>>]]
  BY <1>1 DEF OnStart
<1>3. PICK i : i = [b.inputs EXCEPT ![c] = <<>>]
  OBVIOUS
<1>4. i \in [Calls -> Seq(Nat)]
  <2>1. <<>> \in Seq(Nat) /\ b.inputs \in [Calls -> Seq(Nat)]
    BY DEF Assemblies
  <2> QED
    BY <1>3, <2>1
<1>5. OnStart(a, c) = [content |-> b.content, text |-> b.text, meta |-> b.meta \cup {c}, inputs |-> i]
  BY <1>2, <1>3 DEF Assemblies
<1>6. OnStart(a, c) \in Assemblies
  BY <1>4, <1>5 DEF Assemblies
<1> QED
  BY <1>1, <1>3, <1>5, <1>6

(* A piece of input goes to its call's buffer.                             *)
LEMMA Streamed ==
  ASSUME NEW a \in Assemblies, NEW c \in Calls, NEW n \in Nat
  PROVE  /\ OnInputDelta(a, c, n) \in Assemblies
         /\ OnInputDelta(a, c, n).content = a.content
         /\ OnInputDelta(a, c, n).text = a.text
         /\ OnInputDelta(a, c, n).meta = a.meta
         /\ OnInputDelta(a, c, n).inputs = [a.inputs EXCEPT ![c] = Append(a.inputs[c], n)]
<1>1. a.inputs[c] \in Seq(Nat)
  BY DEF Assemblies
<1>2. Append(a.inputs[c], n) \in Seq(Nat)
  BY <1>1
<1>3. OnInputDelta(a, c, n) = [a EXCEPT !.inputs = [a.inputs EXCEPT ![c] = Append(a.inputs[c], n)]]
  BY DEF OnInputDelta, Assemblies
<1> QED
  BY <1>2, <1>3 DEF Assemblies

(* A call that ends leaves the open ones; if it was one of them, its       *)
(* buffer is a block now.                                                  *)
LEMMA Ended ==
  ASSUME NEW a \in Assemblies, NEW c \in Calls
  PROVE  /\ OnEnd(a, c) \in Assemblies
         /\ OnEnd(a, c).text = a.text
         /\ OnEnd(a, c).meta = a.meta \ {c}
         /\ c \notin a.meta => OnEnd(a, c) = a
         /\ c \in a.meta =>
              /\ OnEnd(a, c).content = Append(a.content, [call |-> c, said |-> a.inputs[c]])
              /\ OnEnd(a, c).inputs = [a.inputs EXCEPT ![c] = <<>>]
<1>1. CASE c \notin a.meta
  <2>1. OnEnd(a, c) = a
    BY <1>1 DEF OnEnd
  <2>2. a.meta \ {c} = a.meta
    BY <1>1
  <2> QED
    BY <1>1, <2>1, <2>2
<1>2. CASE c \in a.meta
  <2>1. a.content \in Seq(Answers) /\ a.inputs[c] \in Seq(Nat) /\ <<>> \in Seq(Nat)
    BY DEF Assemblies
  <2>2. [call |-> c, said |-> a.inputs[c]] \in Answers
    BY <2>1 DEF Answers
  <2>3. Append(a.content, [call |-> c, said |-> a.inputs[c]]) \in Seq(Answers)
    BY <2>1, <2>2
  <2>4. OnEnd(a, c) = [a EXCEPT !.content = Append(a.content, [call |-> c, said |-> a.inputs[c]]),
                                !.meta = a.meta \ {c},
                                !.inputs = [a.inputs EXCEPT ![c] = <<>>]]
    BY <1>2 DEF OnEnd
  <2>5. PICK b \in Seq(Answers) : b = Append(a.content, [call |-> c, said |-> a.inputs[c]])
    BY <2>3
  <2>6. PICK m \in SUBSET Calls : m = a.meta \ {c}
    BY DEF Assemblies
  <2>7. PICK k \in [Calls -> Seq(Nat)] : k = [a.inputs EXCEPT ![c] = <<>>]
    BY <2>1 DEF Assemblies
  <2>8. PICK z \in Assemblies : z = [a EXCEPT !.content = b, !.meta = m, !.inputs = k]
    BY DEF Assemblies
  <2>9. OnEnd(a, c) = z
    BY <2>4, <2>5, <2>6, <2>7, <2>8
  <2>10. z.text = a.text /\ z.meta = m /\ z.content = b /\ z.inputs = k
    BY <2>8 DEF Assemblies
  <2> QED
    BY <1>2, <2>5, <2>6, <2>7, <2>9, <2>10
<1> QED
  BY <1>1, <1>2

(* A piece of text goes to the text.                                       *)
LEMMA Told ==
  ASSUME NEW a \in Assemblies, NEW n \in Nat
  PROVE  /\ OnTextDelta(a, n) \in Assemblies
         /\ OnTextDelta(a, n).content = a.content
         /\ OnTextDelta(a, n).text = Append(a.text, n)
         /\ OnTextDelta(a, n).meta = a.meta
         /\ OnTextDelta(a, n).inputs = a.inputs
<1>1. a.text \in Seq(Nat) /\ Append(a.text, n) \in Seq(Nat)
  BY DEF Assemblies
<1> QED
  BY <1>1 DEF Assemblies, OnTextDelta

(* The end of a chat stream, call by call.                                 *)
FlushOver(a, g) == g = [n \in 0..Len(tracked) |-> IF n = 0 THEN a ELSE OnEnd(g[n - 1], tracked[n])]

(* There is such a function, and the flush is its last value.              *)
LEMMA FlushExists ==
  ASSUME NEW a \in Assemblies, tracked \in Seq(Calls)
  PROVE  \E g : FlushOver(a, g) /\ ChatFlush(a) = g[Len(tracked)]
<1> DEFINE N == Len(tracked)
           Part(g, k) == g = [n \in 0..k |-> IF n = 0 THEN a ELSE OnEnd(g[n - 1], tracked[n])]
           S == {j \in 0..N : \E g : Part(g, j)}
<1>1. N \in Nat
  OBVIOUS
<1> HIDE DEF N
<1>2. 0 \in S
  <2>1. Part([n \in 0..0 |-> a], 0)
    OBVIOUS
  <2> HIDE DEF Part
  <2> QED
    BY <1>1, <2>1
<1>3. ASSUME NEW j \in 0..N, j \in S, j < N PROVE j + 1 \in S
  <2>1. PICK g : Part(g, j)
    BY <1>3
  <2> DEFINE h == [n \in 0..(j + 1) |-> IF n = 0 THEN a ELSE OnEnd(g[n - 1], tracked[n])]
  <2>2. \A n \in 0..j : h[n] = g[n]
    <3>1. \A n \in 0..j : n \in 0..(j + 1)
      BY <1>1
    <3> QED
      BY <2>1, <3>1
  <2>3. \A n \in 0..(j + 1) : n # 0 => n - 1 \in 0..j
    BY <1>1
  <2>4. Part(h, j + 1)
    <3>1. \A n \in 0..(j + 1) : n # 0 => h[n - 1] = g[n - 1]
      BY <2>2, <2>3
    <3>2. h = [n \in 0..(j + 1) |-> IF n = 0 THEN a ELSE OnEnd(h[n - 1], tracked[n])]
      BY <3>1
    <3> QED
      BY <3>2
  <2> HIDE DEF h, Part
  <2>5. j + 1 \in 0..N
    BY <1>1, <1>3
  <2> QED
    BY <2>4, <2>5
<1>4. N \in S
  <2> HIDE DEF S
  <2>1. \A n \in 0..N : n \in S
    BY <1>1, <1>2, <1>3, Upwards
  <2> QED
    BY <1>1, <2>1
<1>5. \E g : FlushOver(a, g)
  BY <1>4 DEF FlushOver, N
<1> DEFINE f == CHOOSE g : FlushOver(a, g)
<1>6. FlushOver(a, f)
  BY <1>5
<1>7. ChatFlush(a) = f[Len(tracked)]
  BY DEF ChatFlush, FlushOver
<1> HIDE DEF f
<1> QED
  BY <1>6, <1>7

(* Each of its steps ends a call; the calls it has passed are not open.    *)
LEMMA FlushSteps ==
  ASSUME NEW a \in Assemblies, tracked \in Seq(Calls), NEW g, FlushOver(a, g)
  PROVE  /\ g[0] = a
         /\ \A n \in 0..Len(tracked) : n < Len(tracked) =>
              /\ tracked[n + 1] \in Calls
              /\ g[n + 1] = OnEnd(g[n], tracked[n + 1])
         /\ \A n \in 0..Len(tracked) :
              /\ g[n] \in Assemblies /\ g[n].meta \subseteq a.meta
              /\ \A k \in 1..n : tracked[k] \notin g[n].meta
<1>1. Len(tracked) \in Nat /\ \A n \in 1..Len(tracked) : tracked[n] \in Calls
  OBVIOUS
<1>2. g[0] = a
  BY <1>1 DEF FlushOver
<1>3. \A n \in 0..Len(tracked) : n < Len(tracked) =>
        /\ n + 1 \in 1..Len(tracked) /\ n + 1 \in 0..Len(tracked)
        /\ tracked[n + 1] \in Calls
        /\ g[n + 1] = OnEnd(g[n], tracked[n + 1])
  <2> SUFFICES ASSUME NEW n \in 0..Len(tracked), n < Len(tracked)
               PROVE  /\ n + 1 \in 1..Len(tracked) /\ n + 1 \in 0..Len(tracked)
                      /\ tracked[n + 1] \in Calls
                      /\ g[n + 1] = OnEnd(g[n], tracked[n + 1])
    OBVIOUS
  <2>1. n + 1 \in 0..Len(tracked) /\ n + 1 # 0 /\ (n + 1) - 1 = n /\ n + 1 \in 1..Len(tracked)
    BY <1>1
  <2>2. g[n + 1] = OnEnd(g[n], tracked[n + 1])
    BY <2>1 DEF FlushOver
  <2> QED
    BY <1>1, <2>1, <2>2
<1> DEFINE S == {n \in 0..Len(tracked) : /\ g[n] \in Assemblies /\ g[n].meta \subseteq a.meta
                                        /\ \A k \in 1..n : tracked[k] \notin g[n].meta}
<1>4. 0 \in S
  BY <1>1, <1>2
<1>5. ASSUME NEW n \in 0..Len(tracked), n \in S, n < Len(tracked) PROVE n + 1 \in S
  <2>1. PICK x \in Assemblies : x = g[n] /\ x.meta \subseteq a.meta /\ \A k \in 1..n : tracked[k] \notin x.meta
    BY <1>5
  <2>2. PICK c \in Calls : c = tracked[n + 1]
    BY <1>3, <1>5
  <2>3. /\ n + 1 \in 0..Len(tracked) /\ g[n + 1] = OnEnd(x, c)
    BY <1>3, <1>5, <2>1, <2>2
  <2>4. OnEnd(x, c) \in Assemblies /\ OnEnd(x, c).meta = x.meta \ {c}
    BY Ended
  <2>5. \A k \in 1..(n + 1) : k \in 1..n \/ k = n + 1
    BY <1>5
  <2>6. \A k \in 1..(n + 1) : tracked[k] \notin OnEnd(x, c).meta
    BY <2>1, <2>2, <2>4, <2>5
  <2> QED
    BY <2>1, <2>3, <2>4, <2>6
<1>6. \A n \in 0..Len(tracked) : n \in S
  <2> HIDE DEF S
  <2> QED
    BY <1>1, <1>4, <1>5, Upwards
<1> QED
  BY <1>2, <1>3, <1>6

(* The calls of a reply's content.                                         *)
LEMMA CallsTyped ==
  ASSUME NEW a \in Seq(Answers)
  PROVE  CallsOf(a) \in Seq(Calls)
<1> DEFINE ss == [i \in DOMAIN a |-> IF a[i].call = "" THEN <<>> ELSE <<a[i].call>>]
<1>1. DOMAIN a = 1..Len(a) /\ Len(a) \in Nat /\ \A i \in 1..Len(a) : a[i] \in Answers
  OBVIOUS
<1>2. \A i \in 1..Len(a) : (IF a[i].call = "" THEN <<>> ELSE <<a[i].call>>) \in Seq(Calls)
  <2> SUFFICES ASSUME NEW i \in 1..Len(a)
               PROVE  (IF a[i].call = "" THEN <<>> ELSE <<a[i].call>>) \in Seq(Calls)
    OBVIOUS
  <2>1. a[i].call \in Calls \cup {""}
    <3>1. PICK x \in Answers : x = a[i]
      BY <1>1
    <3>2. x.call \in Calls \cup {""}
      BY DEF Answers
    <3> QED
      BY <3>1, <3>2
  <2>2. CASE a[i].call = ""
    <3>1. <<>> \in Seq(Calls)
      OBVIOUS
    <3> QED
      BY <2>2, <3>1
  <2>3. CASE a[i].call # ""
    <3>1. PICK c \in Calls : c = a[i].call
      BY <2>1, <2>3
    <3>2. <<c>> \in Seq(Calls)
      OBVIOUS
    <3> QED
      BY <2>3, <3>1, <3>2
  <2> QED
    BY <2>2, <2>3
<1>3. ss \in Seq(Seq(Calls))
  <2>1. PICK n \in Nat : n = Len(a)
    BY <1>1
  <2>2. ss = [i \in 1..n |-> IF a[i].call = "" THEN <<>> ELSE <<a[i].call>>]
    BY <1>1, <2>1
  <2> HIDE DEF ss
  <2>3. \A i \in 1..n : ss[i] \in Seq(Calls)
    BY <1>2, <2>1, <2>2
  <2>4. ss = [i \in 1..n |-> ss[i]]
    BY <2>2
  <2> QED
    BY <2>3, <2>4
<1>4. CallsOf(a) = FlattenSeq(ss)
  BY DEF CallsOf
<1> HIDE DEF ss
<1>5. <<>> \in Seq(Calls)
  OBVIOUS
<1> QED
  BY <1>3, <1>4, <1>5, FlatAppended

-----------------------------------------------------------------------------
(* Anthropic's layout is typed like the others.                            *)
LEMMA TextTyped ==
  ASSUME NEW ms \in Seq(Messages)
  PROVE  AnthropicMessages(ms) \in Seq(Items)
<1> DEFINE ss == [i \in DOMAIN ms |-> TextFirst(ms[i])]
<1>1. Len(ms) \in Nat /\ DOMAIN ms = 1..Len(ms) /\ \A i \in 1..Len(ms) : ms[i] \in Messages
  OBVIOUS
<1>2. \A i \in 1..Len(ms) : TextFirst(ms[i]) \in Seq(Items)
  BY <1>1, ItemsOf
<1>3. ss \in Seq(Seq(Items))
  BY <1>1, <1>2
<1>4. AnthropicMessages(ms) = FlattenSeq(ss)
  BY DEF AnthropicMessages
<1> HIDE DEF ss
<1>5. <<>> \in Seq(Items)
  OBVIOUS
<1> QED
  BY <1>3, <1>4, <1>5, FlatAppended

(* The reply a request goes on from is in the history, has an id and is    *)
(* the last that has.                                                      *)
LEMMA Previous ==
  ASSUME NEW ms \in Seq(Messages)
  PROVE  \/ /\ PreviousResponse(ms) = 0
            /\ \A j \in 1..Len(ms) : ms[j].response = 0
         \/ /\ PreviousResponse(ms) \in 1..Len(ms) /\ ms[PreviousResponse(ms)].response # 0
            /\ \A j \in 1..Len(ms) : ms[j].response # 0 => j <= PreviousResponse(ms)
<1> DEFINE with == {i \in DOMAIN ms : ms[i].response # 0}
<1>1. Len(ms) \in Nat /\ DOMAIN ms = 1..Len(ms)
  OBVIOUS
<1>2. with \in SUBSET (1..Len(ms))
  BY <1>1
<1>3. CASE with = {}
  BY <1>1, <1>3 DEF PreviousResponse
<1>4. CASE with # {}
  <2>1. PreviousResponse(ms) = CHOOSE i \in with : \A j \in with : j <= i
    BY <1>4 DEF PreviousResponse
  <2>2. \E i \in with : \A j \in with : j <= i
    <3> HIDE DEF with
    <3> QED
      BY <1>1, <1>2, <1>4, LastPosition
  <2>3. PreviousResponse(ms) \in with /\ \A j \in with : j <= PreviousResponse(ms)
    <3> HIDE DEF with
    <3> QED
      BY <2>1, <2>2
  <2> QED
    BY <1>1, <2>3
<1> QED
  BY <1>3, <1>4

(* That identifies it.                                                     *)
LEMMA LatestIs ==
  ASSUME NEW ms \in Seq(Messages), NEW p \in 1..Len(ms), ms[p].response # 0,
         \A j \in 1..Len(ms) : j > p => ms[j].response = 0
  PROVE  PreviousResponse(ms) = p
<1>1. PICK q : q = PreviousResponse(ms)
  OBVIOUS
<1>2. q \in 1..Len(ms) /\ ms[q].response # 0 /\ p <= q
  BY <1>1, Previous
<1>3. p = q \/ q > p
  BY <1>2
<1> QED
  BY <1>1, <1>2, <1>3

(* What the provider goes on from is items, when the ids are of copies it  *)
(* keeps.                                                                  *)
LEMMA PayloadTyped ==
  ASSUME kept \in Seq(Seq(Items)), NEW ms \in Seq(Messages),
         \A i \in 1..Len(ms) : ms[i].response \in 0..Len(kept)
  PROVE  StatefulPayload(ms) \in Seq(Items)
<1>1. CASE PreviousResponse(ms) = 0
  BY <1>1, LayoutTyped DEF StatefulPayload
<1>2. CASE PreviousResponse(ms) # 0
  <2>1. PICK p \in 1..Len(ms) : p = PreviousResponse(ms) /\ ms[p].response # 0
    BY <1>2, Previous
  <2>2. ms[p].response \in 1..Len(kept)
    <3>1. Len(kept) \in Nat /\ ms[p].response \in 0..Len(kept)
      OBVIOUS
    <3> QED
      BY <2>1, <3>1
  <2>3. PICK k \in Seq(Items) : k = kept[ms[p].response]
    BY <2>2
  <2>4. PICK y \in Seq(Messages) : y = SubSeq(ms, p + 1, Len(ms))
    <3>1. PICK q \in Int, r \in Int : q = p + 1 /\ r = Len(ms)
      <4>1. p + 1 \in Int /\ Len(ms) \in Int
        OBVIOUS
      <4> QED
        BY <4>1
    <3>2. \A i \in q..r : ms[i] \in Messages
      BY <3>1
    <3>3. SubSeq(ms, q, r) \in Seq(Messages)
      BY <3>2, SubSeqProperties
    <3> QED
      BY <3>1, <3>3
  <2>5. k \o ResponsesInput(y) \in Seq(Items)
    <3>1. ResponsesInput(y) \in Seq(Items)
      BY LayoutTyped
    <3> QED
      BY <3>1
  <2> QED
    BY <1>2, <2>1, <2>3, <2>4, <2>5 DEF StatefulPayload
<1> QED
  BY <1>1, <1>2

(* The messages behind a place, and one more.                              *)
LEMMA TailGrows ==
  ASSUME NEW ms \in Seq(Messages), NEW m \in Messages, NEW p \in 1..Len(ms)
  PROVE  /\ SubSeq(ms, p + 1, Len(ms)) \in Seq(Messages)
         /\ SubSeq(Append(ms, m), p + 1, Len(Append(ms, m)))
              = Append(SubSeq(ms, p + 1, Len(ms)), m)
<1>1. PICK n \in Nat : n = Len(ms) /\ p <= n
  OBVIOUS
<1>2. PICK ns \in Seq(Messages) :
        ns = Append(ms, m) /\ Len(ns) = n + 1 /\ ns[n + 1] = m /\ \A i \in 1..n : ns[i] = ms[i]
  <2>1. /\ Append(ms, m) \in Seq(Messages) /\ Len(Append(ms, m)) = n + 1
        /\ Append(ms, m)[n + 1] = m /\ \A i \in 1..n : Append(ms, m)[i] = ms[i]
    BY <1>1
  <2> QED
    BY <2>1
<1>3. PICK q \in Int : q = p + 1
  <2>1. p + 1 \in Int
    OBVIOUS
  <2> QED
    BY <2>1
<1>4. PICK y : y = SubSeq(ms, q, n)
  OBVIOUS
<1>5. PICK z : z = SubSeq(ns, q, n + 1)
  OBVIOUS
<1>6. /\ y \in Seq(Messages) /\ Len(y) = n - p
      /\ \A i \in 1..(n - p) : y[i] = ms[p + i]
  <2>1. /\ y \in Seq(Messages) /\ Len(y) = IF q <= n THEN n - q + 1 ELSE 0
        /\ \A i \in 1..(n - q + 1) : y[i] = ms[q + i - 1]
    <3>1. n \in Int /\ \A i \in q..n : ms[i] \in Messages
      BY <1>1, <1>3
    <3>2. /\ SubSeq(ms, q, n) \in Seq(Messages)
          /\ Len(SubSeq(ms, q, n)) = IF q <= n THEN n - q + 1 ELSE 0
          /\ \A i \in 1..(n - q + 1) : SubSeq(ms, q, n)[i] = ms[q + i - 1]
      BY <3>1, SubSeqProperties
    <3> QED
      BY <1>4, <3>2
  <2>2. n - q + 1 = n - p /\ \A i \in 1..(n - p) : q + i - 1 = p + i
    BY <1>1, <1>3
  <2>3. Len(y) = n - p
    BY <1>1, <1>3, <2>1
  <2> QED
    BY <2>1, <2>2, <2>3
<1>7. /\ z \in Seq(Messages) /\ Len(z) = (n - p) + 1
      /\ \A i \in 1..((n - p) + 1) : z[i] = ns[p + i]
  <2>1. PICK r \in Int : r = n + 1
    <3>1. n + 1 \in Int
      OBVIOUS
    <3> QED
      BY <3>1
  <2>2. /\ z \in Seq(Messages) /\ Len(z) = IF q <= r THEN r - q + 1 ELSE 0
        /\ \A i \in 1..(r - q + 1) : z[i] = ns[q + i - 1]
    <3>1. \A i \in q..r : ns[i] \in Messages
      BY <1>1, <1>2, <1>3, <2>1
    <3>2. /\ SubSeq(ns, q, r) \in Seq(Messages)
          /\ Len(SubSeq(ns, q, r)) = IF q <= r THEN r - q + 1 ELSE 0
          /\ \A i \in 1..(r - q + 1) : SubSeq(ns, q, r)[i] = ns[q + i - 1]
      BY <3>1, SubSeqProperties
    <3> QED
      BY <1>5, <2>1, <3>2
  <2>3. r - q + 1 = (n - p) + 1 /\ q <= r /\ \A i \in 1..((n - p) + 1) : q + i - 1 = p + i
    BY <1>1, <1>3, <2>1
  <2> QED
    BY <2>2, <2>3
<1>8. PICK w \in Seq(Messages) : w = Append(y, m)
  BY <1>6, AppendProperties
<1>9. Len(w) = (n - p) + 1 /\ \A i \in 1..(n - p) : w[i] = y[i]
  <2>1. y \in Seq(Messages) /\ Len(y) = n - p
    BY <1>6
  <2>2. Len(Append(y, m)) = Len(y) + 1
    BY <2>1, AppendProperties
  <2>3. \A i \in 1..Len(y) : Append(y, m)[i] = y[i]
    BY <2>1, AppendProperties
  <2> QED
    BY <1>8, <2>1, <2>2, <2>3
<1>10. w[(n - p) + 1] = m
  <2>1. y \in Seq(Messages) /\ Len(y) = n - p
    BY <1>6
  <2>2. Append(y, m)[Len(y) + 1] = m
    BY <2>1, AppendProperties
  <2> QED
    BY <1>8, <2>1, <2>2
<1>11. \A i \in 1..((n - p) + 1) : z[i] = w[i]
  <2> SUFFICES ASSUME NEW i \in 1..((n - p) + 1) PROVE z[i] = w[i]
    OBVIOUS
  <2>1. z[i] = ns[p + i]
    BY <1>7
  <2>2. CASE i \in 1..(n - p)
    <3>1. p + i \in 1..n
      BY <1>1, <2>2
    <3>2. ns[p + i] = ms[p + i] /\ y[i] = ms[p + i] /\ w[i] = y[i]
      BY <1>2, <1>6, <1>9, <2>2, <3>1
    <3> QED
      BY <2>1, <3>2
  <2>3. CASE i = (n - p) + 1
    <3>1. p + i = n + 1
      BY <1>1, <2>3
    <3> QED
      BY <1>2, <1>10, <2>1, <2>3, <3>1
  <2>4. i \in 1..(n - p) \/ i = (n - p) + 1
    BY <1>1
  <2> QED
    BY <2>2, <2>3, <2>4
<1>12. z = w
  <2>1. Len(z) = (n - p) + 1 /\ Len(w) = (n - p) + 1 /\ z \in Seq(Messages) /\ w \in Seq(Messages)
    BY <1>7, <1>9
  <2> QED
    BY <1>11, <2>1, SeqEqual
<1> QED
  BY <1>1, <1>2, <1>3, <1>4, <1>5, <1>6, <1>8, <1>12

(* A part of one message.                                                  *)
LEMMA JustOne ==
  ASSUME NEW ms \in Seq(Messages), NEW n \in 1..Len(ms)
  PROVE  SubSeq(ms, n, n) = <<ms[n]>>
<1>1. n \in Int /\ ms[n] \in Messages
  OBVIOUS
<1>2. \A i \in n..n : ms[i] \in Messages
  BY <1>1
<1>3. /\ SubSeq(ms, n, n) \in Seq(Messages)
      /\ Len(SubSeq(ms, n, n)) = IF n <= n THEN n - n + 1 ELSE 0
      /\ \A i \in 1..(n - n + 1) : SubSeq(ms, n, n)[i] = ms[n + i - 1]
  BY <1>1, <1>2, SubSeqProperties
<1>4. n - n + 1 = 1 /\ n + 1 - 1 = n /\ n <= n
  BY <1>1
<1>5. PICK y \in Seq(Messages) : y = SubSeq(ms, n, n)
  BY <1>3
<1>6. Len(y) = 1 /\ y[1] = ms[n]
  <2>1. Len(y) = 1
    BY <1>3, <1>4, <1>5
  <2>2. 1 \in 1..(n - n + 1)
    BY <1>4
  <2>3. y[1] = ms[n + 1 - 1]
    BY <1>3, <1>5, <2>2
  <2> QED
    BY <1>4, <2>1, <2>3
<1>7. PICK z \in Seq(Messages) : z = <<ms[n]>> /\ Len(z) = 1 /\ z[1] = ms[n]
  <2>1. <<ms[n]>> \in Seq(Messages) /\ Len(<<ms[n]>>) = 1 /\ <<ms[n]>>[1] = ms[n]
    BY <1>1
  <2> QED
    BY <2>1
<1>8. \A i \in 1..Len(y) : y[i] = z[i]
  BY <1>6, <1>7
<1>9. y = z
  BY <1>6, <1>7, <1>8, SeqEqual
<1> QED
  BY <1>5, <1>7, <1>9

(* A message without an id is sent after what the provider goes on from.   *)
LEMMA PayloadGrows ==
  ASSUME kept \in Seq(Seq(Items)), NEW ms \in Seq(Messages), NEW m \in Messages,
         \A i \in 1..Len(ms) : ms[i].response \in 0..Len(kept), m.response = 0
  PROVE  StatefulPayload(Append(ms, m)) = StatefulPayload(ms) \o ResponsesInput(<<m>>)
<1>1. PICK ns \in Seq(Messages) :
        /\ ns = Append(ms, m) /\ Len(ns) = Len(ms) + 1 /\ Len(ms) \in Nat
        /\ ns[Len(ms) + 1] = m /\ \A i \in 1..Len(ms) : ns[i] = ms[i]
  <2>1. /\ Append(ms, m) \in Seq(Messages) /\ Len(Append(ms, m)) = Len(ms) + 1 /\ Len(ms) \in Nat
        /\ Append(ms, m)[Len(ms) + 1] = m /\ \A i \in 1..Len(ms) : Append(ms, m)[i] = ms[i]
    OBVIOUS
  <2> QED
    BY <2>1
<1>2. \A i \in 1..Len(ns) : i \in 1..Len(ms) \/ i = Len(ms) + 1
  BY <1>1
<1>3. CASE PreviousResponse(ms) = 0
  <2>1. \A i \in 1..Len(ms) : ms[i].response = 0
    BY <1>3, Previous
  <2>2. \A i \in 1..Len(ns) : ns[i].response = 0
    BY <1>1, <1>2, <2>1
  <2>3. PreviousResponse(ns) = 0
    BY <2>2, Previous
  <2> QED
    BY <1>1, <1>3, <2>3, ReplyAdds DEF StatefulPayload
<1>4. CASE PreviousResponse(ms) # 0
  <2>1. PICK p \in 1..Len(ms) :
          /\ p = PreviousResponse(ms) /\ ms[p].response # 0
          /\ \A j \in 1..Len(ms) : ms[j].response # 0 => j <= p
    BY <1>4, Previous
  <2>2. p \in 1..Len(ns) /\ ns[p] = ms[p] /\ p # 0
    BY <1>1
  <2>3. \A j \in 1..Len(ns) : j > p => ns[j].response = 0
    <3> SUFFICES ASSUME NEW j \in 1..Len(ns), j > p PROVE ns[j].response = 0
      OBVIOUS
    <3>1. CASE j \in 1..Len(ms)
      <4>1. ~(j <= p)
        OBVIOUS
      <4>2. ms[j].response = 0
        BY <2>1, <3>1, <4>1
      <4> QED
        BY <1>1, <3>1, <4>2
    <3> QED
      BY <1>1, <1>2, <3>1
  <2>4. PreviousResponse(ns) = p
    <3>1. ns[p].response # 0
      BY <2>1, <2>2
    <3> QED
      BY <2>2, <2>3, <3>1, LatestIs
  <2>5. PICK y \in Seq(Messages) : y = SubSeq(ms, p + 1, Len(ms))
    BY TailGrows
  <2>6. SubSeq(ns, p + 1, Len(ns)) = Append(y, m)
    BY <1>1, <2>5, TailGrows
  <2>7. PICK k \in Seq(Items) : k = kept[ms[p].response]
    <3>1. ms[p].response \in 1..Len(kept)
      <4>1. Len(kept) \in Nat /\ ms[p].response \in 0..Len(kept)
        OBVIOUS
      <4> QED
        BY <2>1, <4>1
    <3> QED
      BY <3>1
  <2>8. PICK u \in Seq(Items) : u = ResponsesInput(y)
    BY LayoutTyped
  <2>9. PICK v \in Seq(Items) : v = ResponsesInput(<<m>>)
    <3>1. <<m>> \in Seq(Messages)
      OBVIOUS
    <3> QED
      BY <3>1, LayoutTyped
  <2>10. ResponsesInput(Append(y, m)) = u \o v
    BY <2>8, <2>9, ReplyAdds
  <2>11. StatefulPayload(ms) = k \o u
    BY <1>4, <2>1, <2>5, <2>7, <2>8 DEF StatefulPayload
  <2>12. StatefulPayload(ns) = k \o (u \o v)
    BY <2>2, <2>4, <2>6, <2>7, <2>10 DEF StatefulPayload
  <2>13. (k \o u) \o v = k \o (u \o v)
    BY ConcatAssociative, SMTT(40)
  <2> QED
    BY <1>1, <2>9, <2>11, <2>12, <2>13
<1> QED
  BY <1>3, <1>4

(* What a compaction leaves: the summary and the last two messages.        *)
Summary == [id |-> 0, role |-> "user", calls |-> <<>>, response |-> 0]

(* These are three messages, the last two as they were.                    *)
LEMMA CompactLeaves ==
  ASSUME NEW ms \in Seq(Messages), Len(ms) > 2
  PROVE  LET vs == <<Summary>> \o SubSeq(ms, Len(ms) - 1, Len(ms))
         IN  /\ vs \in Seq(Messages) /\ Len(vs) = 3
             /\ vs[1] = Summary /\ vs[2] = ms[Len(ms) - 1] /\ vs[3] = ms[Len(ms)]
<1>1. PICK n \in Nat : n = Len(ms) /\ n > 2
  OBVIOUS
<1>2. Summary \in Messages
  BY DEF Summary, Messages
<1>3. PICK y : y = SubSeq(ms, n - 1, n)
  OBVIOUS
<1>4. y \in Seq(Messages) /\ Len(y) = 2 /\ y[1] = ms[n - 1] /\ y[2] = ms[n]
  <2>1. n - 1 \in Int /\ n \in Int /\ \A i \in (n - 1)..n : ms[i] \in Messages
    BY <1>1
  <2>2. PICK q \in Int : q = n - 1
    BY <2>1
  <2>3. /\ SubSeq(ms, q, n) \in Seq(Messages)
        /\ Len(SubSeq(ms, q, n)) = IF q <= n THEN n - q + 1 ELSE 0
        /\ \A i \in 1..(n - q + 1) : SubSeq(ms, q, n)[i] = ms[q + i - 1]
    <3>1. \A i \in q..n : ms[i] \in Messages
      BY <2>1, <2>2
    <3> QED
      BY <3>1, SubSeqProperties
  <2>4. q <= n /\ n - q + 1 = 2 /\ 1 \in 1..(n - q + 1) /\ 2 \in 1..(n - q + 1)
        /\ q + 1 - 1 = n - 1 /\ q + 2 - 1 = n
    BY <2>2
  <2> QED
    BY <1>3, <2>2, <2>3, <2>4
<1>5. PICK x \in Seq(Messages) : x = <<Summary>> /\ Len(x) = 1 /\ x[1] = Summary
  <2>1. <<Summary>> \in Seq(Messages) /\ Len(<<Summary>>) = 1 /\ <<Summary>>[1] = Summary
    BY <1>2
  <2> QED
    BY <2>1
<1>y. y \in Seq(Messages)
  BY <1>4
<1>6. /\ x \o y \in Seq(Messages) /\ Len(x \o y) = Len(x) + Len(y)
      /\ \A i \in 1..(Len(x) + Len(y)) : (x \o y)[i] = IF i <= Len(x) THEN x[i] ELSE y[i - Len(x)]
  BY <1>y, ConcatProperties
<1>7. /\ Len(x \o y) = 3 /\ (x \o y)[1] = x[1] /\ (x \o y)[2] = y[1] /\ (x \o y)[3] = y[2]
  BY <1>4, <1>5, <1>6
<1> QED
  BY <1>1, <1>3, <1>4, <1>5, <1>6, <1>7

-----------------------------------------------------------------------------
(* The types.  An id that the provider gave is the number of one of the    *)
(* copies it keeps.                                                        *)
WireTypeOK ==
  /\ provider \in Providers /\ streaming \in BOOLEAN
  /\ view \in Seq(Messages) /\ view # <<>>
  /\ dialogue \in Seq(Messages) /\ dialogue # <<>>
  /\ kept \in Seq(Seq(Items)) /\ worksOn \in Seq(Items)
  /\ provider = "responses" => \A i \in 1..Len(view) : view[i].response \in 0..Len(kept)
  /\ wire \in Streams /\ spoken \in Nat /\ tracked \in Seq(Calls) /\ ended \subseteq Calls
  /\ asm \in Assemblies

(* A stream begins with nothing.                                           *)
LEMMA NewTyped == NewAsm \in Assemblies /\ NewWire \in Streams
<1>1. <<>> \in Seq(Answers) /\ <<>> \in Seq(Nat)
  OBVIOUS
<1>2. [c \in Calls |-> <<>>] \in [Calls -> Seq(Nat)]
  BY <1>1
<1> QED
  BY <1>1, <1>2 DEF NewAsm, Assemblies, NewWire, Streams

(* The message of a context builder is one without an id.                  *)
LEMMA ContextTyped ==
  ASSUME WireTypeOK
  PROVE  /\ ContextMessage \in Messages /\ ContextMessage.response = 0
         /\ ContextMessage.role = "context"
<1>1. PICK x \in Messages :
        x = [id |-> 0, role |-> "context", calls |-> <<>>, response |-> 0]
  <2>1. <<>> \in Seq(Calls)
    OBVIOUS
  <2> QED
    BY <2>1 DEF Messages
<1>2. PICK n \in Nat : n = Len(dialogue) + 1
  <2>1. Len(dialogue) + 1 \in Nat
    BY DEF WireTypeOK
  <2> QED
    BY <2>1
<1>3. ContextMessage = [x EXCEPT !.id = n]
  BY <1>1, <1>2 DEF ContextMessage, Numbered
<1> QED
  BY <1>1, <1>2, <1>3 DEF Messages

(* A message more, with or without an id the provider keeps.               *)
LEMMA OneMessageMore ==
  ASSUME NEW ms \in Seq(Messages), NEW m \in Messages, NEW n \in Nat, NEW k \in Nat, k <= n,
         \A i \in 1..Len(ms) : ms[i].response \in 0..k, m.response \in 0..n
  PROVE  /\ Append(ms, m) \in Seq(Messages) /\ Append(ms, m) # <<>>
         /\ Len(Append(ms, m)) = Len(ms) + 1 /\ Append(ms, m)[Len(ms) + 1] = m
         /\ Last(Append(ms, m)) = m
         /\ \A i \in 1..Len(ms) : Append(ms, m)[i] = ms[i]
         /\ \A i \in 1..Len(Append(ms, m)) : Append(ms, m)[i].response \in 0..n
<1>1. PICK ns \in Seq(Messages) :
        /\ ns = Append(ms, m) /\ Len(ns) = Len(ms) + 1 /\ Len(ms) \in Nat /\ ns # <<>>
        /\ ns[Len(ms) + 1] = m /\ \A i \in 1..Len(ms) : ns[i] = ms[i]
  <2>1. /\ Append(ms, m) \in Seq(Messages) /\ Len(Append(ms, m)) = Len(ms) + 1 /\ Len(ms) \in Nat
        /\ Append(ms, m) # <<>>
        /\ Append(ms, m)[Len(ms) + 1] = m /\ \A i \in 1..Len(ms) : Append(ms, m)[i] = ms[i]
    OBVIOUS
  <2> QED
    BY <2>1
<1>2. \A i \in 1..Len(ns) : ns[i].response \in 0..n
  <2> SUFFICES ASSUME NEW i \in 1..Len(ns) PROVE ns[i].response \in 0..n
    OBVIOUS
  <2>1. CASE i \in 1..Len(ms)
    <3>1. PICK v : v = ms[i].response
      OBVIOUS
    <3>2. v \in 0..k
      BY <2>1, <3>1
    <3>3. v \in 0..n
      BY <3>2
    <3> QED
      BY <1>1, <2>1, <3>1, <3>3
  <2>2. CASE i = Len(ms) + 1
    BY <1>1, <2>2
  <2> QED
    BY <1>1, <2>1, <2>2
<1> QED
  BY <1>1, <1>2 DEF Last

(* What is asked: the view, with the context of the request or without.    *)
LEMMA SendAsks ==
  ASSUME WireTypeOK, Send
  PROVE  \E ms \in Seq(Messages) :
           /\ \/ ms = view /\ dialogue' = dialogue
              \/ ms = Append(view, ContextMessage) /\ dialogue' = Append(dialogue, ContextMessage)
           /\ worksOn' = IF provider \in {"anthropic", "gemini"} THEN AnthropicMessages(ms)
                         ELSE IF provider = "responses" THEN StatefulPayload(ms)
                         ELSE ResponsesInput(ms)
           /\ provider = "responses" => \A i \in 1..Len(ms) : ms[i].response \in 0..Len(kept)
<1>1. PICK ms \in {view, Append(view, ContextMessage)} :
        /\ dialogue' = IF ms = view THEN dialogue ELSE Append(dialogue, ContextMessage)
        /\ worksOn' = CASE provider = "anthropic" -> AnthropicMessages(ms)
                        [] provider = "chat" -> ChatMessages(ms)
                        [] provider = "gemini" -> GeminiContents(ms)
                        [] provider = "responses" -> StatefulPayload(ms)
  BY DEF Send
<1>2. ChatMessages(ms) = ResponsesInput(ms) /\ GeminiContents(ms) = AnthropicMessages(ms)
  BY DEF ChatMessages, ResponsesInput, GeminiContents, AnthropicMessages
<1>3. provider \in {"anthropic", "chat", "responses", "gemini"}
  BY DEF WireTypeOK, Providers
<1>4. worksOn' = IF provider \in {"anthropic", "gemini"} THEN AnthropicMessages(ms)
                 ELSE IF provider = "responses" THEN StatefulPayload(ms)
                 ELSE ResponsesInput(ms)
  BY <1>1, <1>2, <1>3
<1>5. view \in Seq(Messages) /\ Len(view) \in Nat /\ Len(kept) \in Nat
  BY DEF WireTypeOK
<1>6. CASE ms = view
  BY <1>1, <1>4, <1>5, <1>6 DEF WireTypeOK
<1>7. CASE ms # view
  <2>1. PICK c \in Messages : c = ContextMessage /\ c.response = 0
    BY ContextTyped
  <2>2. ms = Append(view, c) /\ ms \in Seq(Messages)
    BY <1>1, <1>5, <1>7, <2>1
  <2>3. provider = "responses" => \A i \in 1..Len(ms) : ms[i].response \in 0..Len(kept)
    <3> SUFFICES ASSUME provider = "responses"
                 PROVE  \A i \in 1..Len(ms) : ms[i].response \in 0..Len(kept)
      OBVIOUS
    <3>1. \A i \in 1..Len(view) : view[i].response \in 0..Len(kept)
      BY DEF WireTypeOK
    <3>2. PICK n \in Nat : n = Len(kept)
      BY <1>5
    <3>3. c.response \in 0..n
      BY <2>1
    <3> QED
      BY <1>5, <2>2, <3>1, <3>2, <3>3, OneMessageMore
  <2> QED
    BY <1>1, <1>4, <1>7, <2>1, <2>2, <2>3
<1> QED
  BY <1>6, <1>7

(* A request is made of items, from whatever the adapter takes them.       *)
LEMMA SendTyped == WireTypeOK /\ Send => WireTypeOK'
<1> SUFFICES ASSUME WireTypeOK, Send PROVE WireTypeOK'
  OBVIOUS
<1>1. PICK ms \in Seq(Messages) :
        /\ \/ ms = view /\ dialogue' = dialogue
           \/ ms = Append(view, ContextMessage) /\ dialogue' = Append(dialogue, ContextMessage)
        /\ worksOn' = IF provider \in {"anthropic", "gemini"} THEN AnthropicMessages(ms)
                      ELSE IF provider = "responses" THEN StatefulPayload(ms)
                      ELSE ResponsesInput(ms)
        /\ provider = "responses" => \A i \in 1..Len(ms) : ms[i].response \in 0..Len(kept)
  BY SendAsks
<1>2. worksOn' \in Seq(Items)
  <2>1. AnthropicMessages(ms) \in Seq(Items) /\ ResponsesInput(ms) \in Seq(Items)
    BY TextTyped, LayoutTyped
  <2>2. provider = "responses" => StatefulPayload(ms) \in Seq(Items)
    BY <1>1, PayloadTyped DEF WireTypeOK
  <2> QED
    BY <1>1, <2>1, <2>2
<1>3. dialogue' \in Seq(Messages) /\ dialogue' # <<>>
  <2>1. dialogue \in Seq(Messages) /\ dialogue # <<>>
    BY DEF WireTypeOK
  <2>2. PICK c \in Messages : c = ContextMessage
    BY ContextTyped
  <2>3. Append(dialogue, c) \in Seq(Messages) /\ Append(dialogue, c) # <<>>
    BY <2>1
  <2> QED
    BY <1>1, <2>1, <2>2, <2>3
<1>4. /\ tracked' = <<>> /\ ended' = {} /\ spoken' = 0 /\ streaming' = TRUE
      /\ wire' = NewWire /\ asm' = NewAsm
      /\ provider' = provider /\ view' = view /\ kept' = kept
  BY DEF Send
<1>5. <<>> \in Seq(Calls)
  OBVIOUS
<1> QED
  BY <1>2, <1>3, <1>4, <1>5, NewTyped DEF WireTypeOK

(* The end of a message adds the assistant's reply to the history, and,    *)
(* with the number of the reply, to the provider's own copy.               *)
LEMMA EndTyped == WireTypeOK /\ MessageEnd =>
  \E new \in Messages :
    /\ view' = Append(view, new) /\ dialogue' = Append(dialogue, new)
    /\ kept' = Append(kept, worksOn \o ResponsesInput(<<new>>))
    /\ new.role = "assistant"
    /\ new.response = IF provider = "responses" THEN Len(kept) + 1 ELSE 0
    /\ WireTypeOK'
<1> SUFFICES ASSUME WireTypeOK, MessageEnd
             PROVE  \E new \in Messages :
                      /\ view' = Append(view, new) /\ dialogue' = Append(dialogue, new)
                      /\ kept' = Append(kept, worksOn \o ResponsesInput(<<new>>))
                      /\ new.role = "assistant"
                      /\ new.response = IF provider = "responses" THEN Len(kept) + 1 ELSE 0
                      /\ WireTypeOK'
  OBVIOUS
<1>1. asm' \in Assemblies
  <2>1. ChatFlush(asm) \in Assemblies
    <3>1. PICK g : FlushOver(asm, g) /\ ChatFlush(asm) = g[Len(tracked)]
      BY FlushExists DEF WireTypeOK
    <3>2. Len(tracked) \in 0..Len(tracked)
      BY DEF WireTypeOK
    <3>3. \A n \in 0..Len(tracked) : g[n] \in Assemblies
      BY <3>1, FlushSteps DEF WireTypeOK
    <3> QED
      BY <3>1, <3>2, <3>3
  <2>2. (IF provider = "chat" THEN ChatFlush(asm) ELSE asm) \in Assemblies
    BY <2>1 DEF WireTypeOK
  <2> QED
    BY <2>2, Flushed DEF MessageEnd
<1>2. CallsOf(asm'.content) \in Seq(Calls)
  BY <1>1, CallsTyped DEF Assemblies
<1>3. Len(dialogue) + 1 \in Nat
  BY DEF WireTypeOK
<1>4. PICK r \in Nat : r = IF provider = "responses" THEN Len(kept) + 1 ELSE 0
  <2>1. Len(kept) + 1 \in Nat /\ 0 \in Nat
    BY DEF WireTypeOK
  <2> QED
    BY <2>1
<1>5. PICK new \in Messages :
        new = [id |-> Len(dialogue) + 1, role |-> "assistant",
                 calls |-> CallsOf(asm'.content), response |-> r]
  BY <1>2, <1>3 DEF Messages
<1>6. /\ view' = Append(view, new) /\ dialogue' = Append(dialogue, new)
      /\ kept' = Append(kept, worksOn \o ResponsesInput(<<new>>))
  <2>1. new = Numbered([id |-> 0, role |-> "assistant", calls |-> CallsOf(asm'.content),
                        response |-> r])
    BY <1>5 DEF Numbered
  <2> QED
    BY <1>4, <2>1 DEF MessageEnd
<1>7. PICK x \in Seq(Items) : x = worksOn \o ResponsesInput(<<new>>)
  <2>1. <<new>> \in Seq(Messages)
    OBVIOUS
  <2>2. ResponsesInput(<<new>>) \in Seq(Items)
    BY <2>1, LayoutTyped
  <2>3. PICK z \in Seq(Items) : z = ResponsesInput(<<new>>)
    BY <2>2
  <2>4. worksOn \o z \in Seq(Items)
    BY DEF WireTypeOK
  <2> QED
    BY <2>3, <2>4
<1>8. /\ view' \in Seq(Messages) /\ view' # <<>> /\ Len(view') = Len(view) + 1
      /\ \A i \in 1..Len(view) : view'[i] = view[i]
      /\ view'[Len(view) + 1] = new
  <2>1. view \in Seq(Messages) /\ view' = Append(view, new)
    BY <1>6 DEF WireTypeOK
  <2>2. PICK s \in Seq(Messages) : s = view
    BY <2>1
  <2>3. Append(s, new) \in Seq(Messages) /\ Append(s, new) # <<>>
    BY AppendProperties
  <2>4. Len(Append(s, new)) = Len(s) + 1 /\ Append(s, new)[Len(s) + 1] = new
    BY AppendProperties
  <2>5. \A i \in 1..Len(s) : Append(s, new)[i] = s[i]
    BY AppendProperties
  <2> QED
    BY <2>1, <2>2, <2>3, <2>4, <2>5
<1>d. dialogue' \in Seq(Messages) /\ dialogue' # <<>>
  <2>1. dialogue \in Seq(Messages)
    BY DEF WireTypeOK
  <2> QED
    BY <1>6, <2>1, AppendProperties
<1>9. kept' \in Seq(Seq(Items)) /\ Len(kept') = Len(kept) + 1
  BY <1>6, <1>7 DEF WireTypeOK
<1>10. provider = "responses" => \A i \in 1..Len(view') : view'[i].response \in 0..Len(kept')
  <2> SUFFICES ASSUME provider = "responses", NEW i \in 1..Len(view')
               PROVE  view'[i].response \in 0..Len(kept')
    OBVIOUS
  <2>1. Len(kept) \in Nat /\ Len(view) \in Nat
    BY DEF WireTypeOK
  <2>2. CASE i \in 1..Len(view)
    <3>1. PICK v : v = view[i].response
      OBVIOUS
    <3>2. v \in 0..Len(kept)
      BY <2>2, <3>1 DEF WireTypeOK
    <3>3. view'[i].response = v
      BY <1>8, <2>2, <3>1
    <3>4. v \in 0..(Len(kept) + 1)
      BY <2>1, <3>2
    <3> QED
      BY <1>9, <3>3, <3>4
  <2>3. CASE i = Len(view) + 1
    <3>1. view'[i].response = r /\ r = Len(kept) + 1
      BY <1>4, <1>5, <1>8, <2>3
    <3> QED
      BY <1>9, <2>1, <3>1
  <2> QED
    BY <1>8, <2>1, <2>2, <2>3
<1>11. /\ streaming' = FALSE /\ provider' = provider /\ worksOn' = worksOn /\ wire' = wire
       /\ spoken' = spoken /\ tracked' = tracked /\ ended' = ended
  BY DEF MessageEnd
<1>12. WireTypeOK'
  BY <1>1, <1>8, <1>d, <1>9, <1>10, <1>11 DEF WireTypeOK
<1> QED
  BY <1>4, <1>5, <1>6, <1>12

(* Setting one field of a call's stream leaves the other as it is.         *)
LEMMA StreamSet ==
  ASSUME wire \in Streams, NEW c \in Calls, NEW x
  PROVE  /\ wire[c].sent \in Nat /\ wire[c].state \in {"unsent", "open", "over"}
         /\ [wire EXCEPT ![c].state = x] = [wire EXCEPT ![c] = [sent |-> wire[c].sent, state |-> x]]
         /\ [wire EXCEPT ![c].sent = @ + 1]
              = [wire EXCEPT ![c] = [sent |-> wire[c].sent + 1, state |-> wire[c].state]]
<1>1. PICK w \in [sent : Nat, state : {"unsent", "open", "over"}] : w = wire[c]
  BY DEF Streams
<1>2. w.sent \in Nat /\ w.state \in {"unsent", "open", "over"}
  OBVIOUS
<1>3. [w EXCEPT !.state = x] = [sent |-> w.sent, state |-> x]
  OBVIOUS
<1>4. [w EXCEPT !.sent = @ + 1] = [sent |-> w.sent + 1, state |-> w.state]
  OBVIOUS
<1>5. [wire EXCEPT ![c].state = x] = [wire EXCEPT ![c] = [w EXCEPT !.state = x]]
  BY <1>1
<1>6. [wire EXCEPT ![c].sent = @ + 1] = [wire EXCEPT ![c] = [w EXCEPT !.sent = @ + 1]]
  BY <1>1
<1> QED
  BY <1>1, <1>2, <1>3, <1>4, <1>5, <1>6

(* The provider's own state is typed whatever it streams.                  *)
LEMMA StreamTyped == WireTypeOK /\ (TextDelta \/ \E c \in Calls : CallStarts(c) \/ InputDelta(c)
                                      \/ CallStops(c) \/ GeminiPart(c)) => WireTypeOK'
<1> SUFFICES ASSUME WireTypeOK,
                    TextDelta \/ \E c \in Calls : CallStarts(c) \/ InputDelta(c)
                                   \/ CallStops(c) \/ GeminiPart(c)
             PROVE  WireTypeOK'
  OBVIOUS
<1> DEFINE Streamy == /\ wire' \in Streams /\ spoken' \in Nat /\ tracked' \in Seq(Calls)
                      /\ ended' \subseteq Calls /\ asm' \in Assemblies
<1>1. \A c \in Calls : /\ wire[c] \in [sent : Nat, state : {"unsent", "open", "over"}]
                       /\ wire[c].sent \in Nat
                       /\ wire[c].state \in {"unsent", "open", "over"}
  BY DEF WireTypeOK, Streams
<1>2. \A c \in Calls, n \in Nat, st \in {"unsent", "open", "over"} :
        [wire EXCEPT ![c] = [sent |-> n, state |-> st]] \in Streams
  BY DEF WireTypeOK, Streams
<1>3. CASE TextDelta
  <2>1. PICK n \in Nat : n = spoken + 1
    BY DEF WireTypeOK
  <2>2. asm' = OnTextDelta(asm, n) /\ spoken' = n /\ wire' = wire /\ tracked' = tracked /\ ended' = ended
    BY <1>3, <2>1 DEF TextDelta
  <2>3. OnTextDelta(asm, n) \in Assemblies
    BY Told DEF WireTypeOK
  <2> QED
    BY <1>3, <2>2, <2>3 DEF TextDelta, WireTypeOK
<1>4. ASSUME NEW c \in Calls, CallStarts(c) PROVE WireTypeOK'
  <2>1. PICK n \in Nat : n = wire[c].sent
    BY <1>1
  <2>2. wire' = [wire EXCEPT ![c] = [sent |-> n, state |-> "open"]]
    BY <1>4, <2>1, StreamSet DEF CallStarts, WireTypeOK
  <2>3. tracked' = Append(tracked, c) /\ Append(tracked, c) \in Seq(Calls)
    BY <1>4 DEF CallStarts, WireTypeOK
  <2>4. asm' = OnStart(asm, c) /\ OnStart(asm, c) \in Assemblies
    BY <1>4, Started DEF CallStarts, WireTypeOK
  <2>5. wire' \in Streams
    BY <1>2, <2>2
  <2>6. tracked' \in Seq(Calls) /\ asm' \in Assemblies
    BY <2>3, <2>4
  <2>7. UNCHANGED <<ended, spoken>>
    BY <1>4 DEF CallStarts
  <2> QED
    BY <1>4, <2>5, <2>6, <2>7 DEF CallStarts, WireTypeOK
<1>5. ASSUME NEW c \in Calls, InputDelta(c) PROVE WireTypeOK'
  <2>1. PICK n \in Nat, st \in {"unsent", "open", "over"} : n = wire[c].sent + 1 /\ st = wire[c].state
    BY <1>1
  <2>2. wire' = [wire EXCEPT ![c] = [sent |-> n, state |-> st]]
    BY <1>5, <2>1, StreamSet DEF InputDelta, WireTypeOK
  <2>3. wire'[c].sent = n
    BY <2>2 DEF WireTypeOK, Streams
  <2>4. asm' = OnInputDelta(asm, c, n) /\ OnInputDelta(asm, c, n) \in Assemblies
    <3>1. asm' = OnInputDelta(asm, c, n)
      BY <1>5, <2>3 DEF InputDelta, Routed
    <3>2. asm \in Assemblies
      BY DEF WireTypeOK
    <3> QED
      BY <3>1, <3>2, Streamed
  <2>5. wire' \in Streams
    BY <1>2, <2>2
  <2>6. asm' \in Assemblies
    BY <2>4
  <2>7. /\ spoken' = spoken /\ tracked' = tracked /\ ended' = ended /\ provider' = provider
        /\ streaming' = streaming /\ view' = view /\ dialogue' = dialogue
        /\ kept' = kept /\ worksOn' = worksOn
    BY <1>5 DEF InputDelta
  <2> QED
    BY <2>5, <2>6, <2>7 DEF WireTypeOK
<1>6. ASSUME NEW c \in Calls, CallStops(c) PROVE WireTypeOK'
  <2>1. PICK n \in Nat : n = wire[c].sent
    BY <1>1
  <2>2. wire' = [wire EXCEPT ![c] = [sent |-> n, state |-> "over"]]
    BY <1>6, <2>1, StreamSet DEF CallStops, WireTypeOK
  <2>3. asm' = OnEnd(asm, c) /\ OnEnd(asm, c) \in Assemblies
    BY <1>6, Ended DEF CallStops, WireTypeOK
  <2>4. ended' \subseteq Calls
    BY <1>6 DEF CallStops, WireTypeOK
  <2> QED
    BY <1>2, <1>6, <2>2, <2>3, <2>4 DEF CallStops, WireTypeOK
<1>7. ASSUME NEW c \in Calls, GeminiPart(c) PROVE WireTypeOK'
  <2>1. wire' = [wire EXCEPT ![c] = [sent |-> 1, state |-> "over"]] /\ wire' \in Streams
    BY <1>2, <1>7 DEF GeminiPart
  <2>2. OnEnd(OnInputDelta(OnStart(asm, c), c, 1), c) \in Assemblies
    <3>1. OnStart(asm, c) \in Assemblies
      BY Started DEF WireTypeOK
    <3>2. OnInputDelta(OnStart(asm, c), c, 1) \in Assemblies
      BY <3>1, Streamed
    <3> QED
      BY <3>2, Ended
  <2>3. asm' \in Assemblies /\ ended' \subseteq Calls
    BY <1>7, <2>2 DEF GeminiPart, WireTypeOK
  <2> QED
    BY <1>7, <2>1, <2>3 DEF GeminiPart, WireTypeOK
<1> QED
  BY <1>3, <1>4, <1>5, <1>6, <1>7

(* An answer is the next message; a compaction leaves three.               *)
LEMMA AnswerTyped == WireTypeOK /\ Answer =>
  \E m \in Messages : /\ view' = Append(view, m) /\ dialogue' = Append(dialogue, m)
                      /\ m.response = 0 /\ m.role = "user" /\ WireTypeOK'
<1> SUFFICES ASSUME WireTypeOK, Answer
             PROVE  \E m \in Messages :
                      /\ view' = Append(view, m) /\ dialogue' = Append(dialogue, m)
                      /\ m.response = 0 /\ m.role = "user" /\ WireTypeOK'
  OBVIOUS
<1>1. PICK old \in Messages : old = Last(view)
  <2>1. Len(view) \in 1..Len(view)
    BY DEF WireTypeOK
  <2> QED
    BY <2>1 DEF WireTypeOK, Last
<1>2. PICK m \in Messages :
        m = [id |-> Len(dialogue) + 1, role |-> "user", calls |-> old.calls, response |-> 0]
  <2>1. Len(dialogue) + 1 \in Nat /\ old.calls \in Seq(Calls) /\ 0 \in Nat
    BY DEF Messages, WireTypeOK
  <2> QED
    BY <2>1 DEF Messages
<1>3. view' = Append(view, m) /\ dialogue' = Append(dialogue, m)
  <2>1. m = Numbered([id |-> 0, role |-> "user", calls |-> old.calls, response |-> 0])
    BY <1>2 DEF Numbered
  <2> QED
    BY <1>1, <2>1 DEF Answer
<1>d. dialogue' \in Seq(Messages) /\ dialogue' # <<>>
  <2>1. dialogue \in Seq(Messages)
    BY DEF WireTypeOK
  <2> QED
    BY <1>3, <2>1
<1>4. /\ view' \in Seq(Messages) /\ view' # <<>> /\ Len(view') = Len(view) + 1 /\ Len(view) \in Nat
      /\ \A i \in 1..Len(view) : view'[i] = view[i]
      /\ view'[Len(view) + 1] = m
  <2>1. view \in Seq(Messages)
    BY DEF WireTypeOK
  <2> QED
    BY <1>3, <2>1
<1>5. provider = "responses" => \A i \in 1..Len(view') : view'[i].response \in 0..Len(kept)
  <2> SUFFICES ASSUME provider = "responses", NEW i \in 1..Len(view')
               PROVE  view'[i].response \in 0..Len(kept)
    OBVIOUS
  <2>1. CASE i \in 1..Len(view)
    BY <1>4, <2>1 DEF WireTypeOK
  <2>2. CASE i = Len(view) + 1
    <3>1. 0 \in 0..Len(kept)
      BY DEF WireTypeOK
    <3> QED
      BY <1>2, <1>4, <2>2, <3>1
  <2> QED
    BY <1>4, <2>1, <2>2
<1>6. WireTypeOK'
  BY <1>4, <1>d, <1>5 DEF Answer, WireTypeOK
<1> QED
  BY <1>2, <1>3, <1>6

(* A compaction leaves a history whose last message is the last.           *)
LEMMA CompactTyped == WireTypeOK /\ Compact =>
  /\ WireTypeOK' /\ Len(view') = 3 /\ view'[3] = view[Len(view)] /\ Len(view) \in Nat
<1> SUFFICES ASSUME WireTypeOK, Compact
             PROVE  WireTypeOK' /\ Len(view') = 3 /\ view'[3] = view[Len(view)] /\ Len(view) \in Nat
  OBVIOUS
<1>1. /\ view' = <<Summary>> \o SubSeq(view, Len(view) - 1, Len(view))
      /\ Len(view) \in Nat /\ Len(view) > 2
  BY DEF Compact, Summary, WireTypeOK
<1>2. /\ view' \in Seq(Messages) /\ Len(view') = 3
      /\ view'[1] = Summary /\ view'[2] = view[Len(view) - 1] /\ view'[3] = view[Len(view)]
  BY <1>1, CompactLeaves DEF WireTypeOK
<1>3. view' # <<>>
  <2>1. Len(view') = 3
    BY <1>2
  <2> QED
    BY <2>1
<1>4. provider = "responses" => \A i \in 1..Len(view') : view'[i].response \in 0..Len(kept)
  <2> SUFFICES ASSUME provider = "responses" PROVE \A i \in 1..3 : view'[i].response \in 0..Len(kept)
    BY <1>2
  <2>1. Len(view) - 1 \in 1..Len(view) /\ Len(view) \in 1..Len(view)
    BY <1>1
  <2>2. view'[2].response \in 0..Len(kept) /\ view'[3].response \in 0..Len(kept)
    BY <1>2, <2>1 DEF WireTypeOK
  <2>3. view'[1].response = 0 /\ 0 \in 0..Len(kept)
    BY <1>2 DEF Summary, WireTypeOK
  <2>4. \A i \in 1..3 : i = 1 \/ i = 2 \/ i = 3
    OBVIOUS
  <2> QED
    BY <2>2, <2>3, <2>4
<1>5. WireTypeOK'
  BY <1>2, <1>3, <1>4 DEF Compact, WireTypeOK
<1> QED
  BY <1>1, <1>2, <1>5

(* The types hold in every state.                                          *)
LEMMA WireTypes == WireSpec => []WireTypeOK
<1>1. WireInit => WireTypeOK
  <2> SUFFICES ASSUME WireInit PROVE WireTypeOK
    OBVIOUS
  <2>1. PICK m \in Messages : m = [id |-> 1, role |-> "user", calls |-> <<>>, response |-> 0]
    <3>1. <<>> \in Seq(Calls)
      OBVIOUS
    <3> QED
      BY <3>1 DEF Messages
  <2>2. view = <<m>> /\ dialogue = <<m>>
    BY <2>1 DEF WireInit
  <2>d. dialogue \in Seq(Messages) /\ dialogue # <<>>
    BY <2>2
  <2>3. /\ view \in Seq(Messages) /\ view # <<>> /\ Len(view) = 1 /\ view[1].response = 0
    BY <2>1, <2>2
  <2>4. kept \in Seq(Seq(Items)) /\ worksOn \in Seq(Items) /\ Len(kept) = 0
    BY DEF WireInit
  <2>5. \A i \in 1..Len(view) : view[i].response \in 0..Len(kept)
    BY <2>3, <2>4
  <2>6. /\ tracked \in Seq(Calls) /\ ended \subseteq Calls /\ spoken \in Nat
        /\ streaming \in BOOLEAN /\ provider \in Providers /\ wire = NewWire /\ asm = NewAsm
    <3>1. <<>> \in Seq(Calls)
      OBVIOUS
    <3> QED
      BY <3>1 DEF WireInit
  <2> QED
    BY <2>3, <2>d, <2>4, <2>5, <2>6, NewTyped DEF WireTypeOK
<1>2. WireTypeOK /\ [WireNext]_wireVars => WireTypeOK'
  <2> SUFFICES ASSUME WireTypeOK, [WireNext]_wireVars PROVE WireTypeOK'
    OBVIOUS
  <2>1. CASE WireNext
    BY <2>1, SendTyped, EndTyped, StreamTyped, AnswerTyped, CompactTyped DEF WireNext
  <2>2. CASE UNCHANGED wireVars
    BY <2>2 DEF wireVars, WireTypeOK
  <2> QED
    BY <2>1, <2>2
<1> QED
  BY <1>1, <1>2, PTL DEF WireSpec

-----------------------------------------------------------------------------
(* A history laid out message by message, in whatever order within each,   *)
(* shows every message of it once, in order.                               *)
LEMMA Shown ==
  ASSUME NEW ms \in Seq(Messages), NEW ss \in Seq(Seq(Items)), Len(ss) = Len(ms),
         \A i \in 1..Len(ms) :
           /\ Len(ss[i]) = Len(TextFirst(ms[i]))
           /\ \A k \in 1..Len(ss[i]) : ss[i][k].message = ms[i].id
           /\ ToSet(TextFirst(ms[i])) \subseteq ToSet(ss[i])
  PROVE  /\ [i \in DOMAIN FlattenSeq(ss) |-> FlattenSeq(ss)[i].message]
              = FlattenSeq([i \in DOMAIN ms |-> [k \in DOMAIN TextFirst(ms[i]) |-> ms[i].id]])
         /\ \A m \in ToSet(ms) : ToSet(TextFirst(m)) \subseteq ToSet(FlattenSeq(ss))
<1> DEFINE ts == [i \in DOMAIN ms |-> [k \in DOMAIN TextFirst(ms[i]) |-> ms[i].id]]
<1>1. /\ Len(ms) \in Nat /\ DOMAIN ms = 1..Len(ms)
      /\ \A i \in 1..Len(ms) : ms[i] \in Messages /\ ms[i].id \in Nat
  <2>1. /\ Len(ms) \in Nat /\ DOMAIN ms = 1..Len(ms) /\ \A i \in 1..Len(ms) : ms[i] \in Messages
    OBVIOUS
  <2>2. \A m \in Messages : m.id \in Nat
    BY DEF Messages
  <2> QED
    BY <2>1, <2>2
<1>2. \A i \in 1..Len(ms) : /\ Len(TextFirst(ms[i])) \in Nat
                            /\ DOMAIN TextFirst(ms[i]) = 1..Len(TextFirst(ms[i]))
  <2> SUFFICES ASSUME NEW i \in 1..Len(ms)
               PROVE  /\ Len(TextFirst(ms[i])) \in Nat
                      /\ DOMAIN TextFirst(ms[i]) = 1..Len(TextFirst(ms[i]))
    OBVIOUS
  <2>1. TextFirst(ms[i]) \in Seq(Items)
    BY <1>1, ItemsOf
  <2> QED
    BY <2>1
<1>3. \A i \in 1..Len(ms) : /\ ts[i] = [k \in 1..Len(TextFirst(ms[i])) |-> ms[i].id]
                            /\ ts[i] \in Seq(Nat)
                            /\ Len(ts[i]) = Len(TextFirst(ms[i]))
                            /\ \A k \in 1..Len(ts[i]) : ts[i][k] = ms[i].id
  <2> SUFFICES ASSUME NEW i \in 1..Len(ms)
               PROVE  /\ ts[i] = [k \in 1..Len(TextFirst(ms[i])) |-> ms[i].id]
                      /\ ts[i] \in Seq(Nat)
                      /\ Len(ts[i]) = Len(TextFirst(ms[i]))
                      /\ \A k \in 1..Len(ts[i]) : ts[i][k] = ms[i].id
    OBVIOUS
  <2>1. ts[i] = [k \in 1..Len(TextFirst(ms[i])) |-> ms[i].id]
    BY <1>1, <1>2
  <2> HIDE DEF ts
  <2>2. PICK n \in Nat, x \in Nat : n = Len(TextFirst(ms[i])) /\ x = ms[i].id
    BY <1>1, <1>2
  <2>3. PICK t : t = ts[i]
    OBVIOUS
  <2>4. t = [k \in 1..n |-> x]
    BY <2>1, <2>2, <2>3
  <2>5. t \in Seq(Nat) /\ Len(t) = n /\ \A k \in 1..Len(t) : t[k] = x
    BY <2>4
  <2> QED
    BY <2>1, <2>2, <2>3, <2>5
<1>4. ts \in Seq(Seq(Nat)) /\ Len(ts) = Len(ss)
  <2>1. PICK n \in Nat : n = Len(ms)
    BY <1>1
  <2>2. ts = [i \in 1..n |-> ts[i]]
    BY <1>1, <2>1
  <2> HIDE DEF ts
  <2>3. \A i \in 1..n : ts[i] \in Seq(Nat)
    BY <1>3, <2>1
  <2>4. PICK t : t = ts
    OBVIOUS
  <2>5. t = [i \in 1..n |-> t[i]] /\ \A i \in 1..n : t[i] \in Seq(Nat)
    BY <2>2, <2>3, <2>4
  <2>6. t \in Seq(Seq(Nat)) /\ Len(t) = n
    <3>1. PICK X : X = Seq(Nat)
      OBVIOUS
    <3>2. \A i \in 1..n : t[i] \in X
      BY <2>5, <3>1
    <3>3. PICK u : u = [i \in 1..n |-> t[i]]
      OBVIOUS
    <3>4. u \in Seq(X) /\ Len(u) = n
      BY <3>2, <3>3
    <3> QED
      BY <2>5, <3>1, <3>3, <3>4
  <2> QED
    BY <2>1, <2>4, <2>6
<1> HIDE DEF ts
<1>5. [i \in DOMAIN FlattenSeq(ss) |-> FlattenSeq(ss)[i].message] = FlattenSeq(ts)
  <2>1. ASSUME NEW i \in 1..Len(ss)
        PROVE  /\ Len(ts[i]) = Len(ss[i])
               /\ \A k \in 1..Len(ss[i]) : ts[i][k] = ss[i][k].message
    <3>1. i \in 1..Len(ms)
      OBVIOUS
    <3>2. Len(ts[i]) = Len(ss[i]) /\ \A k \in 1..Len(ts[i]) : ts[i][k] = ms[i].id
      BY <1>3, <3>1
    <3>3. \A k \in 1..Len(ss[i]) : ss[i][k].message = ms[i].id
      BY <3>1
    <3> QED
      BY <3>2, <3>3
  <2> QED
    BY <1>4, <2>1, FlatTold
<1>6. \A m \in ToSet(ms) : ToSet(TextFirst(m)) \subseteq ToSet(FlattenSeq(ss))
  <2> SUFFICES ASSUME NEW m \in ToSet(ms) PROVE ToSet(TextFirst(m)) \subseteq ToSet(FlattenSeq(ss))
    OBVIOUS
  <2>1. PICK i \in 1..Len(ms) : m = ms[i]
    BY <1>1 DEF ToSet
  <2>2. i \in 1..Len(ss)
    OBVIOUS
  <2>3. ToSet(ss[i]) \subseteq ToSet(FlattenSeq(ss))
    BY <2>2, FlatHas
  <2>4. ToSet(TextFirst(ms[i])) \subseteq ToSet(ss[i])
    OBVIOUS
  <2> QED
    BY <2>1, <2>3, <2>4
<1> QED
  BY <1>5, <1>6 DEF ts

(* Either layout of the messages shows them.                               *)
LEMMA LayoutsShow ==
  ASSUME NEW ms \in Seq(Messages), NEW items,
         items \in {AnthropicMessages(ms), ResponsesInput(ms)}
  PROVE  Shows(items, ms)
<1>1. ms \in Seq(Messages) /\ DOMAIN ms = 1..Len(ms) /\ Len(ms) \in Nat
      /\ \A i \in 1..Len(ms) : ms[i] \in Messages
  OBVIOUS
<1>2. CASE items = AnthropicMessages(ms)
  <2> DEFINE ss == [i \in DOMAIN ms |-> TextFirst(ms[i])]
  <2>1. \A i \in 1..Len(ms) :
          /\ TextFirst(ms[i]) \in Seq(Items)
          /\ \A k \in 1..Len(TextFirst(ms[i])) : TextFirst(ms[i])[k].message = ms[i].id
    BY <1>1, ItemsOf
  <2>2. ss \in Seq(Seq(Items)) /\ Len(ss) = Len(ms)
    BY <1>1, <2>1
  <2>3. \A i \in 1..Len(ms) : ss[i] = TextFirst(ms[i])
    BY <1>1
  <2>4. items = FlattenSeq(ss)
    BY <1>2 DEF AnthropicMessages
  <2> HIDE DEF ss
  <2>5. \A i \in 1..Len(ms) :
          /\ Len(ss[i]) = Len(TextFirst(ms[i]))
          /\ \A k \in 1..Len(ss[i]) : ss[i][k].message = ms[i].id
          /\ ToSet(TextFirst(ms[i])) \subseteq ToSet(ss[i])
    BY <2>1, <2>3
  <2>6. /\ [i \in DOMAIN FlattenSeq(ss) |-> FlattenSeq(ss)[i].message]
             = FlattenSeq([i \in DOMAIN ms |-> [k \in DOMAIN TextFirst(ms[i]) |-> ms[i].id]])
        /\ \A m \in ToSet(ms) : ToSet(TextFirst(m)) \subseteq ToSet(FlattenSeq(ss))
    BY <1>1, <2>2, <2>5, Shown
  <2> QED
    BY <2>4, <2>6 DEF Shows
<1>3. CASE items = ResponsesInput(ms)
  <2>1. PICK ss \in Seq(Seq(Items)) : ss = Layout(ms)
    BY <1>1, LayoutTyped
  <2>2. /\ Len(ss) = Len(ms) /\ \A i \in 1..Len(ms) : ss[i] = ResultsFirst(ms[i])
        /\ items = FlattenSeq(ss)
    BY <1>1, <1>3, <2>1, LayoutTyped
  <2>3. \A i \in 1..Len(ms) :
          /\ Len(ResultsFirst(ms[i])) = Len(TextFirst(ms[i]))
          /\ \A k \in 1..Len(TextFirst(ms[i])) : ResultsFirst(ms[i])[k].message = ms[i].id
          /\ ToSet(TextFirst(ms[i])) \subseteq ToSet(ResultsFirst(ms[i]))
    BY <1>1, ItemsOf
  <2>4. \A i \in 1..Len(ms) :
          /\ Len(ss[i]) = Len(TextFirst(ms[i]))
          /\ \A k \in 1..Len(ss[i]) : ss[i][k].message = ms[i].id
          /\ ToSet(TextFirst(ms[i])) \subseteq ToSet(ss[i])
    BY <2>2, <2>3
  <2>5. /\ [i \in DOMAIN FlattenSeq(ss) |-> FlattenSeq(ss)[i].message]
             = FlattenSeq([i \in DOMAIN ms |-> [k \in DOMAIN TextFirst(ms[i]) |-> ms[i].id]])
        /\ \A m \in ToSet(ms) : ToSet(TextFirst(m)) \subseteq ToSet(FlattenSeq(ss))
    BY <1>1, <2>2, <2>4, Shown
  <2> QED
    BY <2>2, <2>5 DEF Shows
<1> QED
  BY <1>2, <1>3

(* While a reply is streamed the provider works on the view and the        *)
(* context, laid out as its adapter does, or, where it keeps the           *)
(* conversation, on all there was.  In between, what it would go on from   *)
(* is all there was too: the last reply has an id, and stays in the view   *)
(* with what follows it.                                                   *)
Continues ==
  /\ StatefulPayload(view) = ResponsesInput(dialogue)
  /\ IF Last(view).role = "assistant" THEN Last(view).response # 0
     ELSE /\ Last(view).response = 0
          /\ Len(view) > 1 => view[Len(view) - 1].response # 0
ViewInv ==
  /\ streaming => worksOn = IF provider \in {"anthropic", "gemini"} THEN AnthropicMessages(Asked)
                            ELSE IF provider = "responses" THEN ResponsesInput(dialogue)
                            ELSE ResponsesInput(Asked)
  /\ streaming => Last(view).role = "user" /\ view # <<>>
  /\ ~streaming => Last(dialogue).role # "context"
  /\ provider = "responses" /\ ~streaming => Continues
  /\ provider = "responses" /\ streaming =>
       Last(view).response = 0 /\ (Len(view) > 1 => view[Len(view) - 1].response # 0)

(* The last message of a history.                                          *)
LEMMA LastOf ==
  ASSUME NEW ms \in Seq(Messages), ms # <<>>
  PROVE  /\ Len(ms) \in Nat /\ Len(ms) \in 1..Len(ms) /\ Last(ms) = ms[Len(ms)]
         /\ Last(ms) \in Messages
<1>1. Len(ms) \in Nat /\ Len(ms) \in 1..Len(ms)
  OBVIOUS
<1> QED
  BY <1>1 DEF Last

(* What is sent, or was kept and is sent after it, is the history.         *)
LEMMA SendShows == WireTypeOK /\ ViewInv /\ Send => ViewInv'
<1> SUFFICES ASSUME WireTypeOK, ViewInv, Send PROVE ViewInv'
  OBVIOUS
<1>1. PICK ms \in Seq(Messages) :
        /\ \/ ms = view /\ dialogue' = dialogue
           \/ ms = Append(view, ContextMessage) /\ dialogue' = Append(dialogue, ContextMessage)
        /\ worksOn' = IF provider \in {"anthropic", "gemini"} THEN AnthropicMessages(ms)
                      ELSE IF provider = "responses" THEN StatefulPayload(ms)
                      ELSE ResponsesInput(ms)
        /\ provider = "responses" => \A i \in 1..Len(ms) : ms[i].response \in 0..Len(kept)
  BY SendAsks
<1>2. /\ ~streaming /\ streaming' = TRUE /\ Last(view).role = "user"
      /\ provider' = provider /\ view' = view /\ kept' = kept
  BY DEF Send
<1>3. /\ view \in Seq(Messages) /\ dialogue \in Seq(Messages) /\ kept \in Seq(Seq(Items))
      /\ dialogue # <<>> /\ view # <<>>
  BY DEF WireTypeOK
<1>4. Last(dialogue).role # "context"
  BY <1>2 DEF ViewInv
<1>5. PICK c \in Messages : c = ContextMessage /\ c.response = 0 /\ c.role = "context"
  BY ContextTyped
<1>6. ms = Asked' /\ (provider = "responses" => StatefulPayload(ms) = ResponsesInput(dialogue'))
  <2>1. CASE ms = view /\ dialogue' = dialogue
    <3>1. Asked' = view
      BY <1>2, <1>4, <2>1 DEF Asked
    <3>2. provider = "responses" => StatefulPayload(view) = ResponsesInput(dialogue)
      BY <1>2 DEF ViewInv, Continues
    <3> QED
      BY <2>1, <3>1, <3>2
  <2>2. CASE ms = Append(view, c) /\ dialogue' = Append(dialogue, c)
    <3>1. Last(dialogue') = c
      <4>1. /\ Append(dialogue, c) \in Seq(Messages) /\ Len(Append(dialogue, c)) = Len(dialogue) + 1
            /\ Append(dialogue, c)[Len(dialogue) + 1] = c
        BY <1>3
      <4> QED
        BY <2>2, <4>1 DEF Last
    <3>2. Asked' = Append(view, c)
      BY <1>2, <1>5, <3>1 DEF Asked
    <3>3. ASSUME provider = "responses"
          PROVE  StatefulPayload(ms) = ResponsesInput(dialogue')
      <4>1. StatefulPayload(view) = ResponsesInput(dialogue)
        BY <1>2, <3>3 DEF ViewInv, Continues
      <4>2. \A i \in 1..Len(view) : view[i].response \in 0..Len(kept)
        BY <3>3 DEF WireTypeOK
      <4>3. StatefulPayload(Append(view, c)) = StatefulPayload(view) \o ResponsesInput(<<c>>)
        BY <1>3, <1>5, <4>2, PayloadGrows
      <4>4. ResponsesInput(Append(dialogue, c)) = ResponsesInput(dialogue) \o ResponsesInput(<<c>>)
        BY <1>3, ReplyAdds
      <4> QED
        BY <2>2, <4>1, <4>3, <4>4
    <3> QED
      BY <2>2, <3>2, <3>3
  <2> QED
    BY <1>1, <1>5, <2>1, <2>2
<1>7. worksOn' = IF provider' \in {"anthropic", "gemini"} THEN AnthropicMessages(Asked')
                 ELSE IF provider' = "responses" THEN ResponsesInput(dialogue')
                 ELSE ResponsesInput(Asked')
  BY <1>1, <1>2, <1>6
<1>8. provider = "responses" =>
        Last(view).response = 0 /\ (Len(view) > 1 => view[Len(view) - 1].response # 0)
  BY <1>2 DEF ViewInv, Continues
<1>9. /\ AnthropicMessages(Asked') = AnthropicMessages(Asked)'
      /\ ResponsesInput(Asked') = ResponsesInput(Asked)'
      /\ ResponsesInput(dialogue') = ResponsesInput(dialogue)'
  BY DEF AnthropicMessages, ResponsesInput, TextFirst, ResultsFirst
<1> QED
  BY <1>2, <1>3, <1>7, <1>8, <1>9 DEF ViewInv

(* A reply is kept with the history it answers.                            *)
LEMMA EndShows == WireTypeOK /\ ViewInv /\ MessageEnd => ViewInv'
<1> SUFFICES ASSUME WireTypeOK, ViewInv, MessageEnd PROVE ViewInv'
  OBVIOUS
<1>1. PICK new \in Messages :
        /\ view' = Append(view, new) /\ dialogue' = Append(dialogue, new)
        /\ kept' = Append(kept, worksOn \o ResponsesInput(<<new>>))
        /\ new.role = "assistant"
        /\ new.response = IF provider = "responses" THEN Len(kept) + 1 ELSE 0
        /\ WireTypeOK'
  BY EndTyped
<1>2. streaming /\ streaming' = FALSE /\ provider' = provider
  BY DEF MessageEnd
<1>3. /\ view \in Seq(Messages) /\ dialogue \in Seq(Messages) /\ kept \in Seq(Seq(Items))
      /\ view' \in Seq(Messages) /\ kept' \in Seq(Seq(Items))
      /\ Len(view) \in Nat /\ Len(kept) \in Nat
  BY <1>1 DEF WireTypeOK
<1>4. /\ Len(view') = Len(view) + 1 /\ view'[Len(view) + 1] = new /\ Last(view') = new
      /\ Last(dialogue') = new
  <2>1. /\ Append(view, new) \in Seq(Messages) /\ Len(Append(view, new)) = Len(view) + 1
        /\ Append(view, new)[Len(view) + 1] = new
    BY <1>3
  <2>2. /\ Append(dialogue, new) \in Seq(Messages) /\ Len(Append(dialogue, new)) = Len(dialogue) + 1
        /\ Append(dialogue, new)[Len(dialogue) + 1] = new
    BY <1>3
  <2> QED
    BY <1>1, <2>1, <2>2 DEF Last
<1>5. ASSUME provider = "responses" PROVE Continues'
  <2>1. worksOn = ResponsesInput(dialogue)
    BY <1>2, <1>5 DEF ViewInv
  <2>2. worksOn \o ResponsesInput(<<new>>) = ResponsesInput(Append(dialogue, new))
    BY <1>3, <2>1, ReplyAdds
  <2>3. PICK x \in Seq(Items) : x = ResponsesInput(dialogue')
    <3>1. Append(dialogue, new) \in Seq(Messages)
      BY <1>3
    <3> QED
      BY <1>1, <3>1, LayoutTyped
  <2>4. kept' = Append(kept, x) /\ kept'[Len(kept) + 1] = x
    <3>1. kept' = Append(kept, x)
      BY <1>1, <2>2, <2>3
    <3> QED
      BY <1>3, <3>1, AppendProperties
  <2>5. PICK n : n = Len(view) + 1
    OBVIOUS
  <2>6. n \in 1..Len(view') /\ n = Len(view') /\ view'[n] = new /\ new.response # 0 /\ n # 0
        /\ new.response = Len(kept) + 1
    BY <1>1, <1>3, <1>4, <1>5, <2>5
  <2>7. PreviousResponse(view') = n
    <3>1. \A j \in 1..Len(view') : j > n => view'[j].response = 0
      BY <1>3, <1>4, <2>5
    <3> QED
      BY <1>3, <2>6, <3>1, LatestIs
  <2>8. SubSeq(view', n + 1, Len(view')) = <<>>
    BY <1>3, <2>6
  <2>9. ResponsesInput(<<>>) = <<>>
    BY FlatEmpty DEF ResponsesInput
  <2>10. x \o <<>> = x
    BY ConcatEmptySeq
  <2>11. StatefulPayload(view)' = x
    <3>1. StatefulPayload(view)' =
            IF PreviousResponse(view') = 0 THEN ResponsesInput(view')
            ELSE kept'[view'[PreviousResponse(view')].response]
                   \o ResponsesInput(SubSeq(view', PreviousResponse(view') + 1, Len(view')))
      BY DEF StatefulPayload, PreviousResponse, ResponsesInput, ResultsFirst
    <3> QED
      BY <2>4, <2>6, <2>7, <2>8, <2>9, <2>10, <3>1
  <2>12. ResponsesInput(dialogue)' = ResponsesInput(dialogue')
    BY DEF ResponsesInput, ResultsFirst
  <2> QED
    BY <1>1, <1>4, <2>3, <2>6, <2>11, <2>12 DEF Continues
<1> QED
  BY <1>1, <1>2, <1>4, <1>5 DEF ViewInv

(* An answer has no id, and what was kept stays.                           *)
LEMMA AnswerShows == WireTypeOK /\ ViewInv /\ Answer => ViewInv'
<1> SUFFICES ASSUME WireTypeOK, ViewInv, Answer PROVE ViewInv'
  OBVIOUS
<1>1. PICK m \in Messages : /\ view' = Append(view, m) /\ dialogue' = Append(dialogue, m)
                            /\ m.response = 0 /\ m.role = "user"
  BY AnswerTyped
<1>2. /\ ~streaming /\ streaming' = streaming /\ provider' = provider /\ kept' = kept
      /\ Last(view).role = "assistant"
  BY DEF Answer
<1>3. /\ view \in Seq(Messages) /\ dialogue \in Seq(Messages) /\ kept \in Seq(Seq(Items))
      /\ view # <<>>
  BY DEF WireTypeOK
<1>4. /\ Len(view') = Len(view) + 1 /\ Last(view') = m /\ Last(dialogue') = m
      /\ view'[Len(view') - 1] = Last(view)
  <2>1. /\ Append(view, m) \in Seq(Messages) /\ Len(Append(view, m)) = Len(view) + 1
        /\ Append(view, m)[Len(view) + 1] = m /\ \A i \in 1..Len(view) : Append(view, m)[i] = view[i]
    BY <1>3
  <2>2. /\ Append(dialogue, m) \in Seq(Messages) /\ Len(Append(dialogue, m)) = Len(dialogue) + 1
        /\ Append(dialogue, m)[Len(dialogue) + 1] = m
    BY <1>3
  <2>3. Len(view) \in Nat /\ Len(view) \in 1..Len(view) /\ Last(view) = view[Len(view)]
    BY <1>3, LastOf
  <2>4. (Len(view) + 1) - 1 = Len(view)
    BY <2>3
  <2> QED
    BY <1>1, <2>1, <2>2, <2>3, <2>4 DEF Last
<1>5. ASSUME provider = "responses" PROVE Continues'
  <2>1. StatefulPayload(view) = ResponsesInput(dialogue) /\ Last(view).response # 0
    BY <1>2, <1>5 DEF ViewInv, Continues
  <2>2. \A i \in 1..Len(view) : view[i].response \in 0..Len(kept)
    BY <1>5 DEF WireTypeOK
  <2>3. StatefulPayload(Append(view, m)) = StatefulPayload(view) \o ResponsesInput(<<m>>)
    BY <1>1, <1>3, <2>2, PayloadGrows
  <2>4. ResponsesInput(Append(dialogue, m)) = ResponsesInput(dialogue) \o ResponsesInput(<<m>>)
    BY <1>3, ReplyAdds
  <2>5. StatefulPayload(view)' = StatefulPayload(view') /\ ResponsesInput(dialogue)' = ResponsesInput(dialogue')
    BY <1>2 DEF StatefulPayload, PreviousResponse, ResponsesInput, ResultsFirst
  <2> QED
    BY <1>1, <1>4, <2>1, <2>3, <2>4, <2>5 DEF Continues
<1> QED
  BY <1>1, <1>2, <1>4, <1>5 DEF ViewInv

(* A compaction keeps the last reply and what answers it, so the provider  *)
(* would go on from the same.                                              *)
LEMMA CompactShows == WireTypeOK /\ ViewInv /\ Compact => ViewInv'
<1> SUFFICES ASSUME WireTypeOK, ViewInv, Compact PROVE ViewInv'
  OBVIOUS
<1>1. /\ ~streaming /\ streaming' = streaming /\ provider' = provider /\ kept' = kept
      /\ dialogue' = dialogue /\ Len(view) > 2 /\ Last(view).role = "user"
      /\ view' = <<Summary>> \o SubSeq(view, Len(view) - 1, Len(view))
  BY DEF Compact, Summary
<1>2. /\ view \in Seq(Messages) /\ view # <<>> /\ kept \in Seq(Seq(Items))
  BY DEF WireTypeOK
<1>3. PICK n \in Nat : n = Len(view) /\ n > 2
  BY <1>1, <1>2
<1>4. PICK a \in Messages, b \in Messages : a = view[n - 1] /\ b = view[n] /\ b = Last(view)
  BY <1>2, <1>3 DEF Last
<1>5. PICK vs \in Seq(Messages) :
        vs = view' /\ Len(vs) = 3 /\ vs[1] = Summary /\ vs[2] = a /\ vs[3] = b
  <2>1. Len(view) > 2
    BY <1>3
  <2>2. PICK vs : vs = <<Summary>> \o SubSeq(view, Len(view) - 1, Len(view))
    OBVIOUS
  <2>3. /\ vs \in Seq(Messages) /\ Len(vs) = 3
        /\ vs[1] = Summary /\ vs[2] = view[Len(view) - 1] /\ vs[3] = view[Len(view)]
    BY <1>2, <2>1, <2>2, CompactLeaves
  <2> QED
    BY <1>1, <1>3, <1>4, <2>2, <2>3
<1>6. Last(vs) = b
  BY <1>5 DEF Last
<1>7. ASSUME provider = "responses" PROVE Continues'
  <2>1. StatefulPayload(view) = ResponsesInput(dialogue) /\ b.response = 0 /\ a.response # 0
    BY <1>1, <1>3, <1>4, <1>7 DEF ViewInv, Continues
  <2>2. PreviousResponse(view) = n - 1
    <3>1. PICK p \in 1..Len(view) : p = n - 1
      BY <1>3
    <3>2. \A j \in 1..Len(view) : j > p => j = n
      BY <1>3, <3>1
    <3>3. \A j \in 1..Len(view) : j > p => view[j].response = 0
      BY <1>4, <2>1, <3>2
    <3>4. view[p].response # 0
      BY <1>4, <2>1, <3>1
    <3>5. PreviousResponse(view) = p
      BY <1>2, <3>3, <3>4, LatestIs
    <3> QED
      BY <3>1, <3>5
  <2>3. PreviousResponse(vs) = 2
    <3>1. PICK p \in 1..Len(vs) : p = 2
      BY <1>5
    <3>2. \A j \in 1..Len(vs) : j > p => j = 3
      BY <1>5, <3>1
    <3>3. \A j \in 1..Len(vs) : j > p => vs[j].response = 0
      BY <1>5, <2>1, <3>2
    <3>4. vs[p].response # 0
      BY <1>5, <2>1, <3>1
    <3>5. PreviousResponse(vs) = p
      BY <3>3, <3>4, LatestIs
    <3> QED
      BY <3>1, <3>5
  <2>4. SubSeq(view, (n - 1) + 1, Len(view)) = <<b>>
    <3>1. (n - 1) + 1 = n
      BY <1>3
    <3>2. SubSeq(view, n, n) = <<view[n]>>
      <4>1. n \in 1..Len(view)
        BY <1>3
      <4> QED
        BY <1>2, <4>1, JustOne
    <3> QED
      BY <1>3, <1>4, <3>1, <3>2
  <2>5. SubSeq(vs, 2 + 1, Len(vs)) = <<b>>
    <3>1. SubSeq(vs, 3, 3) = <<vs[3]>>
      <4>1. PICK p \in 1..Len(vs) : p = 3
        BY <1>5
      <4>2. SubSeq(vs, p, p) = <<vs[p]>>
        BY JustOne
      <4> QED
        BY <4>1, <4>2
    <3> QED
      BY <1>5, <3>1
  <2>6. StatefulPayload(view) = kept[a.response] \o ResponsesInput(<<b>>)
    <3>1. n - 1 # 0
      BY <1>3
    <3> QED
      BY <1>4, <2>2, <2>4, <3>1 DEF StatefulPayload
  <2>7. StatefulPayload(vs) = kept[a.response] \o ResponsesInput(<<b>>)
    <3>1. vs[2].response = a.response
      BY <1>5
    <3>2. PreviousResponse(vs) # 0
      BY <2>3
    <3> QED
      BY <2>3, <2>5, <3>1, <3>2 DEF StatefulPayload
  <2>8. StatefulPayload(view)' = StatefulPayload(vs) /\ ResponsesInput(dialogue)' = ResponsesInput(dialogue)
    BY <1>1, <1>5 DEF StatefulPayload, PreviousResponse, ResponsesInput, ResultsFirst
  <2>9. Last(view') = b /\ Len(view') = 3 /\ view'[Len(view') - 1] = a
    BY <1>5, <1>6
  <2> QED
    BY <1>1, <1>4, <2>1, <2>6, <2>7, <2>8, <2>9 DEF Continues
<1> QED
  BY <1>1, <1>7 DEF ViewInv

(* The provider answers the view and the context of the request, or all    *)
(* there was where it keeps the conversation: for any calls and any number *)
(* of requests and compactions.                                            *)
THEOREM TheHistoryIsSent == WireSpec => []ProviderSeesTheConversation
<1>1. WireInit => ViewInv
  <2> SUFFICES ASSUME WireInit PROVE ViewInv
    OBVIOUS
  <2>1. PICK m \in Messages : m = [id |-> 1, role |-> "user", calls |-> <<>>, response |-> 0]
    <3>1. <<>> \in Seq(Calls)
      OBVIOUS
    <3> QED
      BY <3>1 DEF Messages
  <2>2. view = <<m>> /\ dialogue = <<m>> /\ ~streaming
    BY <2>1 DEF WireInit
  <2>3. view \in Seq(Messages) /\ Len(view) = 1 /\ view[1] = m /\ Last(view) = m /\ Last(dialogue) = m
    BY <2>2 DEF Last
  <2>4. PreviousResponse(view) = 0
    <3>1. \A j \in 1..Len(view) : view[j].response = 0
      BY <2>1, <2>3
    <3> QED
      BY <2>3, <3>1, Previous
  <2>5. StatefulPayload(view) = ResponsesInput(dialogue)
    BY <2>2, <2>4 DEF StatefulPayload
  <2> QED
    BY <2>1, <2>2, <2>3, <2>5 DEF ViewInv, Continues
<1>2. WireTypeOK /\ WireTypeOK' /\ ViewInv /\ [WireNext]_wireVars => ViewInv'
  <2> SUFFICES ASSUME WireTypeOK, ViewInv, [WireNext]_wireVars PROVE ViewInv'
    OBVIOUS
  <2>1. CASE UNCHANGED <<provider, streaming, view, dialogue, kept, worksOn>>
    <3>1. /\ Asked' = Asked /\ Continues' = Continues
          /\ AnthropicMessages(Asked)' = AnthropicMessages(Asked)
          /\ ResponsesInput(Asked)' = ResponsesInput(Asked)
          /\ ResponsesInput(dialogue)' = ResponsesInput(dialogue)
      BY <2>1 DEF Asked, Continues, StatefulPayload, PreviousResponse, AnthropicMessages,
           ResponsesInput, TextFirst, ResultsFirst
    <3> QED
      BY <2>1, <3>1 DEF ViewInv
  <2> QED
    BY <2>1, SendShows, EndShows, AnswerShows, CompactShows
       DEF WireNext, wireVars, TextDelta, CallStarts, InputDelta, CallStops, GeminiPart
<1>3. WireTypeOK /\ ViewInv => ProviderSeesTheConversation
  <2> SUFFICES ASSUME WireTypeOK, ViewInv, streaming PROVE ProviderSeesTheConversation
    BY DEF ProviderSeesTheConversation
  <2>1. dialogue \in Seq(Messages) /\ dialogue # <<>> /\ view \in Seq(Messages)
    BY DEF WireTypeOK
  <2>2. Asked \in Seq(Messages)
    <3>1. PICK m \in Messages : m = Last(dialogue)
      BY <2>1, LastOf
    <3>2. Append(view, m) \in Seq(Messages)
      BY <2>1
    <3> QED
      BY <2>1, <3>1, <3>2 DEF Asked
  <2>3. PICK ms \in Seq(Messages) : ms = IF provider = "responses" THEN dialogue ELSE Asked
    BY <2>1, <2>2
  <2>4. worksOn \in {AnthropicMessages(ms), ResponsesInput(ms)}
    BY <2>3 DEF ViewInv
  <2>5. Shows(worksOn, ms)
    BY <2>4, LayoutsShow
  <2> QED
    BY <2>3, <2>5 DEF ProviderSeesTheConversation
<1> QED
  BY <1>1, <1>2, <1>3, WireTypes, PTL DEF WireSpec

-----------------------------------------------------------------------------
(* The blocks of a call in a reply's content, and the text of it.          *)
Blocks(s, c) == {i \in DOMAIN s : s[i].call = c}
Heard(s) == FlattenSeq([i \in DOMAIN s |-> IF s[i].call = "" THEN s[i].said ELSE <<>>])
UpTo(n) == [k \in 1..n |-> k]

(* The text of a content is a text.                                        *)
LEMMA HeardTyped ==
  ASSUME NEW s \in Seq(Answers)
  PROVE  /\ [i \in DOMAIN s |-> IF s[i].call = "" THEN s[i].said ELSE <<>>] \in Seq(Seq(Nat))
         /\ Heard(s) \in Seq(Nat)
<1> DEFINE ss == [i \in DOMAIN s |-> IF s[i].call = "" THEN s[i].said ELSE <<>>]
<1>1. PICK n \in Nat : n = Len(s) /\ DOMAIN s = 1..n /\ \A i \in 1..n : s[i] \in Answers
  OBVIOUS
<1>2. PICK X : X = Seq(Nat)
  OBVIOUS
<1>3. \A b \in Answers : b.said \in X
  BY <1>2 DEF Answers
<1>4. <<>> \in X
  BY <1>2
<1>5. ss = [i \in 1..n |-> IF s[i].call = "" THEN s[i].said ELSE <<>>]
  BY <1>1
<1>6. \A i \in 1..n : (IF s[i].call = "" THEN s[i].said ELSE <<>>) \in X
  BY <1>1, <1>3, <1>4
<1> HIDE DEF ss
<1>7. ss \in Seq(X)
  <2>1. \A i \in 1..n : ss[i] \in X
    BY <1>5, <1>6
  <2>2. PICK u : u = [i \in 1..n |-> ss[i]]
    OBVIOUS
  <2>3. u \in Seq(X)
    BY <2>1, <2>2
  <2>4. u = ss
    BY <1>5, <2>2
  <2> QED
    BY <2>3, <2>4
<1>8. ss \in Seq(Seq(Nat)) /\ <<>> \in Seq(Nat)
  BY <1>2, <1>4, <1>7
<1>9. FlattenSeq(ss) \in Seq(Nat)
  BY <1>8, FlatAppended
<1> QED
  BY <1>8, <1>9 DEF Heard, ss

(* What a block more makes of a reply's content.                           *)
Longer(s, b, t) ==
  /\ \A c : b.call # c => Blocks(t, c) = Blocks(s, c)
  /\ Blocks(t, b.call) = Blocks(s, b.call) \cup {Len(s) + 1}
  /\ t[Len(s) + 1] = b
  /\ \A i \in DOMAIN s : t[i] = s[i]
  /\ b.call = "" => Heard(t) = Heard(s) \o b.said
  /\ b.call # "" => Heard(t) = Heard(s)

(* One more block adds itself to its call's blocks and its text, if it is  *)
(* one, to the text; the rest stays as it was.                             *)
LEMMA OneMore ==
  ASSUME NEW s \in Seq(Answers), NEW b \in Answers, NEW t, t = Append(s, b)
  PROVE  Longer(s, b, t)
<1> DEFINE L(q) == [i \in DOMAIN q |-> IF q[i].call = "" THEN q[i].said ELSE <<>>]
           y == IF b.call = "" THEN b.said ELSE <<>>
<1>1. /\ Len(s) \in Nat /\ DOMAIN s = 1..Len(s) /\ t \in Seq(Answers) /\ Len(t) = Len(s) + 1
      /\ DOMAIN t = 1..(Len(s) + 1) /\ t[Len(s) + 1] = b /\ \A i \in 1..Len(s) : t[i] = s[i]
  OBVIOUS
<1>2. /\ \A i \in 1..(Len(s) + 1) : i \in 1..Len(s) \/ i = Len(s) + 1
      /\ \A i \in 1..Len(s) : i \in 1..(Len(s) + 1)
      /\ Len(s) + 1 \in 1..(Len(s) + 1)
  BY <1>1
<1>3. \A c : b.call # c => Blocks(t, c) = Blocks(s, c)
  BY <1>1, <1>2 DEF Blocks
<1>4. Blocks(t, b.call) = Blocks(s, b.call) \cup {Len(s) + 1}
  BY <1>1, <1>2 DEF Blocks
<1>5. b.said \in Seq(Nat) /\ <<>> \in Seq(Nat)
  <2>1. \A x \in Answers : x.said \in Seq(Nat)
    BY DEF Answers
  <2>2. <<>> \in Seq(Nat)
    OBVIOUS
  <2> QED
    BY <2>1, <2>2
<1>6. y \in Seq(Nat)
  <2>1. CASE b.call = ""
    BY <1>5, <2>1
  <2>2. CASE b.call # ""
    BY <1>5, <2>2
  <2> QED
    BY <2>1, <2>2
<1>7. L(s) \in Seq(Seq(Nat)) /\ L(t) \in Seq(Seq(Nat))
  BY <1>1, HeardTyped
<1>8. PICK p \in Seq(Seq(Nat)), q \in Seq(Seq(Nat)) : p = L(s) /\ q = L(t)
  BY <1>7
<1>9. q = Append(p, y)
  <2>1. /\ Len(p) = Len(s) /\ Len(q) = Len(s) + 1
        /\ \A i \in 1..Len(s) : p[i] = IF s[i].call = "" THEN s[i].said ELSE <<>>
        /\ \A i \in 1..(Len(s) + 1) : q[i] = IF t[i].call = "" THEN t[i].said ELSE <<>>
    <3>1. DOMAIN p = 1..Len(s) /\ DOMAIN q = 1..(Len(s) + 1)
      BY <1>1, <1>8
    <3>2. Len(p) = Len(s) /\ Len(q) = Len(s) + 1
      BY <1>1, <3>1
    <3> QED
      BY <1>1, <1>8, <3>2
  <2> HIDE DEF y, L
  <2>2. PICK X : X = Seq(Nat)
    OBVIOUS
  <2>3. p \in Seq(X) /\ q \in Seq(X) /\ y \in X
    BY <1>6, <2>2
  <2>4. /\ Append(p, y) \in Seq(X) /\ Len(Append(p, y)) = Len(p) + 1
        /\ Append(p, y)[Len(p) + 1] = y /\ \A i \in 1..Len(p) : Append(p, y)[i] = p[i]
    BY <2>3
  <2>5. \A i \in 1..Len(s) : q[i] = p[i]
    BY <1>1, <1>2, <2>1
  <2>6. q[Len(s) + 1] = y
    BY <1>1, <1>2, <2>1 DEF y
  <2>7. PICK u \in Seq(X) : u = Append(p, y)
    BY <2>4
  <2>8. Len(q) = Len(u) /\ \A i \in 1..Len(q) : q[i] = u[i]
    BY <1>2, <2>1, <2>4, <2>5, <2>6, <2>7
  <2>9. q = u
    BY <2>3, <2>8, SeqEqual
  <2> QED
    BY <2>7, <2>9
<1>10. FlattenSeq(q) = FlattenSeq(p) \o y
  BY <1>6, <1>9, FlatAppended
<1>11. Heard(t) = Heard(s) \o y
  BY <1>8, <1>10 DEF Heard
<1>12. Heard(s) \in Seq(Nat)
  BY HeardTyped
<1>13. b.call # "" => Heard(t) = Heard(s)
  BY <1>11, <1>12, ConcatEmptySeq
<1> QED
  BY <1>1, <1>3, <1>4, <1>11, <1>13 DEF Longer

(* The pieces up to a number, one by one.                                  *)
LEMMA UpToTyped ==
  ASSUME NEW n \in Nat
  PROVE  UpTo(n) \in Seq(Nat) /\ UpTo(n + 1) = Append(UpTo(n), n + 1) /\ UpTo(0) = <<>>
<1>1. PICK p : p = UpTo(n)
  OBVIOUS
<1>2. PICK q : q = UpTo(n + 1)
  OBVIOUS
<1>3. p \in Seq(Nat) /\ Len(p) = n /\ \A k \in 1..n : p[k] = k
  BY <1>1 DEF UpTo
<1>4. q \in Seq(Nat) /\ Len(q) = n + 1 /\ \A k \in 1..(n + 1) : q[k] = k
  BY <1>2 DEF UpTo
<1>5. /\ Append(p, n + 1) \in Seq(Nat) /\ Len(Append(p, n + 1)) = n + 1
      /\ \A k \in 1..n : Append(p, n + 1)[k] = p[k]
      /\ Append(p, n + 1)[n + 1] = n + 1
  BY <1>3
<1>6. \A k \in 1..(n + 1) : k \in 1..n \/ k = n + 1
  OBVIOUS
<1>7. \A k \in 1..Len(q) : q[k] = Append(p, n + 1)[k]
  BY <1>3, <1>4, <1>5, <1>6
<1>8. q = Append(p, n + 1)
  BY <1>4, <1>5, <1>7, SeqEqual
<1>9. UpTo(0) = <<>>
  BY DEF UpTo
<1> QED
  BY <1>1, <1>2, <1>3, <1>8, <1>9

(* The reply so far, against what the provider has streamed: an open call  *)
(* is buffered with every piece of its own, a call that is over has one    *)
(* block, and the text is all there, in the content or in the buffer.      *)
Gathered(a, w, n) ==
  /\ \A c \in Calls :
       /\ c \in a.meta => /\ w[c].state # "unsent" /\ Blocks(a.content, c) = {}
                          /\ a.inputs[c] = UpTo(w[c].sent)
       /\ c \notin a.meta =>
            IF w[c].state = "unsent" THEN Blocks(a.content, c) = {}
            ELSE \E i : Blocks(a.content, c) = {i} /\ a.content[i].said = UpTo(w[c].sent)
  /\ Heard(a.content) \o a.text = UpTo(n)

(* Flushing moves the text from the buffer to the content.                 *)
LEMMA FlushGathers ==
  ASSUME NEW a \in Assemblies, NEW w \in Streams, NEW n \in Nat, Gathered(a, w, n)
  PROVE  Gathered(FlushText(a), w, n)
<1>1. PICK z \in Assemblies : z = FlushText(a)
  BY Flushed
<1>2. /\ z.text = <<>> /\ z.meta = a.meta /\ z.inputs = a.inputs
      /\ \/ z.content = a.content /\ a.text = <<>>
         \/ z.content = Append(a.content, [call |-> "", said |-> a.text])
  BY <1>1, Flushed
<1>3. CASE z.content = a.content /\ a.text = <<>>
  BY <1>1, <1>2, <1>3 DEF Gathered
<1>4. CASE z.content = Append(a.content, [call |-> "", said |-> a.text])
  <2>1. a.content \in Seq(Answers) /\ a.text \in Seq(Nat)
    BY DEF Assemblies
  <2>2. PICK b \in Answers : b = [call |-> "", said |-> a.text]
    BY <2>1 DEF Answers
  <2>3. PICK s \in Seq(Answers) : s = a.content
    BY <2>1
  <2>4. z.content = Append(s, b) /\ b.call = "" /\ b.said = a.text
    BY <1>4, <2>2, <2>3
  <2>20. PICK t : t = z.content
    OBVIOUS
  <2>21. t = Append(s, b)
    BY <2>4, <2>20
  <2>22. Longer(s, b, t)
    BY <2>21, OneMore
  <2>5. \A c \in Calls : Blocks(z.content, c) = Blocks(s, c)
    BY <2>4, <2>20, <2>22, WireAssumption DEF Longer
  <2>6. \A i \in DOMAIN s : z.content[i] = s[i]
    BY <2>4, <2>20, <2>22 DEF Longer
  <2>7. Heard(z.content) = Heard(s) \o a.text
    BY <2>4, <2>20, <2>22 DEF Longer
  <2>8. Heard(z.content) \o z.text = UpTo(n)
    <3>1. Heard(s) \o a.text = UpTo(n)
      BY <2>3 DEF Gathered
    <3>2. UpTo(n) \o <<>> = UpTo(n)
      BY UpToTyped, ConcatEmptySeq
    <3> QED
      BY <1>2, <2>7, <3>1, <3>2
  <2>9. \A c : Blocks(s, c) \subseteq DOMAIN s
    BY DEF Blocks
  <2>10. ASSUME NEW c \in Calls, c \in z.meta
         PROVE  /\ w[c].state # "unsent" /\ Blocks(z.content, c) = {} /\ z.inputs[c] = UpTo(w[c].sent)
    BY <1>2, <2>3, <2>5, <2>10 DEF Gathered
  <2>11. ASSUME NEW c \in Calls, c \notin z.meta, w[c].state = "unsent"
         PROVE  Blocks(z.content, c) = {}
    BY <1>2, <2>3, <2>5, <2>11 DEF Gathered
  <2>12. ASSUME NEW c \in Calls, c \notin z.meta, w[c].state # "unsent"
         PROVE  \E i : Blocks(z.content, c) = {i} /\ z.content[i].said = UpTo(w[c].sent)
    <3>1. PICK i : Blocks(s, c) = {i} /\ s[i].said = UpTo(w[c].sent)
      BY <1>2, <2>3, <2>12 DEF Gathered
    <3>2. i \in DOMAIN s
      BY <2>9, <3>1
    <3>3. Blocks(z.content, c) = {i} /\ z.content[i].said = UpTo(w[c].sent)
      BY <2>5, <2>6, <3>1, <3>2
    <3> QED
      BY <3>3
  <2>13. Gathered(z, w, n)
    BY <2>8, <2>10, <2>11, <2>12 DEF Gathered
  <2> QED
    BY <1>1, <2>13
<1> QED
  BY <1>2, <1>3, <1>4

(* The end of a call that was buffered makes its block.                    *)
LEMMA EndGathers ==
  ASSUME NEW a \in Assemblies, NEW w \in Streams, NEW n \in Nat, NEW e \in Calls, Gathered(a, w, n)
  PROVE  Gathered(OnEnd(a, e), w, n)
<1>1. CASE e \notin a.meta
  BY <1>1, Ended
<1>2. CASE e \in a.meta
  <2>1. PICK z \in Assemblies : z = OnEnd(a, e)
    BY Ended
  <2>2. /\ z.text = a.text /\ z.meta = a.meta \ {e}
        /\ z.content = Append(a.content, [call |-> e, said |-> a.inputs[e]])
        /\ z.inputs = [a.inputs EXCEPT ![e] = <<>>]
    BY <1>2, <2>1, Ended
  <2>3. a.content \in Seq(Answers) /\ a.inputs \in [Calls -> Seq(Nat)] /\ a.inputs[e] \in Seq(Nat)
    BY DEF Assemblies
  <2>4. PICK b \in Answers : b = [call |-> e, said |-> a.inputs[e]]
    BY <2>3 DEF Answers
  <2>5. PICK s \in Seq(Answers) : s = a.content
    BY <2>3
  <2>6. z.content = Append(s, b) /\ b.call = e /\ b.said = UpTo(w[e].sent) /\ b.call # ""
    <3>1. a.inputs[e] = UpTo(w[e].sent)
      BY <1>2 DEF Gathered
    <3> QED
      BY <2>2, <2>4, <2>5, <3>1, WireAssumption
  <2>20. PICK t : t = z.content
    OBVIOUS
  <2>21. t = Append(s, b)
    BY <2>6, <2>20
  <2>22. Longer(s, b, t)
    BY <2>21, OneMore
  <2>7. \A c \in Calls : c # e => Blocks(z.content, c) = Blocks(s, c) /\ z.inputs[c] = a.inputs[c]
    BY <2>2, <2>3, <2>6, <2>20, <2>22 DEF Longer
  <2>8. \A i \in DOMAIN s : z.content[i] = s[i]
    BY <2>6, <2>20, <2>22 DEF Longer
  <2>9. Heard(z.content) \o z.text = UpTo(n)
    <3>1. Heard(z.content) = Heard(s)
      BY <2>6, <2>20, <2>22 DEF Longer
    <3> QED
      BY <2>2, <2>5, <3>1 DEF Gathered
  <2>10. \A c : Blocks(s, c) \subseteq DOMAIN s
    BY DEF Blocks
  <2>11. w[e].state # "unsent" /\ Blocks(s, e) = {}
    BY <1>2, <2>5 DEF Gathered
  <2>12. Blocks(z.content, e) = {Len(s) + 1} /\ z.content[Len(s) + 1].said = UpTo(w[e].sent)
    BY <2>6, <2>11, <2>20, <2>22 DEF Longer
  <2>13. ASSUME NEW c \in Calls, c \in z.meta
         PROVE  /\ w[c].state # "unsent" /\ Blocks(z.content, c) = {} /\ z.inputs[c] = UpTo(w[c].sent)
    BY <2>2, <2>5, <2>7, <2>13 DEF Gathered
  <2>14. ASSUME NEW c \in Calls, c \notin z.meta, w[c].state = "unsent"
         PROVE  Blocks(z.content, c) = {}
    BY <2>2, <2>5, <2>7, <2>11, <2>14 DEF Gathered
  <2>15. ASSUME NEW c \in Calls, c \notin z.meta, w[c].state # "unsent"
         PROVE  \E i : Blocks(z.content, c) = {i} /\ z.content[i].said = UpTo(w[c].sent)
    <3>1. CASE c = e
      BY <2>12, <3>1
    <3>2. CASE c # e
      <4>1. PICK i : Blocks(s, c) = {i} /\ s[i].said = UpTo(w[c].sent)
        BY <2>2, <2>5, <2>15, <3>2 DEF Gathered
      <4>2. i \in DOMAIN s
        BY <2>10, <4>1
      <4>3. Blocks(z.content, c) = {i} /\ z.content[i].said = UpTo(w[c].sent)
        BY <2>7, <2>8, <3>2, <4>1, <4>2
      <4> QED
        BY <4>3
    <3> QED
      BY <3>1, <3>2
  <2>16. Gathered(z, w, n)
    BY <2>9, <2>13, <2>14, <2>15 DEF Gathered
  <2> QED
    BY <2>1, <2>16
<1> QED
  BY <1>1, <1>2

(* What is gathered depends on how much of each call was sent, and on      *)
(* whether it was started at all.                                          *)
LEMMA SameSent ==
  ASSUME NEW a, NEW w, NEW v, NEW n, Gathered(a, w, n),
         \A c \in Calls : /\ v[c].sent = w[c].sent
                          /\ v[c].state = "unsent" <=> w[c].state = "unsent"
  PROVE  Gathered(a, v, n)
  BY DEF Gathered

(* A call starts with an empty buffer, after what text there was.          *)
LEMMA StartGathers ==
  ASSUME NEW a \in Assemblies, NEW w \in Streams, NEW n \in Nat, NEW e \in Calls, Gathered(a, w, n),
         e \notin a.meta, w[e].state = "unsent",
         NEW v, v = [w EXCEPT ![e] = [sent |-> 0, state |-> "open"]]
  PROVE  Gathered(OnStart(a, e), v, n)
<1>1. PICK f \in Assemblies : f = FlushText(a)
  BY Flushed
<1>2. Gathered(f, w, n) /\ f.text = <<>> /\ f.meta = a.meta /\ f.inputs = a.inputs
  BY <1>1, Flushed, FlushGathers
<1>3. PICK z \in Assemblies : z = OnStart(a, e)
  BY Started
<1>4. /\ z.content = f.content /\ z.text = <<>> /\ z.meta = f.meta \cup {e}
      /\ z.inputs = [f.inputs EXCEPT ![e] = <<>>]
  BY <1>1, <1>2, <1>3, Started
<1>5. f.inputs \in [Calls -> Seq(Nat)] /\ DOMAIN w = Calls
  BY DEF Assemblies, Streams
<1>6. /\ \A c \in Calls : c # e => v[c] = w[c] /\ z.inputs[c] = f.inputs[c]
      /\ z.inputs[e] = <<>> /\ v[e].sent = 0 /\ v[e].state = "open"
  BY <1>4, <1>5
<1>7. Blocks(z.content, e) = {} /\ z.inputs[e] = UpTo(v[e].sent)
  <2>1. Blocks(f.content, e) = {}
    BY <1>2 DEF Gathered
  <2> QED
    BY <1>4, <1>6, <2>1, UpToTyped
<1>8. ASSUME NEW c \in Calls, c \in z.meta
      PROVE  /\ v[c].state # "unsent" /\ Blocks(z.content, c) = {} /\ z.inputs[c] = UpTo(v[c].sent)
  <2>1. CASE c = e
    BY <1>6, <1>7, <2>1
  <2>2. CASE c # e
    BY <1>2, <1>4, <1>6, <1>8, <2>2 DEF Gathered
  <2> QED
    BY <2>1, <2>2
<1>9. ASSUME NEW c \in Calls, c \notin z.meta
      PROVE  IF v[c].state = "unsent" THEN Blocks(z.content, c) = {}
             ELSE \E i : Blocks(z.content, c) = {i} /\ z.content[i].said = UpTo(v[c].sent)
  <2>1. c # e /\ c \notin f.meta
    BY <1>4, <1>9
  <2> QED
    BY <1>2, <1>4, <1>6, <2>1 DEF Gathered
<1>10. Heard(z.content) \o z.text = UpTo(n)
  BY <1>2, <1>4 DEF Gathered
<1> QED
  BY <1>3, <1>8, <1>9, <1>10 DEF Gathered

(* A piece goes to the end of its own call's buffer.                       *)
LEMMA PieceGathers ==
  ASSUME NEW a \in Assemblies, NEW w \in Streams, NEW n \in Nat, NEW e \in Calls, Gathered(a, w, n),
         e \in a.meta, NEW v, v = [w EXCEPT ![e] = [sent |-> w[e].sent + 1, state |-> w[e].state]]
  PROVE  Gathered(OnInputDelta(a, e, w[e].sent + 1), v, n)
<1>1. PICK k \in Nat : k = w[e].sent
  BY DEF Streams
<1>2. k + 1 \in Nat
  OBVIOUS
<1>3. PICK z \in Assemblies : z = OnInputDelta(a, e, k + 1)
  BY <1>2, Streamed
<1>4. /\ z.content = a.content /\ z.text = a.text /\ z.meta = a.meta
      /\ z.inputs = [a.inputs EXCEPT ![e] = Append(a.inputs[e], k + 1)]
  <2>1. PICK j \in Nat : j = k + 1
    BY <1>2
  <2>2. OnInputDelta(a, e, j) = [a EXCEPT !.inputs = [a.inputs EXCEPT ![e] = Append(a.inputs[e], j)]]
    BY DEF OnInputDelta, Assemblies
  <2>3. /\ OnInputDelta(a, e, j).content = a.content /\ OnInputDelta(a, e, j).text = a.text
        /\ OnInputDelta(a, e, j).meta = a.meta
        /\ OnInputDelta(a, e, j).inputs = [a.inputs EXCEPT ![e] = Append(a.inputs[e], j)]
    BY <2>2 DEF Assemblies
  <2> QED
    BY <1>3, <2>1, <2>3
<1>5. a.inputs \in [Calls -> Seq(Nat)] /\ DOMAIN w = Calls
  BY DEF Assemblies, Streams
<1>6. /\ \A c \in Calls : c # e => v[c] = w[c] /\ z.inputs[c] = a.inputs[c]
      /\ v[e].sent = k + 1 /\ v[e].state = w[e].state
      /\ z.inputs[e] = Append(a.inputs[e], k + 1)
  BY <1>1, <1>4, <1>5
<1>7. w[e].state # "unsent" /\ Blocks(a.content, e) = {} /\ a.inputs[e] = UpTo(k)
  BY <1>1 DEF Gathered
<1>8. z.inputs[e] = UpTo(v[e].sent)
  BY <1>6, <1>7, UpToTyped
<1>9. ASSUME NEW c \in Calls, c \in z.meta
      PROVE  /\ v[c].state # "unsent" /\ Blocks(z.content, c) = {} /\ z.inputs[c] = UpTo(v[c].sent)
  <2>1. CASE c = e
    BY <1>4, <1>6, <1>7, <1>8, <2>1
  <2>2. CASE c # e
    BY <1>4, <1>6, <1>9, <2>2 DEF Gathered
  <2> QED
    BY <2>1, <2>2
<1>10. ASSUME NEW c \in Calls, c \notin z.meta
       PROVE  IF v[c].state = "unsent" THEN Blocks(z.content, c) = {}
              ELSE \E i : Blocks(z.content, c) = {i} /\ z.content[i].said = UpTo(v[c].sent)
  <2>1. c # e /\ c \notin a.meta
    BY <1>4, <1>10
  <2> QED
    BY <1>4, <1>6, <2>1 DEF Gathered
<1>11. Heard(z.content) \o z.text = UpTo(n)
  BY <1>4 DEF Gathered
<1> QED
  BY <1>1, <1>3, <1>9, <1>10, <1>11 DEF Gathered

(* So does a piece of text, at the end of the text.                        *)
LEMMA TextGathers ==
  ASSUME NEW a \in Assemblies, NEW w \in Streams, NEW n \in Nat, Gathered(a, w, n)
  PROVE  Gathered(OnTextDelta(a, n + 1), w, n + 1)
<1>1. n + 1 \in Nat
  OBVIOUS
<1>2. PICK z \in Assemblies : z = OnTextDelta(a, n + 1)
  BY <1>1, Told
<1>3. /\ z.content = a.content /\ z.text = Append(a.text, n + 1) /\ z.meta = a.meta
      /\ z.inputs = a.inputs
  BY <1>1, <1>2, Told
<1>4. Heard(z.content) \o z.text = UpTo(n + 1)
  <2>1. PICK h \in Seq(Nat) : h = Heard(a.content)
    BY HeardTyped DEF Assemblies
  <2>2. PICK t \in Seq(Nat) : t = a.text
    BY DEF Assemblies
  <2>3. h \o Append(t, n + 1) = Append(h \o t, n + 1)
    OBVIOUS
  <2>4. h \o t = UpTo(n)
    BY <2>1, <2>2 DEF Gathered
  <2>5. UpTo(n + 1) = Append(UpTo(n), n + 1)
    BY UpToTyped
  <2> QED
    BY <1>3, <2>1, <2>2, <2>3, <2>4, <2>5
<1> QED
  BY <1>2, <1>3, <1>4 DEF Gathered

(* The end of a chat stream ends every call that was started.              *)
LEMMA FlushEndsAll ==
  ASSUME NEW a \in Assemblies, NEW w \in Streams, NEW n \in Nat, Gathered(a, w, n),
         tracked \in Seq(Calls), a.meta \subseteq ToSet(tracked)
  PROVE  /\ ChatFlush(a) \in Assemblies /\ ChatFlush(a).meta = {}
         /\ Gathered(ChatFlush(a), w, n)
<1>1. PICK g : FlushOver(a, g) /\ ChatFlush(a) = g[Len(tracked)]
  BY FlushExists
<1>2. PICK m \in Nat : m = Len(tracked)
  OBVIOUS
<1>3. /\ g[0] = a
      /\ \A k \in 0..m : k < m => tracked[k + 1] \in Calls /\ g[k + 1] = OnEnd(g[k], tracked[k + 1])
      /\ \A k \in 0..m : /\ g[k] \in Assemblies /\ g[k].meta \subseteq a.meta
                         /\ \A j \in 1..k : tracked[j] \notin g[k].meta
  <2>1. FlushOver(a, g)
    BY <1>1
  <2>2. /\ g[0] = a
        /\ \A k \in 0..Len(tracked) : k < Len(tracked) =>
             tracked[k + 1] \in Calls /\ g[k + 1] = OnEnd(g[k], tracked[k + 1])
        /\ \A k \in 0..Len(tracked) :
             /\ g[k] \in Assemblies /\ g[k].meta \subseteq a.meta
             /\ \A j \in 1..k : tracked[j] \notin g[k].meta
    BY <2>1, FlushSteps
  <2> QED
    BY <1>2, <2>2
<1> DEFINE S == {k \in 0..m : Gathered(g[k], w, n)}
<1>4. 0 \in S
  BY <1>2, <1>3
<1>5. ASSUME NEW k \in 0..m, k \in S, k < m PROVE k + 1 \in S
  <2>1. PICK x \in Assemblies : x = g[k] /\ Gathered(x, w, n)
    BY <1>3, <1>5
  <2>2. PICK c \in Calls : c = tracked[k + 1]
    BY <1>3, <1>5
  <2>3. Gathered(OnEnd(x, c), w, n)
    BY <2>1, EndGathers
  <2>4. g[k + 1] = OnEnd(x, c) /\ k + 1 \in 0..m
    BY <1>2, <1>3, <1>5, <2>1, <2>2
  <2> QED
    BY <2>3, <2>4
<1> HIDE DEF S
<1>6. \A k \in 0..m : k \in S
  BY <1>2, <1>4, <1>5, Upwards
<1>7. m \in S /\ m \in 0..m
  BY <1>2, <1>6
<1>8. g[m].meta = {}
  <2>1. \A c \in ToSet(tracked) : \E j \in 1..m : c = tracked[j]
    BY <1>2 DEF ToSet
  <2> QED
    BY <1>3, <1>7, <2>1
<1> QED
  BY <1>1, <1>2, <1>3, <1>7, <1>8 DEF S

-----------------------------------------------------------------------------
(* The reply that CallsAssembled asks for.                                 *)
Whole(a, w, n) ==
  /\ \A c \in Calls :
       IF w[c].state = "unsent" THEN Blocks(a.content, c) = {}
       ELSE /\ Cardinality(Blocks(a.content, c)) = 1
            /\ \A i \in Blocks(a.content, c) : a.content[i].said = UpTo(w[c].sent)
  /\ Heard(a.content) = UpTo(n)

(* It is the same, before a step and after it.                             *)
LEMMA IsWhole ==
  /\ CallsAssembled <=>
       ((~streaming /\ Last(view).role = "assistant") => Whole(asm, wire, spoken))
  /\ CallsAssembled' <=>
       ((~streaming' /\ Last(view').role = "assistant") => Whole(asm', wire', spoken'))
<1>1. CallsAssembled <=>
        ((~streaming /\ Last(view).role = "assistant") => Whole(asm, wire, spoken))
  BY DEF CallsAssembled, Whole, Blocks, Heard, UpTo
<1>2. CallsAssembled' <=>
        ((~streaming' /\ Last(view').role = "assistant") => Whole(asm', wire', spoken'))
  BY DEF CallsAssembled, Whole, Blocks, Heard, UpTo
<1> QED
  BY <1>1, <1>2

(* While a reply is streamed, what is gathered of it is what was streamed: *)
(* the open calls are the ones with a buffer, a chat's flush knows them    *)
(* all, and Gemini's calls come whole.                                     *)
GatherInv ==
  /\ streaming =>
       /\ Gathered(asm, wire, spoken)
       /\ asm.meta = {c \in Calls : wire[c].state = "open"}
       /\ \A c \in Calls : wire[c].state = "unsent" => wire[c].sent = 0
       /\ provider = "chat" => asm.meta \subseteq ToSet(tracked)
       /\ provider = "gemini" => \A c \in Calls :
            /\ wire[c].state # "open"
            /\ wire[c].state = "over" <=> c \in ended
            /\ wire[c].state = "over" => wire[c].sent = 1
  /\ CallsAssembled

(* A request begins with nothing streamed and nothing gathered.            *)
LEMMA SendGathers == WireTypeOK /\ GatherInv /\ Send => GatherInv'
<1> SUFFICES ASSUME WireTypeOK, Send PROVE GatherInv'
  OBVIOUS
<1>1. /\ streaming' = TRUE /\ wire' = NewWire /\ spoken' = 0 /\ tracked' = <<>> /\ ended' = {}
      /\ asm' = NewAsm /\ provider' = provider
  BY DEF Send
<1>2. /\ \A c \in Calls : wire'[c].state = "unsent" /\ wire'[c].sent = 0
      /\ asm'.content = <<>> /\ asm'.text = <<>> /\ asm'.meta = {}
  BY <1>1 DEF NewWire, NewAsm
<1>3. \A c \in Calls : Blocks(asm'.content, c) = {}
  <2>1. DOMAIN <<>> = {}
    OBVIOUS
  <2> QED
    BY <1>2, <2>1 DEF Blocks
<1>4. Heard(asm'.content) = <<>>
  <2>1. Heard(<<>>) = FlattenSeq(<<>>)
    BY DEF Heard
  <2> QED
    BY <1>2, <2>1, FlatEmpty
<1>5. Gathered(asm', wire', spoken')
  <2>1. Heard(asm'.content) \o asm'.text = UpTo(0)
    <3>1. <<>> \o <<>> = <<>>
      OBVIOUS
    <3> QED
      BY <1>2, <1>4, <3>1, UpToTyped
  <2> QED
    BY <1>1, <1>2, <1>3, <2>1 DEF Gathered
<1> QED
  BY <1>1, <1>2, <1>5 DEF GatherInv, CallsAssembled

(* Each event of a stream, one after the other: a piece of text.           *)
LEMMA TextDeltaGathers == WireTypeOK /\ GatherInv /\ TextDelta => GatherInv'
<1> SUFFICES ASSUME WireTypeOK, GatherInv, TextDelta PROVE GatherInv'
  OBVIOUS
<1>1. /\ streaming /\ streaming' = streaming /\ wire' = wire /\ tracked' = tracked /\ ended' = ended
      /\ provider' = provider /\ spoken' = spoken + 1 /\ asm' = OnTextDelta(asm, spoken + 1)
  BY DEF TextDelta
<1>2. asm \in Assemblies /\ wire \in Streams /\ spoken \in Nat /\ spoken + 1 \in Nat
  BY DEF WireTypeOK
<1>3. Gathered(OnTextDelta(asm, spoken + 1), wire, spoken + 1)
  BY <1>1, <1>2, TextGathers DEF GatherInv
<1>4. asm'.meta = asm.meta
  BY <1>1, <1>2, Told
<1>5. Gathered(asm', wire', spoken')
  BY <1>1, <1>3
<1> QED
  BY <1>1, <1>4, <1>5 DEF GatherInv, CallsAssembled

(* The start of a call.                                                    *)
LEMMA CallStartGathers ==
  ASSUME WireTypeOK, GatherInv, NEW e \in Calls, CallStarts(e)
  PROVE  GatherInv'
<1>1. /\ streaming /\ streaming' = streaming /\ provider' = provider /\ provider # "gemini"
      /\ spoken' = spoken /\ asm' = OnStart(asm, e) /\ tracked' = Append(tracked, e)
      /\ wire[e].state = "unsent" /\ wire' = [wire EXCEPT ![e].state = "open"]
  BY DEF CallStarts
<1>2. asm \in Assemblies /\ wire \in Streams /\ spoken \in Nat /\ tracked \in Seq(Calls)
  BY DEF WireTypeOK
<1>3. /\ Gathered(asm, wire, spoken) /\ asm.meta = {c \in Calls : wire[c].state = "open"}
      /\ wire[e].sent = 0
  BY <1>1 DEF GatherInv
<1>4. wire' = [wire EXCEPT ![e] = [sent |-> 0, state |-> "open"]]
  BY <1>1, <1>2, <1>3, StreamSet
<1>5. e \notin asm.meta
  BY <1>1, <1>3
<1>6. PICK v : v = wire'
  OBVIOUS
<1>7. Gathered(OnStart(asm, e), v, spoken)
  BY <1>1, <1>2, <1>3, <1>4, <1>5, <1>6, StartGathers
<1>8. asm'.meta = asm.meta \cup {e}
  BY <1>1, <1>2, Started
<1>9. /\ \A c \in Calls : c # e => wire'[c] = wire[c]
      /\ wire'[e].state = "open"
  BY <1>2, <1>4 DEF Streams
<1>10. asm'.meta = {c \in Calls : wire'[c].state = "open"}
  BY <1>3, <1>8, <1>9
<1>11. provider = "chat" => asm'.meta \subseteq ToSet(tracked')
  <2>1. ToSet(Append(tracked, e)) = ToSet(tracked) \cup {e}
    <3>1. /\ Len(tracked) \in Nat /\ DOMAIN tracked = 1..Len(tracked)
          /\ DOMAIN Append(tracked, e) = 1..(Len(tracked) + 1)
          /\ \A i \in 1..Len(tracked) : Append(tracked, e)[i] = tracked[i]
          /\ Append(tracked, e)[Len(tracked) + 1] = e
      BY <1>2
    <3>2. /\ \A i \in 1..(Len(tracked) + 1) : i \in 1..Len(tracked) \/ i = Len(tracked) + 1
          /\ \A i \in 1..Len(tracked) : i \in 1..(Len(tracked) + 1)
          /\ Len(tracked) + 1 \in 1..(Len(tracked) + 1)
      BY <3>1
    <3> QED
      BY <3>1, <3>2 DEF ToSet
  <2> QED
    BY <1>1, <1>8, <2>1 DEF GatherInv
<1>12. \A c \in Calls : wire'[c].state = "unsent" => wire'[c].sent = 0
  BY <1>1, <1>9 DEF GatherInv
<1>13. Gathered(asm', wire', spoken')
  BY <1>1, <1>6, <1>7
<1> QED
  BY <1>1, <1>10, <1>11, <1>12, <1>13 DEF GatherInv, CallsAssembled

(* A piece of the input of an open call.                                   *)
LEMMA InputGathers ==
  ASSUME WireTypeOK, GatherInv, NEW e \in Calls, InputDelta(e)
  PROVE  GatherInv'
<1>1. /\ streaming /\ streaming' = streaming /\ provider' = provider /\ spoken' = spoken
      /\ tracked' = tracked /\ ended' = ended /\ wire[e].state = "open"
      /\ wire' = [wire EXCEPT ![e].sent = @ + 1]
      /\ asm' = OnInputDelta(asm, e, wire'[e].sent)
  BY DEF InputDelta, Routed
<1>2. asm \in Assemblies /\ wire \in Streams /\ spoken \in Nat
  BY DEF WireTypeOK
<1>3. Gathered(asm, wire, spoken) /\ asm.meta = {c \in Calls : wire[c].state = "open"}
  BY <1>1 DEF GatherInv
<1>4. wire' = [wire EXCEPT ![e] = [sent |-> wire[e].sent + 1, state |-> wire[e].state]]
  BY <1>1, <1>2, StreamSet
<1>5. /\ \A c \in Calls : c # e => wire'[c] = wire[c]
      /\ wire'[e].state = "open" /\ wire'[e].sent = wire[e].sent + 1
  BY <1>1, <1>2, <1>4 DEF Streams
<1>6. PICK v : v = wire'
  OBVIOUS
<1>7. e \in asm.meta
  BY <1>1, <1>3
<1>8. v = [wire EXCEPT ![e] = [sent |-> wire[e].sent + 1, state |-> wire[e].state]]
  BY <1>4, <1>6
<1>9. Gathered(OnInputDelta(asm, e, wire[e].sent + 1), v, spoken)
  BY <1>2, <1>3, <1>7, <1>8, PieceGathers
<1>10. wire[e].sent + 1 \in Nat
  BY <1>2 DEF Streams
<1>11. asm'.meta = asm.meta
  <2>1. PICK j \in Nat : j = wire[e].sent + 1
    BY <1>10
  <2>2. OnInputDelta(asm, e, j).meta = asm.meta
    BY <1>2, Streamed
  <2> QED
    BY <1>1, <1>5, <2>1, <2>2
<1>12. asm'.meta = {c \in Calls : wire'[c].state = "open"}
  BY <1>1, <1>3, <1>5, <1>11
<1>13. Gathered(asm', wire', spoken')
  BY <1>1, <1>5, <1>6, <1>9
<1>14. \A c \in Calls : wire'[c].state = "unsent" => wire'[c].sent = 0
  BY <1>1, <1>5 DEF GatherInv
<1>15. provider # "gemini"
  BY <1>1 DEF GatherInv
<1> QED
  BY <1>1, <1>11, <1>12, <1>13, <1>14, <1>15 DEF GatherInv, CallsAssembled

(* The end of a call, where the provider has one.                          *)
LEMMA StopGathers ==
  ASSUME WireTypeOK, GatherInv, NEW e \in Calls, CallStops(e)
  PROVE  GatherInv'
<1>1. /\ streaming /\ streaming' = streaming /\ provider' = provider /\ spoken' = spoken
      /\ provider \in {"anthropic", "responses"} /\ wire[e].state = "open"
      /\ wire' = [wire EXCEPT ![e].state = "over"] /\ asm' = OnEnd(asm, e)
  BY DEF CallStops
<1>2. asm \in Assemblies /\ wire \in Streams /\ spoken \in Nat
  BY DEF WireTypeOK
<1>3. Gathered(asm, wire, spoken) /\ asm.meta = {c \in Calls : wire[c].state = "open"}
  BY <1>1 DEF GatherInv
<1>4. wire' = [wire EXCEPT ![e] = [sent |-> wire[e].sent, state |-> "over"]]
  BY <1>1, <1>2, StreamSet
<1>5. /\ \A c \in Calls : c # e => wire'[c] = wire[c]
      /\ wire'[e].state = "over" /\ wire'[e].sent = wire[e].sent
  BY <1>1, <1>2, <1>4 DEF Streams
<1>6. Gathered(asm', wire, spoken)
  BY <1>1, <1>2, <1>3, EndGathers
<1>7. \A c \in Calls : /\ wire'[c].sent = wire[c].sent
                       /\ wire'[c].state = "unsent" <=> wire[c].state = "unsent"
  BY <1>1, <1>5
<1>8. Gathered(asm', wire', spoken')
  BY <1>1, <1>6, <1>7, SameSent
<1>9. asm'.meta = asm.meta \ {e}
  BY <1>1, <1>2, Ended
<1>10. asm'.meta = {c \in Calls : wire'[c].state = "open"}
  BY <1>3, <1>5, <1>9
<1>11. \A c \in Calls : wire'[c].state = "unsent" => wire'[c].sent = 0
  BY <1>1, <1>5 DEF GatherInv
<1> QED
  BY <1>1, <1>8, <1>10, <1>11 DEF GatherInv, CallsAssembled

(* A whole call of Gemini's: gathered the first time, and dropped when it  *)
(* is repeated.                                                            *)
LEMMA PartGathers ==
  ASSUME WireTypeOK, GatherInv, NEW e \in Calls, GeminiPart(e)
  PROVE  GatherInv'
<1>1. /\ streaming /\ streaming' = streaming /\ provider' = provider /\ spoken' = spoken
      /\ provider = "gemini" /\ tracked' = tracked
      /\ wire' = [wire EXCEPT ![e] = [sent |-> 1, state |-> "over"]]
      /\ ended' = ended \cup {e}
      /\ e \in ended => asm' = asm
      /\ e \notin ended => asm' = OnEnd(OnInputDelta(OnStart(asm, e), e, 1), e)
  BY DEF GeminiPart
<1>2. asm \in Assemblies /\ wire \in Streams /\ spoken \in Nat
  BY DEF WireTypeOK
<1>3. /\ Gathered(asm, wire, spoken) /\ asm.meta = {c \in Calls : wire[c].state = "open"}
      /\ \A c \in Calls : wire[c].state = "unsent" => wire[c].sent = 0
      /\ \A c \in Calls : /\ wire[c].state # "open"
                          /\ wire[c].state = "over" <=> c \in ended
                          /\ wire[c].state = "over" => wire[c].sent = 1
  BY <1>1 DEF GatherInv
<1>4. /\ \A c \in Calls : c # e => wire'[c] = wire[c]
      /\ wire'[e].state = "over" /\ wire'[e].sent = 1
  BY <1>1, <1>2 DEF Streams
<1>5. asm.meta = {}
  BY <1>3
<1>6. Gathered(asm', wire', spoken') /\ asm'.meta = {}
  <2>1. CASE e \in ended
    <3>1. \A c \in Calls : /\ wire'[c].sent = wire[c].sent
                           /\ wire'[c].state = "unsent" <=> wire[c].state = "unsent"
      BY <1>3, <1>4, <2>1
    <3>2. Gathered(asm, wire', spoken)
      BY <1>3, <3>1, SameSent
    <3>3. asm' = asm /\ spoken' = spoken
      BY <1>1, <2>1
    <3> QED
      BY <1>5, <3>2, <3>3
  <2>2. CASE e \notin ended
    <3>1. wire[e].state = "unsent"
      <4>1. wire[e].state \in {"unsent", "open", "over"}
        BY <1>2 DEF Streams
      <4> QED
        BY <1>3, <2>2, <4>1
    <3>2. PICK v \in Streams : v = [wire EXCEPT ![e] = [sent |-> 0, state |-> "open"]]
      BY <1>2 DEF Streams
    <3>3. Gathered(OnStart(asm, e), v, spoken)
      BY <1>2, <1>3, <1>5, <3>1, <3>2, StartGathers
    <3>4. PICK x \in Assemblies : x = OnStart(asm, e) /\ x.meta = {e}
      <4>1. OnStart(asm, e) \in Assemblies /\ OnStart(asm, e).meta = asm.meta \cup {e}
        BY <1>2, Started
      <4> QED
        BY <1>5, <4>1
    <3>5. v[e].sent = 0 /\ v[e].state = "open"
      BY <1>2, <3>2 DEF Streams
    <3>6. PICK u : u = [v EXCEPT ![e] = [sent |-> v[e].sent + 1, state |-> v[e].state]]
      OBVIOUS
    <3>7. Gathered(OnInputDelta(x, e, v[e].sent + 1), u, spoken)
      BY <1>2, <3>3, <3>4, <3>6, PieceGathers
    <3>8. v[e].sent + 1 = 1
      BY <3>5
    <3>9. PICK y \in Assemblies : y = OnInputDelta(x, e, 1) /\ y.meta = {e}
      <4>1. PICK j \in Nat : j = 1
        OBVIOUS
      <4>2. OnInputDelta(x, e, j) \in Assemblies /\ OnInputDelta(x, e, j).meta = x.meta
        BY Streamed
      <4> QED
        BY <3>4, <4>1, <4>2
    <3>10. u \in Streams
      BY <3>5, <3>6, <3>8 DEF Streams
    <3>11. Gathered(OnEnd(y, e), u, spoken)
      BY <1>2, <3>7, <3>8, <3>9, <3>10, EndGathers
    <3>12. asm' = OnEnd(y, e) /\ asm'.meta = {}
      <4>1. OnEnd(y, e).meta = y.meta \ {e}
        BY Ended
      <4> QED
        BY <1>1, <2>2, <3>4, <3>9, <4>1
    <3>13. \A c \in Calls : /\ wire'[c].sent = u[c].sent
                            /\ wire'[c].state = "unsent" <=> u[c].state = "unsent"
      <4>1. /\ \A c \in Calls : c # e => u[c] = wire[c]
            /\ u[e].sent = 1 /\ u[e].state = "open"
        BY <1>2, <3>2, <3>5, <3>6 DEF Streams
      <4> QED
        BY <1>4, <4>1
    <3> QED
      BY <1>1, <3>11, <3>12, <3>13, SameSent
  <2> QED
    BY <2>1, <2>2
<1>7. \A c \in Calls : /\ wire'[c].state = "unsent" => wire'[c].sent = 0
                       /\ wire'[c].state # "open"
                       /\ wire'[c].state = "over" <=> c \in ended'
                       /\ wire'[c].state = "over" => wire'[c].sent = 1
  BY <1>1, <1>3, <1>4
<1>8. asm'.meta = {c \in Calls : wire'[c].state = "open"}
  BY <1>6, <1>7
<1> QED
  BY <1>1, <1>6, <1>7, <1>8 DEF GatherInv, CallsAssembled

(* Nothing is open when the message ends, or the flush ends it: the reply  *)
(* is what was gathered.                                                   *)
LEMMA EndGathersAll == WireTypeOK /\ GatherInv /\ MessageEnd => GatherInv'
<1> SUFFICES ASSUME WireTypeOK, GatherInv, MessageEnd PROVE GatherInv'
  OBVIOUS
<1>1. /\ streaming /\ streaming' = FALSE /\ wire' = wire /\ spoken' = spoken
      /\ \A c \in Calls : wire[c].state = "open" => provider = "chat"
      /\ asm' = FlushText(IF provider = "chat" THEN ChatFlush(asm) ELSE asm)
  BY DEF MessageEnd
<1>2. asm \in Assemblies /\ wire \in Streams /\ spoken \in Nat /\ tracked \in Seq(Calls)
  BY DEF WireTypeOK
<1>3. /\ Gathered(asm, wire, spoken) /\ asm.meta = {c \in Calls : wire[c].state = "open"}
      /\ provider = "chat" => asm.meta \subseteq ToSet(tracked)
  BY <1>1 DEF GatherInv
<1>4. PICK x : x = IF provider = "chat" THEN ChatFlush(asm) ELSE asm
  OBVIOUS
<1>5. x \in Assemblies /\ x.meta = {} /\ Gathered(x, wire, spoken)
  <2>1. CASE provider = "chat"
    BY <1>2, <1>3, <1>4, <2>1, FlushEndsAll
  <2>2. CASE provider # "chat"
    BY <1>1, <1>2, <1>3, <1>4, <2>2
  <2> QED
    BY <2>1, <2>2
<1>6. PICK z : z = asm'
  OBVIOUS
<1>7. z = FlushText(x)
  BY <1>1, <1>4, <1>6
<1>8. Gathered(z, wire, spoken) /\ z.meta = {} /\ z.text = <<>> /\ z.content \in Seq(Answers)
  <2>1. Gathered(FlushText(x), wire, spoken)
    BY <1>2, <1>5, FlushGathers
  <2>2. FlushText(x) \in Assemblies /\ FlushText(x).meta = {} /\ FlushText(x).text = <<>>
    BY <1>5, Flushed
  <2> QED
    BY <1>7, <2>1, <2>2 DEF Assemblies
<1>9. Heard(z.content) = UpTo(spoken)
  <2>1. Heard(z.content) \in Seq(Nat)
    BY <1>8, HeardTyped
  <2>2. Heard(z.content) \o <<>> = Heard(z.content)
    BY <2>1, ConcatEmptySeq
  <2> QED
    BY <1>8, <2>2 DEF Gathered
<1>10. \A c \in Calls :
         IF wire[c].state = "unsent" THEN Blocks(z.content, c) = {}
         ELSE /\ Cardinality(Blocks(z.content, c)) = 1
              /\ \A i \in Blocks(z.content, c) : z.content[i].said = UpTo(wire[c].sent)
  <2> SUFFICES ASSUME NEW c \in Calls, wire[c].state # "unsent"
               PROVE  /\ Cardinality(Blocks(z.content, c)) = 1
                      /\ \A i \in Blocks(z.content, c) : z.content[i].said = UpTo(wire[c].sent)
    BY <1>8 DEF Gathered
  <2>1. PICK i : Blocks(z.content, c) = {i} /\ z.content[i].said = UpTo(wire[c].sent)
    BY <1>8 DEF Gathered
  <2>2. Cardinality({i}) = 1
    BY FS_Singleton
  <2> QED
    BY <2>1, <2>2
<1>11. Whole(z, wire, spoken)
  BY <1>9, <1>10 DEF Whole
<1>12. CallsAssembled'
  BY <1>1, <1>6, <1>11, IsWhole
<1> QED
  BY <1>1, <1>12 DEF GatherInv

(* Every call a provider streams is in the assembled reply once, with its  *)
(* own input and nothing else, and the text is all there.                  *)
THEOREM EveryCallIsAssembled == WireSpec => []CallsAssembled
<1>1. WireInit => GatherInv
  <2> SUFFICES ASSUME WireInit PROVE GatherInv
    OBVIOUS
  <2>1. Last(view).role = "user" /\ streaming = FALSE
    BY DEF WireInit, Last
  <2> QED
    BY <2>1 DEF GatherInv, CallsAssembled
<1>2. WireTypeOK /\ WireTypeOK' /\ GatherInv /\ [WireNext]_wireVars => GatherInv'
  <2> SUFFICES ASSUME WireTypeOK, WireTypeOK', GatherInv, [WireNext]_wireVars PROVE GatherInv'
    OBVIOUS
  <2>1. CASE Answer
    <3>1. PICK m \in Messages : view' = Append(view, m) /\ m.role = "user"
      BY <2>1, AnswerTyped
    <3>2. Last(view').role = "user"
      <4>1. view \in Seq(Messages)
        BY DEF WireTypeOK
      <4>2. Len(view') = Len(view) + 1 /\ view'[Len(view) + 1] = m
        BY <3>1, <4>1
      <4> QED
        BY <3>1, <4>2 DEF Last
    <3> QED
      BY <2>1, <3>2 DEF Answer, GatherInv, CallsAssembled
  <2>2. CASE Compact
    <3>1. Len(view') = 3 /\ view'[3] = view[Len(view)]
      BY <2>2, CompactTyped
    <3>2. Last(view').role = "user"
      BY <2>2, <3>1 DEF Compact, Last
    <3> QED
      BY <2>2, <3>2 DEF Compact, GatherInv, CallsAssembled
  <2>3. CASE UNCHANGED wireVars
    <3>1. CallsAssembled'
      BY <2>3, IsWhole DEF wireVars, GatherInv
    <3> QED
      BY <2>3, <3>1 DEF wireVars, GatherInv
  <2>4. ASSUME NEW e \in Calls, CallStarts(e) \/ InputDelta(e) \/ CallStops(e) \/ GeminiPart(e)
        PROVE  GatherInv'
    BY <2>4, CallStartGathers, InputGathers, StopGathers, PartGathers
  <2> QED
    BY <2>1, <2>2, <2>3, <2>4, SendGathers, TextDeltaGathers, EndGathersAll DEF WireNext
<1>3. GatherInv => CallsAssembled
  BY DEF GatherInv
<1> QED
  BY <1>1, <1>2, <1>3, WireTypes, PTL DEF WireSpec
=============================================================================
