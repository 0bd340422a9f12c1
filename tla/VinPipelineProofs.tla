------------------------- MODULE VinPipelineProofs -------------------------
(***************************************************************************)
(* Theorems about VinPipeline, for any boards.                             *)
(***************************************************************************)
EXTENDS VinPipeline, SequenceTheorems, FiniteSetTheorems, TLAPS

-----------------------------------------------------------------------------
(* The calls of csi_init.                                                  *)

\* A list of calls in the order of Rank: from lo on, before hi, the set C.
Listed(s, lo, hi, C) ==
  /\ s \in Seq(Calls)
  /\ \A i \in 1 .. Len(s) : s[i] \in C /\ lo <= Rank(s[i]) /\ Rank(s[i]) < hi
  /\ \A i, j \in 1 .. Len(s) : i < j => Rank(s[i]) < Rank(s[j])
  /\ \A c \in C : \E i \in 1 .. Len(s) : s[i] = c

\* The rank of a call is a number.
LEMMA RankType ==
  ASSUME NEW c \in Calls  PROVE Rank(c) \in Nat
<1>1. c.op \in Ops /\ c.kind \in Parts /\ c.video \in 0 .. 3
  BY DEF Calls
<1>2. Place(c.op, c.kind) \in Nat /\ Start(c.op) \in Nat
  BY <1>1 DEF Place, Start
<1> QED
  BY <1>1, <1>2 DEF Rank

\* Nothing is a list of no calls.
LEMMA ListedNothing ==
  ASSUME NEW lo \in Nat, NEW hi \in Nat
  PROVE  Listed(<<>>, lo, hi, {})
  BY DEF Listed

\* Wider bounds.
LEMMA ListedWider ==
  ASSUME NEW lo \in Nat, NEW hi \in Nat, NEW lo2 \in Nat, NEW hi2 \in Nat, NEW C,
         lo2 <= lo, hi <= hi2, NEW s, Listed(s, lo, hi, C)
  PROVE  Listed(s, lo2, hi2, C)
<1>1. s \in Seq(Calls) /\ Len(s) \in Nat
  BY DEF Listed
<1>2. ASSUME NEW i \in 1 .. Len(s)  PROVE lo2 <= Rank(s[i]) /\ Rank(s[i]) < hi2
  <2>1. s[i] \in Calls
    BY <1>1
  <2>2. Rank(s[i]) \in Nat
    BY <2>1, RankType
  <2>3. lo <= Rank(s[i]) /\ Rank(s[i]) < hi
    BY DEF Listed
  <2> QED
    BY <2>2, <2>3
<1> QED
  BY <1>2 DEF Listed

\* A list and one of later calls are a list.
LEMMA ListedConcat ==
  ASSUME NEW lo \in Nat, NEW mid \in Nat, NEW hi \in Nat, NEW C, NEW D,
         lo <= mid, mid <= hi, NEW s, NEW t,
         Listed(s, lo, mid, C), Listed(t, mid, hi, D)
  PROVE  Listed(s \o t, lo, hi, C \cup D)
<1> DEFINE u == s \o t
<1>1. s \in Seq(Calls) /\ t \in Seq(Calls)
  BY DEF Listed
<1>2. /\ u \in Seq(Calls) /\ Len(u) = Len(s) + Len(t)
      /\ \A i \in 1 .. Len(s) + Len(t) : u[i] = IF i <= Len(s) THEN s[i] ELSE t[i - Len(s)]
  BY <1>1, ConcatProperties
<1>3. Len(s) \in Nat /\ Len(t) \in Nat
  BY <1>1
<1> HIDE DEF u
<1>4. ASSUME NEW i \in 1 .. Len(u), i <= Len(s)
      PROVE  i \in 1 .. Len(s) /\ u[i] = s[i]
  BY <1>2, <1>3, <1>4
<1>5. ASSUME NEW i \in 1 .. Len(u), ~ (i <= Len(s))
      PROVE  i - Len(s) \in 1 .. Len(t) /\ u[i] = t[i - Len(s)]
  BY <1>2, <1>3, <1>5
<1>6. ASSUME NEW i \in 1 .. Len(s)
      PROVE  /\ s[i] \in C /\ Rank(s[i]) \in Nat
             /\ lo <= Rank(s[i]) /\ Rank(s[i]) < mid /\ Rank(s[i]) < hi
  <2>1. s[i] \in C /\ lo <= Rank(s[i]) /\ Rank(s[i]) < mid
    BY DEF Listed
  <2>2. Rank(s[i]) \in Nat
    BY <1>1, RankType
  <2> QED
    BY <2>1, <2>2
<1>7. ASSUME NEW i \in 1 .. Len(t)
      PROVE  /\ t[i] \in D /\ Rank(t[i]) \in Nat
             /\ lo <= Rank(t[i]) /\ mid <= Rank(t[i]) /\ Rank(t[i]) < hi
  <2>1. t[i] \in D /\ mid <= Rank(t[i]) /\ Rank(t[i]) < hi
    BY DEF Listed
  <2>2. Rank(t[i]) \in Nat
    BY <1>1, RankType
  <2> QED
    BY <2>1, <2>2
<1>8. ASSUME NEW i \in 1 .. Len(u)
      PROVE  u[i] \in C \cup D /\ lo <= Rank(u[i]) /\ Rank(u[i]) < hi
  <2>1. CASE i <= Len(s)
    BY <2>1, <1>4, <1>6
  <2>2. CASE ~ (i <= Len(s))
    <3> DEFINE k == i - Len(s)
    <3>1. k \in 1 .. Len(t) /\ u[i] = t[k]
      BY <2>2, <1>5
    <3> HIDE DEF k
    <3> QED
      BY <3>1, <1>7
  <2> QED
    BY <2>1, <2>2
<1>9. ASSUME NEW i \in 1 .. Len(u), NEW j \in 1 .. Len(u), i < j
      PROVE  Rank(u[i]) < Rank(u[j])
  <2>0. i \in Nat /\ j \in Nat
    BY <1>2, <1>3
  <2>1. CASE j <= Len(s)
    <3>1. i <= Len(s)
      BY <2>0, <2>1, <1>3, <1>9
    <3> QED
      BY <2>1, <3>1, <1>4, <1>9 DEF Listed
  <2>2. CASE ~ (j <= Len(s)) /\ i <= Len(s)
    <3> DEFINE k == j - Len(s)
    <3>1. k \in 1 .. Len(t) /\ u[j] = t[k] /\ i \in 1 .. Len(s) /\ u[i] = s[i]
      BY <2>2, <1>4, <1>5
    <3> HIDE DEF k
    <3>2. /\ Rank(s[i]) \in Nat /\ Rank(s[i]) < mid
          /\ Rank(t[k]) \in Nat /\ mid <= Rank(t[k])
      BY <3>1, <1>6, <1>7
    <3> QED
      BY <3>1, <3>2
  <2>3. CASE ~ (j <= Len(s)) /\ ~ (i <= Len(s))
    <3>1. i - Len(s) < j - Len(s)
      BY <2>0, <1>3, <1>9
    <3> QED
      BY <2>3, <3>1, <1>5 DEF Listed
  <2> QED
    BY <2>1, <2>2, <2>3
<1>10. ASSUME NEW c \in C \cup D  PROVE \E i \in 1 .. Len(u) : u[i] = c
  <2>1. CASE c \in C
    <3>1. PICK i \in 1 .. Len(s) : s[i] = c
      BY <2>1 DEF Listed
    <3>2. i \in 1 .. Len(u) /\ i <= Len(s)
      BY <1>2, <1>3
    <3> QED
      BY <3>1, <3>2, <1>4
  <2>2. CASE c \in D
    <3>1. PICK i \in 1 .. Len(t) : t[i] = c
      BY <2>2 DEF Listed
    <3>2. i + Len(s) \in 1 .. Len(u) /\ ~ (i + Len(s) <= Len(s)) /\ i + Len(s) - Len(s) = i
      BY <1>2, <1>3
    <3> QED
      BY <3>1, <3>2, <1>5
  <2> QED
    BY <2>1, <2>2
<1> QED
  BY <1>2, <1>8, <1>9, <1>10 DEF u, Listed

\* What Do makes of a list of kinds.
LEMMA DoTypes ==
  ASSUME NEW op \in Ops, NEW ks \in Seq(Parts), NEW v \in 0 .. 3
  PROVE  /\ Do(op, ks, v) \in Seq(Calls)
         /\ Len(Do(op, ks, v)) = Len(ks)
         /\ \A i \in 1 .. Len(ks) : Do(op, ks, v)[i] = CallOf(op, ks[i], v)
<1>1. ASSUME NEW i \in 1 .. Len(ks)  PROVE CallOf(op, ks[i], v) \in Calls
  BY <1>1 DEF CallOf, Calls
<1>2. Do(op, ks, v) = [i \in 1 .. Len(ks) |-> CallOf(op, ks[i], v)] /\ Len(ks) \in Nat
  BY DEF Do, CallOf
<1> QED
  BY <1>1, <1>2

\* Do goes through the parts of a list one after the other.
LEMMA DoConcat ==
  ASSUME NEW op \in Ops, NEW s \in Seq(Parts), NEW t \in Seq(Parts), NEW v \in 0 .. 3
  PROVE  Do(op, s \o t, v) = Do(op, s, v) \o Do(op, t, v)
<1> DEFINE a == Do(op, s, v)
           b == Do(op, t, v)
           c == Do(op, s \o t, v)
<1>1. /\ s \o t \in Seq(Parts) /\ Len(s \o t) = Len(s) + Len(t)
      /\ \A i \in 1 .. Len(s) + Len(t) : (s \o t)[i] = IF i <= Len(s) THEN s[i] ELSE t[i - Len(s)]
  BY ConcatProperties
<1>2. /\ a \in Seq(Calls) /\ Len(a) = Len(s) /\ \A i \in 1 .. Len(s) : a[i] = CallOf(op, s[i], v)
      /\ b \in Seq(Calls) /\ Len(b) = Len(t) /\ \A i \in 1 .. Len(t) : b[i] = CallOf(op, t[i], v)
  BY DoTypes
<1>3. /\ c \in Seq(Calls) /\ Len(c) = Len(s) + Len(t)
      /\ \A i \in 1 .. Len(s) + Len(t) : c[i] = CallOf(op, (s \o t)[i], v)
  BY <1>1, DoTypes
<1> HIDE DEF a, b, c
<1>4. /\ a \o b \in Seq(Calls) /\ Len(a \o b) = Len(a) + Len(b)
      /\ \A i \in 1 .. Len(a) + Len(b) : (a \o b)[i] = IF i <= Len(a) THEN a[i] ELSE b[i - Len(a)]
  <2>1. a \in Seq(Calls) /\ b \in Seq(Calls)
    BY <1>2
  <2> QED
    BY <2>1, ConcatProperties
<1>5. ASSUME NEW i \in 1 .. Len(s) + Len(t)  PROVE c[i] = (a \o b)[i]
  <2>0. i \in Nat /\ Len(s) \in Nat /\ Len(t) \in Nat
    OBVIOUS
  <2>1. CASE i <= Len(s)
    <3>1. i \in 1 .. Len(s)
      BY <2>0, <2>1
    <3>2. c[i] = CallOf(op, s[i], v) /\ (a \o b)[i] = a[i]
      BY <1>1, <1>2, <1>3, <1>4, <2>1
    <3> QED
      BY <1>2, <3>1, <3>2
  <2>2. CASE ~ (i <= Len(s))
    <3>1. i - Len(s) \in 1 .. Len(t)
      BY <2>0, <2>2
    <3>2. c[i] = CallOf(op, t[i - Len(s)], v) /\ (a \o b)[i] = b[i - Len(s)]
      BY <1>1, <1>2, <1>3, <1>4, <2>2
    <3> QED
      BY <1>2, <3>1, <3>2
  <2> QED
    BY <2>1, <2>2
<1>6. c = a \o b
  BY <1>2, <1>3, <1>4, <1>5, SeqEqual
<1> QED
  BY <1>6 DEF a, b, c
\* The kinds ks of op have places from p on, before q, and are the set K.
Placed(op, ks, p, q, K) ==
  /\ ks \in Seq(Parts)
  /\ \A i \in 1 .. Len(ks) : ks[i] \in K /\ p <= Place(op, ks[i]) /\ Place(op, ks[i]) < q
  /\ \A i, j \in 1 .. Len(ks) : i < j => Place(op, ks[i]) < Place(op, ks[j])
  /\ \A k \in K : \E i \in 1 .. Len(ks) : ks[i] = k

Base(op, v) == Start(op) + 30 * v
Made(op, K, v) == {CallOf(op, k, v) : k \in K}

\* The rank of a call made by Do.
LEMMA RankOf ==
  ASSUME NEW op \in Ops, NEW kind \in Parts, NEW v \in 0 .. 3
  PROVE  /\ CallOf(op, kind, v) \in Calls
         /\ Base(op, v) \in Nat /\ Place(op, kind) \in Nat
         /\ Rank(CallOf(op, kind, v)) = Base(op, v) + Place(op, kind)
<1>1. Start(op) \in Nat /\ Place(op, kind) \in Nat
  BY DEF Start, Place, Ops
<1>2. CallOf(op, kind, v) \in Calls
  BY DEF Calls, CallOf
<1>3. Rank(CallOf(op, kind, v)) = Base(op, v) + Place(op, kind)
  BY DEF Rank, CallOf, Base
<1>4. Base(op, v) \in Nat
  BY <1>1 DEF Base
<1> QED
  BY <1>1, <1>2, <1>3, <1>4

\* Do makes a list of calls of kinds in the order of their places.
LEMMA DoListed ==
  ASSUME NEW op \in Ops, NEW v \in 0 .. 3, NEW p \in Nat, NEW q \in Nat, NEW K,
         NEW ks, Placed(op, ks, p, q, K)
  PROVE  Listed(Do(op, ks, v), Base(op, v) + p, Base(op, v) + q, Made(op, K, v))
<1> DEFINE s == Do(op, ks, v)
<1>1. ks \in Seq(Parts)
  BY DEF Placed
<1>2. /\ s \in Seq(Calls) /\ Len(s) = Len(ks)
      /\ \A i \in 1 .. Len(ks) : s[i] = CallOf(op, ks[i], v)
  BY <1>1, DoTypes
<1> HIDE DEF s
<1>3. ASSUME NEW i \in 1 .. Len(ks)
      PROVE  /\ Rank(s[i]) = Base(op, v) + Place(op, ks[i])
             /\ Base(op, v) \in Nat /\ Place(op, ks[i]) \in Nat
  <2>1. ks[i] \in Parts
    BY <1>1
  <2> QED
    BY <1>2, <2>1, RankOf
<1>4. ASSUME NEW i \in 1 .. Len(s)
      PROVE  /\ s[i] \in Made(op, K, v)
             /\ Base(op, v) + p <= Rank(s[i]) /\ Rank(s[i]) < Base(op, v) + q
  <2>1. i \in 1 .. Len(ks)
    BY <1>2
  <2>2. ks[i] \in K /\ p <= Place(op, ks[i]) /\ Place(op, ks[i]) < q
    BY <2>1 DEF Placed
  <2>3. s[i] \in Made(op, K, v)
    BY <1>2, <2>1, <2>2 DEF Made
  <2> QED
    BY <1>3, <2>1, <2>2, <2>3
<1>5. ASSUME NEW i \in 1 .. Len(s), NEW j \in 1 .. Len(s), i < j
      PROVE  Rank(s[i]) < Rank(s[j])
  <2>1. i \in 1 .. Len(ks) /\ j \in 1 .. Len(ks)
    BY <1>2
  <2>2. Place(op, ks[i]) < Place(op, ks[j])
    BY <1>5, <2>1 DEF Placed
  <2> QED
    BY <1>3, <2>1, <2>2
<1>6. ASSUME NEW c \in Made(op, K, v)  PROVE \E i \in 1 .. Len(s) : s[i] = c
  <2>1. PICK k \in K : c = CallOf(op, k, v)
    BY DEF Made
  <2>2. PICK i \in 1 .. Len(ks) : ks[i] = k
    BY DEF Placed
  <2> QED
    BY <1>2, <2>1, <2>2
<1> QED
  BY <1>2, <1>4, <1>5, <1>6 DEF s, Listed

\* The same, of a list of kinds in two parts.
LEMMA DoTwo ==
  ASSUME NEW op \in Ops, NEW v \in 0 .. 3, NEW p \in Nat, NEW q \in Nat, NEW r \in Nat,
         p <= q, q <= r, NEW K, NEW L, NEW s, NEW t,
         Placed(op, s, p, q, K), Placed(op, t, q, r, L)
  PROVE  Listed(Do(op, s \o t, v), Base(op, v) + p, Base(op, v) + r, Made(op, K \cup L, v))
<1>1. s \in Seq(Parts) /\ t \in Seq(Parts)
  BY DEF Placed
<1>2. Do(op, s \o t, v) = Do(op, s, v) \o Do(op, t, v)
  BY <1>1, DoConcat
<1>3. /\ Listed(Do(op, s, v), Base(op, v) + p, Base(op, v) + q, Made(op, K, v))
      /\ Listed(Do(op, t, v), Base(op, v) + q, Base(op, v) + r, Made(op, L, v))
  BY DoListed
<1>4. Base(op, v) \in Nat
  BY RankOf DEF Parts
<1>5. /\ Base(op, v) + p \in Nat /\ Base(op, v) + q \in Nat /\ Base(op, v) + r \in Nat
      /\ Base(op, v) + p <= Base(op, v) + q /\ Base(op, v) + q <= Base(op, v) + r
  BY <1>4
<1>6. Made(op, K \cup L, v) = Made(op, K, v) \cup Made(op, L, v)
  BY DEF Made

<1>7. Listed(Do(op, s, v) \o Do(op, t, v), Base(op, v) + p, Base(op, v) + r,
             Made(op, K, v) \cup Made(op, L, v))
  BY <1>3, <1>5, ListedConcat
<1> QED
  BY <1>2, <1>6, <1>7

\* The same, of a list in three parts.
LEMMA DoThree ==
  ASSUME NEW op \in Ops, NEW v \in 0 .. 3,
         NEW p \in Nat, NEW q \in Nat, NEW r \in Nat, NEW x \in Nat,
         p <= q, q <= r, r <= x, NEW K, NEW L, NEW M, NEW s, NEW t, NEW u,
         Placed(op, s, p, q, K), Placed(op, t, q, r, L), Placed(op, u, r, x, M)
  PROVE  Listed(Do(op, s \o t \o u, v), Base(op, v) + p, Base(op, v) + x,
                Made(op, K \cup L \cup M, v))
<1>1. s \in Seq(Parts) /\ t \in Seq(Parts) /\ u \in Seq(Parts)
  BY DEF Placed
<1>2. s \o t \in Seq(Parts)
  BY <1>1, ConcatProperties
<1>3. Do(op, s \o t \o u, v) = Do(op, s \o t, v) \o Do(op, u, v)
  BY <1>1, <1>2, DoConcat
<1>4. Listed(Do(op, s \o t, v), Base(op, v) + p, Base(op, v) + r, Made(op, K \cup L, v))
  BY DoTwo
<1>5. Listed(Do(op, u, v), Base(op, v) + r, Base(op, v) + x, Made(op, M, v))
  BY DoListed
<1>6. Base(op, v) \in Nat
  BY RankOf DEF Parts
<1>7. /\ Base(op, v) + p \in Nat /\ Base(op, v) + r \in Nat /\ Base(op, v) + x \in Nat
      /\ Base(op, v) + p <= Base(op, v) + r /\ Base(op, v) + r <= Base(op, v) + x
  BY <1>6
<1>8. Made(op, K \cup L \cup M, v) = Made(op, K \cup L, v) \cup Made(op, M, v)
  BY DEF Made
<1>9. Listed(Do(op, s \o t, v) \o Do(op, u, v), Base(op, v) + p, Base(op, v) + x,
             Made(op, K \cup L, v) \cup Made(op, M, v))
  BY <1>4, <1>5, <1>7, ListedConcat
<1> QED
  BY <1>3, <1>8, <1>9

\* Three lists with gaps between them.
LEMMA ListedThree ==
  ASSUME NEW lo \in Nat, NEW a \in Nat, NEW b \in Nat, NEW hi \in Nat, lo <= a, a <= b, b <= hi,
         NEW a2 \in Nat, NEW b2 \in Nat, NEW hi2 \in Nat, a2 <= a, b2 <= b, hi2 <= hi,
         NEW C, NEW D, NEW E, NEW s, NEW t, NEW u,
         Listed(s, lo, a2, C), Listed(t, a, b2, D), Listed(u, b, hi2, E)
  PROVE  Listed(s \o t \o u, lo, hi, C \cup D \cup E)
<1>1. Listed(s, lo, a, C) /\ Listed(t, a, b, D) /\ Listed(u, b, hi, E)
  BY ListedWider
<1>2. Listed(s \o t, lo, b, C \cup D)
  BY <1>1, ListedConcat
<1>3. lo <= b
  OBVIOUS
<1> QED
  BY <1>1, <1>2, <1>3, ListedConcat

-----------------------------------------------------------------------------
(* The functions of vin.c that csi_init calls for a video.                 *)

TdmKinds(b) == IF b.tdm THEN {"tdm"} ELSE {}

\* The devices a function calls.
KindsFor(b, op) ==
  CASE op \in {"probe", "remove"} -> {"mipi", "csi"} \cup TdmKinds(b) \cup {"isp", "vipp", "vinc"}
    [] op = "config" -> {"vinc", "mipi", "csi"} \cup TdmKinds(b) \cup {"isp"}
    [] op = "on" -> TdmKinds(b) \cup {"mipi", "isp", "vipp", "vinc", "csi", "sensor"}
    [] op = "off" -> {"vinc", "vipp", "isp"} \cup TdmKinds(b) \cup {"csi"}
    [] OTHER -> {"isp"}

Calling(b, op, v) == Made(op, KindsFor(b, op), v)

\* The receiver of the TDM has its place among the devices, if there is one.
LEMMA TdmPlaced ==
  ASSUME NEW b \in Boards, NEW op \in Ops \ {"wait", "reset"}, NEW p, p = Place(op, "tdm")
  PROVE  p \in Nat /\ Placed(op, Tdm(b), p, p + 1, TdmKinds(b))
<1>1. p \in Nat
  BY DEF Place
<1>2. CASE b.tdm
  <2>1. Tdm(b) = <<"tdm">> /\ TdmKinds(b) = {"tdm"}
    BY <1>2 DEF Tdm, TdmKinds
  <2> QED
    BY <1>1, <2>1 DEF Placed, Parts, Kinds
<1>3. CASE ~ b.tdm
  <2>1. Tdm(b) = <<>> /\ TdmKinds(b) = {}
    BY <1>3 DEF Tdm, TdmKinds
  <2> QED
    BY <1>1, <2>1 DEF Placed, Parts, Kinds
<1> QED
  BY <1>1, <1>2, <1>3

\* Where the parts of csi_init and their functions start.
LEMMA Starts ==
  ASSUME NEW v \in 0 .. 3
  PROVE  /\ Base("probe", v) = 30 * v /\ Base("config", v) = 30 * v + 10
         /\ Base("on", v) = 30 * v + 20 /\ Base("wait", v) = 30 * v + 200
         /\ Base("off", v) = 30 * v + 210 /\ Base("remove", v) = 30 * v + 220
         /\ Base("reset", v) = 30 * v + 400
         /\ \A op \in Ops : Base(op, v) \in Nat
  BY DEF Base, Start, Ops

\* vin_probe and vin_free go through the same devices.
LEMMA ProbeListed ==
  ASSUME NEW b \in Boards, NEW v \in 0 .. 3
  PROVE  /\ Listed(vin_probe(b, v), Base("probe", v), Base("probe", v) + 6, Calling(b, "probe", v))
         /\ Listed(vin_free(b, v), Base("remove", v), Base("remove", v) + 6, Calling(b, "remove", v))
<1> DEFINE ks == <<"mipi", "csi">>
           ls == <<"isp", "vipp", "vinc">>
           K == {"mipi", "csi"}
           L == {"isp", "vipp", "vinc"}
<1>1. ASSUME NEW op \in {"probe", "remove"}
      PROVE  Listed(Do(op, ks \o Tdm(b) \o ls, v), Base(op, v), Base(op, v) + 6, Calling(b, op, v))
  <2>1. op \in Ops /\ Base(op, v) \in Nat
    BY Starts DEF Ops
  <2>2. Placed(op, ks, 0, 2, K) /\ Placed(op, ls, 3, 6, L)
    BY DEF Placed, Place, Parts, Kinds
  <2>3. Placed(op, Tdm(b), 2, 3, TdmKinds(b))
    <3>1. 2 = Place(op, "tdm") /\ op \in Ops \ {"wait", "reset"}
      BY DEF Place, Ops
    <3> QED
      BY <3>1, TdmPlaced
  <2>4. KindsFor(b, op) = K \cup TdmKinds(b) \cup L
    BY DEF KindsFor
  <2> HIDE DEF ks, ls, K, L
  <2>5. Listed(Do(op, ks \o Tdm(b) \o ls, v), Base(op, v) + 0, Base(op, v) + 6,
               Made(op, K \cup TdmKinds(b) \cup L, v))
    BY <2>1, <2>2, <2>3, DoThree
  <2> QED
    BY <2>1, <2>4, <2>5 DEF Calling
<1> QED
  BY <1>1 DEF vin_probe, vin_free

\* vin_pipeline_set_mbus_config.
LEMMA ConfigListed ==
  ASSUME NEW b \in Boards, NEW v \in 0 .. 3
  PROVE  Listed(vin_pipeline_set_mbus_config(b, v), Base("config", v), Base("config", v) + 5,
                Calling(b, "config", v))
<1> DEFINE op == "config"
           ks == <<"vinc", "mipi", "csi">>
           ls == <<"isp">>
           K == {"vinc", "mipi", "csi"}
           L == {"isp"}
<1>1. op \in Ops /\ Base(op, v) \in Nat
  BY Starts DEF Ops
<1>2. Placed(op, ks, 0, 3, K) /\ Placed(op, ls, 4, 5, L)
  BY DEF Placed, Place, Parts, Kinds
<1>3. Placed(op, Tdm(b), 3, 4, TdmKinds(b))
  <2>1. 3 = Place(op, "tdm") /\ op \in Ops \ {"wait", "reset"}
    BY DEF Place, Ops
  <2> QED
    BY <2>1, TdmPlaced
<1>4. KindsFor(b, op) = K \cup TdmKinds(b) \cup L
  BY DEF KindsFor
<1>5. Listed(Do(op, ks \o Tdm(b) \o ls, v), Base(op, v) + 0, Base(op, v) + 5,
             Made(op, K \cup TdmKinds(b) \cup L, v))
  <2> HIDE DEF ks, ls, K, L, op
  <2> QED
    BY <1>1, <1>2, <1>3, DoThree
<1>6. Listed(Do(op, ks \o Tdm(b) \o ls, v), Base(op, v), Base(op, v) + 5, Calling(b, op, v))
  <2> HIDE DEF ks, ls, K, L, op
  <2> QED
    BY <1>1, <1>4, <1>5 DEF Calling
<1> QED
  BY <1>6 DEF vin_pipeline_set_mbus_config

\* Switching on.
LEMMA OnListed ==
  ASSUME NEW b \in Boards, NEW v \in 0 .. 3
  PROVE  Listed(StreamOn(b, v), Base("on", v), Base("on", v) + 7, Calling(b, "on", v))
<1> DEFINE op == "on"
           ks == <<"mipi", "isp", "vipp", "vinc", "csi", "sensor">>
           K == {"mipi", "isp", "vipp", "vinc", "csi", "sensor"}
<1>1. op \in Ops /\ Base(op, v) \in Nat
  BY Starts DEF Ops
<1>2. Placed(op, Tdm(b), 0, 1, TdmKinds(b))
  <2>1. 0 = Place(op, "tdm") /\ op \in Ops \ {"wait", "reset"}
    BY DEF Place, Ops
  <2> QED
    BY <2>1, TdmPlaced
<1>3. Placed(op, ks, 1, 7, K)
  BY DEF Placed, Place, Parts, Kinds
<1>4. KindsFor(b, op) = TdmKinds(b) \cup K
  BY DEF KindsFor
<1>5. Listed(Do(op, Tdm(b) \o ks, v), Base(op, v) + 0, Base(op, v) + 7, Made(op, TdmKinds(b) \cup K, v))
  <2> HIDE DEF ks, K, op
  <2> QED
    BY <1>1, <1>2, <1>3, DoTwo
<1> QED
  BY <1>1, <1>4, <1>5 DEF Calling, StreamOn

\* Switching off.
LEMMA OffListed ==
  ASSUME NEW b \in Boards, NEW v \in 0 .. 3
  PROVE  Listed(StreamOff(b, v), Base("off", v), Base("off", v) + 5, Calling(b, "off", v))
<1> DEFINE op == "off"
           ks == <<"vinc", "vipp", "isp">>
           ls == <<"csi">>
           K == {"vinc", "vipp", "isp"}
           L == {"csi"}
<1>1. op \in Ops /\ Base(op, v) \in Nat
  BY Starts DEF Ops
<1>2. Placed(op, ks, 0, 3, K) /\ Placed(op, ls, 4, 5, L)
  BY DEF Placed, Place, Parts, Kinds
<1>3. Placed(op, Tdm(b), 3, 4, TdmKinds(b))
  <2>1. 3 = Place(op, "tdm") /\ op \in Ops \ {"wait", "reset"}
    BY DEF Place, Ops
  <2> QED
    BY <2>1, TdmPlaced
<1>4. KindsFor(b, op) = K \cup TdmKinds(b) \cup L
  BY DEF KindsFor
<1>5. Listed(Do(op, ks \o Tdm(b) \o ls, v), Base(op, v) + 0, Base(op, v) + 5,
             Made(op, K \cup TdmKinds(b) \cup L, v))
  <2> HIDE DEF ks, ls, K, L, op
  <2> QED
    BY <1>1, <1>2, <1>3, DoThree
<1>6. Listed(Do(op, ks \o Tdm(b) \o ls, v), Base(op, v), Base(op, v) + 5, Calling(b, op, v))
  <2> HIDE DEF ks, ls, K, L, op
  <2> QED
    BY <1>1, <1>4, <1>5 DEF Calling
<1> QED
  BY <1>6 DEF StreamOff

\* The wait and the reset of the server are calls to the ISP alone.
LEMMA IspListed ==
  ASSUME NEW b \in Boards, NEW v \in 0 .. 3, NEW op \in {"wait", "reset"}
  PROVE  Listed(Do(op, <<"isp">>, v), Base(op, v), Base(op, v) + 1, Calling(b, op, v))
<1>1. op \in Ops /\ Base(op, v) \in Nat
  BY Starts DEF Ops
<1>2. Placed(op, <<"isp">>, 0, 1, {"isp"})
  BY DEF Placed, Place, Parts, Kinds
<1>3. KindsFor(b, op) = {"isp"}
  BY DEF KindsFor
<1>4. Listed(Do(op, <<"isp">>, v), Base(op, v) + 0, Base(op, v) + 1, Made(op, {"isp"}, v))
  BY <1>1, <1>2, DoListed
<1> QED
  BY <1>1, <1>3, <1>4 DEF Calling

-----------------------------------------------------------------------------
(* csi_init as a whole.                                                    *)

Opened(b, v) == Calling(b, "probe", v) \cup Calling(b, "config", v) \cup Calling(b, "on", v)
Closed(b, v) == Calling(b, "wait", v) \cup Calling(b, "off", v) \cup Calling(b, "remove", v)

\* The calls of the three parts for one video.
LEMMA PartsListed ==
  ASSUME NEW b \in Boards, NEW v \in 0 .. 3
  PROVE  /\ Listed(Opening(b, v), 30 * v, 30 * v + 30, Opened(b, v))
         /\ Listed(Closing(b, v), 200 + 30 * v, 200 + 30 * v + 30, Closed(b, v))
         /\ Listed(Do("reset", <<"isp">>, v), 400 + 30 * v, 400 + 30 * v + 30, Calling(b, "reset", v))
<1>1. v \in Nat
  OBVIOUS
<1>2. /\ Listed(vin_probe(b, v), 30 * v, 30 * v + 6, Calling(b, "probe", v))
      /\ Listed(vin_pipeline_set_mbus_config(b, v), 30 * v + 10, 30 * v + 10 + 5, Calling(b, "config", v))
      /\ Listed(StreamOn(b, v), 30 * v + 20, 30 * v + 20 + 7, Calling(b, "on", v))
      /\ Listed(Do("wait", <<"isp">>, v), 30 * v + 200, 30 * v + 200 + 1, Calling(b, "wait", v))
      /\ Listed(StreamOff(b, v), 30 * v + 210, 30 * v + 210 + 5, Calling(b, "off", v))
      /\ Listed(vin_free(b, v), 30 * v + 220, 30 * v + 220 + 6, Calling(b, "remove", v))
      /\ Listed(Do("reset", <<"isp">>, v), 30 * v + 400, 30 * v + 400 + 1, Calling(b, "reset", v))
  BY Starts, ProbeListed, ConfigListed, OnListed, OffListed, IspListed
<1> DEFINE n == 30 * v
<1>3. n \in Nat
  BY <1>1
<1>4. 30 * v + 200 = 200 + 30 * v /\ 30 * v + 400 = 400 + 30 * v
  BY <1>1
<1> HIDE DEF n
<1>5. Listed(Opening(b, v), n, n + 30, Opened(b, v))
  <2>1. /\ n + 10 \in Nat /\ n + 20 \in Nat /\ n + 30 \in Nat
        /\ n + 6 \in Nat /\ n + 10 + 5 \in Nat /\ n + 20 + 7 \in Nat
        /\ n <= n + 10 /\ n + 10 <= n + 20 /\ n + 20 <= n + 30
        /\ n + 6 <= n + 10 /\ n + 10 + 5 <= n + 20 /\ n + 20 + 7 <= n + 30
    BY <1>3
  <2>2. /\ Listed(vin_probe(b, v), n, n + 6, Calling(b, "probe", v))
        /\ Listed(vin_pipeline_set_mbus_config(b, v), n + 10, n + 10 + 5, Calling(b, "config", v))
        /\ Listed(StreamOn(b, v), n + 20, n + 20 + 7, Calling(b, "on", v))
    BY <1>2 DEF n
  <2>3. Listed(vin_probe(b, v) \o vin_pipeline_set_mbus_config(b, v) \o StreamOn(b, v), n, n + 30,
               Calling(b, "probe", v) \cup Calling(b, "config", v) \cup Calling(b, "on", v))
    BY <1>3, <2>1, <2>2, ListedThree
  <2> QED
    BY <2>3 DEF Opening, Opened
<1>6. Listed(Closing(b, v), n + 200, n + 200 + 30, Closed(b, v))
  <2>1. /\ n + 200 \in Nat /\ n + 210 \in Nat /\ n + 220 \in Nat /\ n + 200 + 30 \in Nat
        /\ n + 200 + 1 \in Nat /\ n + 210 + 5 \in Nat /\ n + 220 + 6 \in Nat
        /\ n + 200 <= n + 210 /\ n + 210 <= n + 220 /\ n + 220 <= n + 200 + 30
        /\ n + 200 + 1 <= n + 210 /\ n + 210 + 5 <= n + 220 /\ n + 220 + 6 <= n + 200 + 30
    BY <1>3
  <2>2. /\ Listed(Do("wait", <<"isp">>, v), n + 200, n + 200 + 1, Calling(b, "wait", v))
        /\ Listed(StreamOff(b, v), n + 210, n + 210 + 5, Calling(b, "off", v))
        /\ Listed(vin_free(b, v), n + 220, n + 220 + 6, Calling(b, "remove", v))
    BY <1>2 DEF n
  <2>3. Listed(Do("wait", <<"isp">>, v) \o StreamOff(b, v) \o vin_free(b, v), n + 200, n + 200 + 30,
               Calling(b, "wait", v) \cup Calling(b, "off", v) \cup Calling(b, "remove", v))
    <3> DEFINE c0 == n + 200
               c1 == n + 210
               c2 == n + 220
               c3 == n + 200 + 30
               e0 == n + 200 + 1
               e1 == n + 210 + 5
               e2 == n + 220 + 6
    <3>1. /\ c0 \in Nat /\ c1 \in Nat /\ c2 \in Nat /\ c3 \in Nat
          /\ e0 \in Nat /\ e1 \in Nat /\ e2 \in Nat
          /\ c0 <= c1 /\ c1 <= c2 /\ c2 <= c3 /\ e0 <= c1 /\ e1 <= c2 /\ e2 <= c3
      BY <2>1
    <3>2. /\ Listed(Do("wait", <<"isp">>, v), c0, e0, Calling(b, "wait", v))
          /\ Listed(StreamOff(b, v), c1, e1, Calling(b, "off", v))
          /\ Listed(vin_free(b, v), c2, e2, Calling(b, "remove", v))
      BY <2>2
    <3> HIDE DEF c0, c1, c2, c3, e0, e1, e2
    <3>3. Listed(Do("wait", <<"isp">>, v) \o StreamOff(b, v) \o vin_free(b, v), c0, c3,
                 Calling(b, "wait", v) \cup Calling(b, "off", v) \cup Calling(b, "remove", v))
      BY <3>1, <3>2, ListedThree
    <3> QED
      BY <3>3 DEF c0, c3
  <2> QED
    BY <2>3 DEF Closing, Closed
<1>7. Listed(Do("reset", <<"isp">>, v), n + 400, n + 400 + 30, Calling(b, "reset", v))
  <2>1. /\ n + 400 \in Nat /\ n + 400 + 1 \in Nat /\ n + 400 + 30 \in Nat
        /\ n + 400 <= n + 400 /\ n + 400 + 1 <= n + 400 + 30
    BY <1>3
  <2>2. Listed(Do("reset", <<"isp">>, v), n + 400, n + 400 + 1, Calling(b, "reset", v))
    BY <1>2 DEF n
  <2> QED
    BY <2>1, <2>2, ListedWider
<1> QED
  BY <1>4, <1>5, <1>6, <1>7 DEF n

\* One video after the other.
LEMMA EachListed ==
  ASSUME NEW b \in Boards, NEW base \in Nat, NEW calls, NEW sets,
         \A v \in 0 .. 3 : Listed(calls[v], base + 30 * v, base + 30 * v + 30, sets[v])
  PROVE  Listed(Each(b, calls), base, base + 120, UNION {sets[v] : v \in b.used})
<1> DEFINE Used(v) == IF v \in b.used THEN calls[v] ELSE <<>>
           Set(v) == IF v \in b.used THEN sets[v] ELSE {}
<1>1. ASSUME NEW v \in 0 .. 3
      PROVE  Listed(Used(v), base + 30 * v, base + 30 * v + 30, Set(v))
  <2>1. base + 30 * v \in Nat /\ base + 30 * v + 30 \in Nat
    OBVIOUS
  <2>2. CASE v \in b.used
    BY <2>2
  <2>3. CASE v \notin b.used
    BY <2>1, <2>3, ListedNothing
  <2> QED
    BY <2>2, <2>3
<1>2. UNION {sets[v] : v \in b.used} = Set(0) \cup Set(1) \cup Set(2) \cup Set(3)
  <2>1. b.used \subseteq 0 .. 3
    BY BoardAssumption
  <2>2. \A v \in b.used : v = 0 \/ v = 1 \/ v = 2 \/ v = 3
    BY <2>1
  <2> QED
    BY <2>2
<1>3. Each(b, calls) = Used(0) \o Used(1) \o Used(2) \o Used(3)
  BY DEF Each
<1> HIDE DEF Used, Set
<1>4. /\ Listed(Used(0), base, base + 30, Set(0)) /\ Listed(Used(1), base + 30, base + 60, Set(1))
      /\ Listed(Used(2), base + 60, base + 90, Set(2)) /\ Listed(Used(3), base + 90, base + 120, Set(3))
  <2>1. Listed(Used(0), base + 30 * 0, base + 30 * 0 + 30, Set(0))
    BY <1>1
  <2>2. Listed(Used(1), base + 30 * 1, base + 30 * 1 + 30, Set(1))
    BY <1>1
  <2>3. Listed(Used(2), base + 30 * 2, base + 30 * 2 + 30, Set(2))
    BY <1>1
  <2>4. Listed(Used(3), base + 30 * 3, base + 30 * 3 + 30, Set(3))
    BY <1>1
  <2>5. /\ base + 30 * 0 = base /\ base + 30 * 0 + 30 = base + 30
        /\ base + 30 * 1 = base + 30 /\ base + 30 * 1 + 30 = base + 60
        /\ base + 30 * 2 = base + 60 /\ base + 30 * 2 + 30 = base + 90
        /\ base + 30 * 3 = base + 90 /\ base + 30 * 3 + 30 = base + 120
    OBVIOUS
  <2> QED
    BY <2>1, <2>2, <2>3, <2>4, <2>5
<1>5. /\ base + 30 \in Nat /\ base + 60 \in Nat /\ base + 90 \in Nat /\ base + 120 \in Nat
      /\ base <= base + 30 /\ base + 30 <= base + 60 /\ base <= base + 60 /\ base + 60 <= base + 90
      /\ base <= base + 90 /\ base + 90 <= base + 120
  OBVIOUS
<1>6. Listed(Used(0) \o Used(1), base, base + 60, Set(0) \cup Set(1))
  BY <1>4, <1>5, ListedConcat
<1>7. Listed(Used(0) \o Used(1) \o Used(2), base, base + 90, Set(0) \cup Set(1) \cup Set(2))
  BY <1>4, <1>5, <1>6, ListedConcat
<1>8. Listed(Used(0) \o Used(1) \o Used(2) \o Used(3), base, base + 120,
             Set(0) \cup Set(1) \cup Set(2) \cup Set(3))
  BY <1>4, <1>5, <1>7, ListedConcat
<1> QED
  BY <1>2, <1>3, <1>8

\* The calls csi_init makes on a board.
Planned(b) == {c \in Calls : c.video \in b.used /\ c.kind \in KindsFor(b, c.op)}

LEMMA InitCalls ==
  ASSUME NEW b \in Boards
  PROVE  Listed(csi_init(b), 0, 520, Planned(b))
<1> DEFINE f == [v \in 0 .. 3 |-> Opening(b, v)]
           g == [v \in 0 .. 3 |-> Closing(b, v)]
           h == [v \in 0 .. 3 |-> Do("reset", <<"isp">>, v)]
           F == [v \in 0 .. 3 |-> Opened(b, v)]
           G == [v \in 0 .. 3 |-> Closed(b, v)]
           H == [v \in 0 .. 3 |-> Calling(b, "reset", v)]
           X == UNION {F[v] : v \in b.used}
           Y == UNION {G[v] : v \in b.used}
           Z == UNION {H[v] : v \in b.used}
<1>1. /\ \A v \in 0 .. 3 : Listed(f[v], 0 + 30 * v, 0 + 30 * v + 30, F[v])
      /\ \A v \in 0 .. 3 : Listed(g[v], 200 + 30 * v, 200 + 30 * v + 30, G[v])
      /\ \A v \in 0 .. 3 : Listed(h[v], 400 + 30 * v, 400 + 30 * v + 30, H[v])
  <2>1. \A v \in 0 .. 3 : 0 + 30 * v = 30 * v
    OBVIOUS
  <2> QED
    BY <2>1, PartsListed
<1>2. csi_init(b) = Each(b, f) \o Each(b, g) \o Each(b, h)
  BY DEF csi_init
<1>3. Planned(b) = X \cup Y \cup Z
  <2>1. b.used \subseteq 0 .. 3
    BY BoardAssumption
  <2>2. ASSUME NEW op \in Ops  PROVE KindsFor(b, op) \subseteq Parts
    BY DEF KindsFor, TdmKinds, Parts, Kinds
  <2>3. ASSUME NEW c \in Planned(b)
        PROVE  \E v \in b.used : c \in Opened(b, v) \/ c \in Closed(b, v) \/ c \in Calling(b, "reset", v)
    <3>1. c \in Calls /\ c.video \in b.used /\ c.kind \in KindsFor(b, c.op)
      BY DEF Planned
    <3>2. c.op \in Ops /\ c = CallOf(c.op, c.kind, c.video)
      BY <3>1 DEF Calls, CallOf
    <3>3. c \in Calling(b, c.op, c.video)
      BY <3>1, <3>2 DEF Calling, Made
    <3> QED
      BY <3>1, <3>2, <3>3 DEF Ops, Opened, Closed
  <2>4. ASSUME NEW v \in b.used, NEW op \in Ops, NEW c \in Calling(b, op, v)
        PROVE  c \in Planned(b)
    <3>1. PICK k \in KindsFor(b, op) : c = CallOf(op, k, v)
      BY DEF Calling, Made
    <3>2. c.op = op /\ c.kind = k /\ c.video = v
      BY <3>1 DEF CallOf
    <3>3. c \in Calls
      BY <2>1, <2>2, <3>1 DEF Calls, CallOf
    <3> QED
      BY <3>1, <3>2, <3>3 DEF Planned
  <2>5. \A v \in b.used : Opened(b, v) \subseteq Planned(b) /\ Closed(b, v) \subseteq Planned(b)
                            /\ Calling(b, "reset", v) \subseteq Planned(b)
    BY <2>4 DEF Opened, Closed, Ops
  <2>6. \A v \in b.used : F[v] = Opened(b, v) /\ G[v] = Closed(b, v) /\ H[v] = Calling(b, "reset", v)
    BY <2>1
  <2> HIDE DEF F, G, H
  <2>7. ASSUME NEW c \in Planned(b)  PROVE c \in X \cup Y \cup Z
    <3>1. PICK v \in b.used : c \in F[v] \/ c \in G[v] \/ c \in H[v]
      BY <2>3, <2>6
    <3> QED
      BY <3>1
  <2>8. ASSUME NEW c \in X \cup Y \cup Z  PROVE c \in Planned(b)
    <3>1. PICK v \in b.used : c \in F[v] \/ c \in G[v] \/ c \in H[v]
      OBVIOUS
    <3>2. c \in Opened(b, v) \/ c \in Closed(b, v) \/ c \in Calling(b, "reset", v)
      BY <2>6, <3>1
    <3> QED
      BY <2>5, <3>2
  <2> HIDE DEF X, Y, Z
  <2> QED
    BY <2>7, <2>8
<1> HIDE DEF f, g, h, F, G, H
<1>4. Listed(Each(b, f), 0, 0 + 120, UNION {F[v] : v \in b.used})
  BY <1>1, EachListed
<1>5. Listed(Each(b, g), 200, 200 + 120, UNION {G[v] : v \in b.used})
  BY <1>1, EachListed
<1>6. Listed(Each(b, h), 400, 400 + 120, UNION {H[v] : v \in b.used})
  BY <1>1, EachListed
<1>7. /\ Listed(Each(b, f), 0, 120, X) /\ Listed(Each(b, g), 200, 320, Y) /\ Listed(Each(b, h), 400, 520, Z)
  BY <1>4, <1>5, <1>6
<1> HIDE DEF X, Y, Z
<1>8. Listed(Each(b, f) \o Each(b, g) \o Each(b, h), 0, 520, X \cup Y \cup Z)
  <2> DEFINE n1 == 120
             n2 == 200
             n3 == 320
             n4 == 400
             n5 == 520
             n0 == 0
  <2>1. /\ n0 \in Nat /\ n1 \in Nat /\ n2 \in Nat /\ n3 \in Nat /\ n4 \in Nat /\ n5 \in Nat
        /\ n0 <= n2 /\ n2 <= n4 /\ n4 <= n5 /\ n1 <= n2 /\ n3 <= n4 /\ n5 <= n5
    OBVIOUS
  <2>2. /\ Listed(Each(b, f), n0, n1, X) /\ Listed(Each(b, g), n2, n3, Y) /\ Listed(Each(b, h), n4, n5, Z)
    BY <1>7
  <2> HIDE DEF n0, n1, n2, n3, n4, n5
  <2>3. Listed(Each(b, f) \o Each(b, g) \o Each(b, h), n0, n5, X \cup Y \cup Z)
    BY <2>1, <2>2, ListedThree
  <2> QED
    BY <2>3 DEF n0, n5
<1> QED
  BY <1>2, <1>3, <1>8

-----------------------------------------------------------------------------
(* Where csi_init is in its calls.                                         *)

\* The place of a call in csi_init.
At(op, kind, v) == Base(op, v) + Place(op, kind)

\* The calls that come before others on any board.
LEMMA Order ==
  ASSUME NEW k \in Parts, NEW l \in Parts, NEW v \in 0 .. 3, NEW w \in 0 .. 3
  PROVE  /\ \A op \in Ops : At(op, k, v) \in Nat
         /\ \A op \in {"probe", "config", "on"}, later \in {"wait", "off", "remove", "reset"} :
              At(op, k, v) < At(later, l, w)
         /\ At("off", k, v) < At("remove", l, v)
         /\ v < w => At("off", k, v) < At("off", l, w) /\ At("remove", k, v) < At("off", l, w)
         /\ At("wait", "isp", 0) < At("off", k, v)
         /\ At("off", "vinc", v) < At("off", "vipp", v) /\ At("off", "vipp", v) < At("off", "isp", v)
         /\ At("off", "isp", v) < At("off", "tdm", v)
         /\ At("on", "tdm", v) < At("on", "isp", v) /\ At("on", "isp", v) < At("on", "vipp", v)
         /\ At("on", "vipp", v) < At("on", "vinc", v)
         /\ At("probe", k, 0) < At("on", l, v)
<1>1. \A op \in Ops : Place(op, k) \in 0 .. 6 /\ Place(op, l) \in 0 .. 6
  BY DEF Place, Ops
<1>2. \A op \in {"off", "remove"} : Place(op, k) \in 0 .. 5 /\ Place(op, l) \in 0 .. 5
  BY DEF Place
<1>2a. Place("off", k) \in 0 .. 4
  BY DEF Place
<1>3. /\ Base("probe", v) = 30 * v /\ Base("config", v) = 30 * v + 10
      /\ Base("on", v) = 30 * v + 20 /\ Base("wait", v) = 30 * v + 200
      /\ Base("off", v) = 30 * v + 210 /\ Base("remove", v) = 30 * v + 220
      /\ Base("reset", v) = 30 * v + 400
  BY Starts
<1>4. /\ Base("wait", w) = 30 * w + 200 /\ Base("off", w) = 30 * w + 210
      /\ Base("remove", w) = 30 * w + 220 /\ Base("reset", w) = 30 * w + 400
      /\ Base("probe", 0) = 0 /\ Base("wait", 0) = 200
  <2>1. Base("probe", 0) = 30 * 0 /\ Base("wait", 0) = 30 * 0 + 200
    BY Starts
  <2> QED
    BY <2>1, Starts
<1>5. \A op \in Ops : At(op, k, v) \in Nat
  BY <1>1, Starts DEF At
<1>6. ASSUME NEW op \in {"probe", "config", "on"}, NEW later \in {"wait", "off", "remove", "reset"}
      PROVE  At(op, k, v) < At(later, l, w)
  <2>1. Base(op, v) <= 110 /\ Base(op, v) \in Nat
    BY <1>3
  <2>2. Base(later, w) >= 200 /\ Base(later, w) \in Nat
    BY <1>4
  <2>3. Place(op, k) \in 0 .. 6 /\ Place(later, l) \in 0 .. 6
    BY <1>1 DEF Ops
  <2> QED
    BY <2>1, <2>2, <2>3 DEF At
<1>7. At("off", k, v) < At("remove", l, v)
  BY <1>2, <1>3 DEF At
<1>8. v < w => At("off", k, v) < At("off", l, w) /\ At("remove", k, v) < At("off", l, w)
  BY <1>2, <1>3, <1>4 DEF At
<1>9. At("wait", "isp", 0) < At("off", k, v)
  <2>1. Place("wait", "isp") = 0
    BY DEF Place
  <2> QED
    BY <2>1, <1>2, <1>3, <1>4 DEF At
<1>10. /\ At("off", "vinc", v) < At("off", "vipp", v) /\ At("off", "vipp", v) < At("off", "isp", v)
       /\ At("off", "isp", v) < At("off", "tdm", v)
  <2>1. /\ Place("off", "vinc") = 0 /\ Place("off", "vipp") = 1 /\ Place("off", "isp") = 2
        /\ Place("off", "tdm") = 3
    BY DEF Place
  <2> QED
    BY <2>1, <1>3 DEF At
<1>11. /\ At("on", "tdm", v) < At("on", "isp", v) /\ At("on", "isp", v) < At("on", "vipp", v)
       /\ At("on", "vipp", v) < At("on", "vinc", v)
  <2>1. /\ Place("on", "tdm") = 0 /\ Place("on", "isp") = 2 /\ Place("on", "vipp") = 3
        /\ Place("on", "vinc") = 4
    BY DEF Place
  <2> QED
    BY <2>1, <1>3 DEF At
<1>12. At("probe", k, 0) < At("on", l, v)
  BY <1>1, <1>3, <1>4 DEF At, Ops
<1> QED
  BY <1>5, <1>6, <1>7, <1>8, <1>9, <1>10, <1>11, <1>12

\* The videos there are.
LEMMA VideosFinite == Videos \subseteq 0 .. 3 /\ IsFiniteSet(Videos)
<1>1. Videos \subseteq 0 .. 3
  BY BoardAssumption DEF Videos
<1>2. IsFiniteSet(0 .. 3)
  <2>1. 0 \in Int /\ 3 \in Int
    OBVIOUS
  <2> QED
    BY ONLY <2>1, FS_Interval, Zenon
<1> QED
  BY <1>1, <1>2, FS_Subset

\* The call is made on the board.
Has(op, kind, v) == v \in board.used /\ kind \in KindsFor(board, op)

LEMMA DueIs ==
  ASSUME board \in Boards
  PROVE  /\ Due = Planned(board) /\ csi_init(board) \in Seq(Calls) /\ Rising(csi_init(board))
         /\ \A op \in Ops, k \in Parts, v \in 0 .. 3 : CallOf(op, k, v) \in Due <=> Has(op, k, v)
<1>1. Listed(csi_init(board), 0, 520, Planned(board))
  BY InitCalls
<1> DEFINE s == csi_init(board)
<1> HIDE DEF s
<1>2. Listed(s, 0, 520, Planned(board))
  BY <1>1 DEF s
<1>3. s \in Seq(Calls) /\ DOMAIN s = 1 .. Len(s)
  BY <1>2 DEF Listed
<1>4. Rising(s)
  BY <1>2, <1>3 DEF Listed, Rising
<1>5. CallsOf(s) = Planned(board)
  BY <1>2, <1>3 DEF Listed, CallsOf
<1>6. ASSUME NEW op \in Ops, NEW k \in Parts, NEW v \in 0 .. 3
      PROVE  CallOf(op, k, v) \in Planned(board) <=> Has(op, k, v)
  BY DEF CallOf, Planned, Calls, Has
<1> QED
  BY <1>3, <1>4, <1>5, <1>6 DEF s, Due

\* What is left of the calls is what comes last.
LEMMA LeftIs ==
  ASSUME board \in Boards, TodoInv,
         NEW op \in Ops, NEW k \in Parts, NEW v \in 0 .. 3, Ahead(op, k, v)
  PROVE  /\ Has(op, k, v)
         /\ \A later \in Ops, l \in Parts, w \in 0 .. 3 :
              Has(later, l, w) /\ At(op, k, v) < At(later, l, w) => Ahead(later, l, w)
<1>1. Has(op, k, v)
  BY DueIs DEF TodoInv, Ahead
<1>2. ASSUME NEW later \in Ops, NEW l \in Parts, NEW w \in 0 .. 3,
             Has(later, l, w), At(op, k, v) < At(later, l, w), ~ Ahead(later, l, w)
      PROVE  FALSE
  <2>1. CallOf(later, l, w) \in Due \ Left /\ CallOf(op, k, v) \in Left
    BY <1>2, DueIs DEF Ahead
  <2>2. Rank(CallOf(later, l, w)) < Rank(CallOf(op, k, v))
    BY <2>1 DEF TodoInv
  <2>3. At(later, l, w) < At(op, k, v)
    BY <2>2, RankOf DEF At
  <2>4. At(later, l, w) \in Nat /\ At(op, k, v) \in Nat
    BY Order
  <2> QED
    BY <1>2, <2>3, <2>4
<1> QED
  BY <1>1, <1>2

\* csi_init makes the first of the calls left.
LEMMA CallStep ==
  ASSUME board \in Boards, TodoInv,
         NEW op \in Ops, NEW kind \in Parts, NEW v \in 0 .. 3, Call(op, kind, v)
  PROVE  /\ TodoInv' /\ Due' = Due /\ board' = board
         /\ CallOf(op, kind, v) \in Left /\ Left' = Left \ {CallOf(op, kind, v)}
         /\ \A d \in Left : d = CallOf(op, kind, v) \/ Rank(CallOf(op, kind, v)) < Rank(d)
<1> DEFINE c == CallOf(op, kind, v)
<1>1. todo # <<>> /\ Head(todo) = c /\ todo' = Tail(todo) /\ board' = board
  BY DEF Call, CallOf
<1>2. todo \in Seq(Calls) /\ Len(todo) \in Nat /\ DOMAIN todo = 1 .. Len(todo)
  BY DEF TodoInv
<1>3. /\ Tail(todo) \in Seq(Calls) /\ Len(Tail(todo)) = Len(todo) - 1 /\ Len(todo) > 0
      /\ \A i \in 1 .. Len(todo) - 1 : Tail(todo)[i] = todo[i + 1]
  BY <1>1, <1>2
<1>4. todo' \in Seq(Calls) /\ DOMAIN todo' = 1 .. Len(todo) - 1
  BY <1>1, <1>2, <1>3
<1>5. \A i \in 1 .. Len(todo) - 1 : i + 1 \in 1 .. Len(todo) /\ todo'[i] = todo[i + 1]
  BY <1>1, <1>2, <1>3
<1>6. todo[1] = c /\ 1 \in 1 .. Len(todo)
  BY <1>1, <1>2, <1>3
<1>7. ASSUME NEW i \in 1 .. Len(todo), NEW j \in 1 .. Len(todo), i < j
      PROVE  Rank(todo[i]) < Rank(todo[j])
  BY <1>2, <1>7 DEF TodoInv, Rising
<1>8. \A i \in 1 .. Len(todo) : Rank(todo[i]) \in Nat
  BY <1>2, RankType
<1> HIDE DEF c
<1>9. ASSUME NEW i \in 1 .. Len(todo), i # 1  PROVE Rank(c) < Rank(todo[i]) /\ todo[i] # c
  <2>1. Rank(todo[1]) < Rank(todo[i])
    BY <1>2, <1>6, <1>7, <1>9
  <2> QED
    BY <2>1, <1>6, <1>8
<1>10. Left = {todo[i] : i \in 1 .. Len(todo)} /\ Left' = {todo'[i] : i \in 1 .. Len(todo) - 1}
  BY <1>2, <1>4 DEF Left, CallsOf
<1>11. c \in Left /\ \A d \in Left : d = c \/ Rank(c) < Rank(d)
  BY <1>6, <1>9, <1>10
<1>12. Left' = Left \ {c}
  <2>1. ASSUME NEW d \in Left'  PROVE d \in Left \ {c}
    <3>1. PICK i \in 1 .. Len(todo) - 1 : d = todo'[i]
      BY <1>10
    <3>2. i + 1 \in 1 .. Len(todo) /\ i + 1 # 1 /\ d = todo[i + 1]
      BY <1>5, <3>1
    <3> QED
      BY <1>9, <1>10, <3>2
  <2>2. ASSUME NEW d \in Left \ {c}  PROVE d \in Left'
    <3>1. PICK i \in 1 .. Len(todo) : d = todo[i]
      BY <1>10
    <3>2. i # 1
      BY <1>6, <3>1
    <3>3. i - 1 \in 1 .. Len(todo) - 1 /\ (i - 1) + 1 = i
      BY <1>2, <3>2
    <3>4. todo'[i - 1] = todo[i]
      BY <1>5, <3>3
    <3> QED
      BY <1>10, <3>1, <3>3, <3>4
  <2> QED
    BY <2>1, <2>2
<1>13. Due' = Due
  BY <1>1 DEF Due
<1>14. Rising(todo)'
  <2>1. ASSUME NEW i \in 1 .. Len(todo) - 1, NEW j \in 1 .. Len(todo) - 1, i < j
        PROVE  Rank(todo'[i]) < Rank(todo'[j])
    <3>1. i + 1 \in 1 .. Len(todo) /\ j + 1 \in 1 .. Len(todo) /\ i + 1 < j + 1
      BY <1>2, <2>1
    <3> QED
      BY <1>5, <1>7, <3>1
  <2> QED
    BY <1>4, <2>1 DEF Rising
<1>15. ASSUME NEW x \in Due \ Left', NEW d \in Left'  PROVE Rank(x) < Rank(d)
  <2>1. d \in Left /\ d # c
    BY <1>12
  <2>2. CASE x = c
    BY <1>11, <2>1, <2>2
  <2>3. CASE x # c
    BY <1>12, <2>1, <2>3 DEF TodoInv
  <2> QED
    BY <2>2, <2>3
<1> QED
  BY <1>1, <1>4, <1>11, <1>12, <1>13, <1>14, <1>15 DEF TodoInv, c

\* The same, of each call.
LEMMA CallAhead ==
  ASSUME board \in Boards, TodoInv,
         NEW op \in Ops, NEW kind \in Parts, NEW v \in 0 .. 3, Call(op, kind, v)
  PROVE  /\ board' = board /\ Has(op, kind, v)
         /\ Ahead(op, kind, v) /\ ~ Ahead(op, kind, v)'
         /\ \A o \in Ops, k \in Parts, w \in 0 .. 3 :
              o # op \/ k # kind \/ w # v => (Ahead(o, k, w)' <=> Ahead(o, k, w))
         /\ \A o \in Ops, k \in Parts, w \in 0 .. 3 :
              Has(o, k, w) /\ At(op, kind, v) < At(o, k, w) => Ahead(o, k, w)
         /\ \A o \in Ops, k \in Parts, w \in 0 .. 3 :
              At(o, k, w) < At(op, kind, v) => ~ Ahead(o, k, w)
<1>1. /\ board' = board
      /\ CallOf(op, kind, v) \in Left /\ Left' = Left \ {CallOf(op, kind, v)}
      /\ \A d \in Left : d = CallOf(op, kind, v) \/ Rank(CallOf(op, kind, v)) < Rank(d)
  BY CallStep
<1>2. Ahead(op, kind, v) /\ ~ Ahead(op, kind, v)'
  BY <1>1 DEF Ahead
<1>3. /\ Has(op, kind, v)
      /\ \A o \in Ops, k \in Parts, w \in 0 .. 3 :
           Has(o, k, w) /\ At(op, kind, v) < At(o, k, w) => Ahead(o, k, w)
  BY <1>2, LeftIs
<1>4. ASSUME NEW o \in Ops, NEW k \in Parts, NEW w \in 0 .. 3, o # op \/ k # kind \/ w # v
      PROVE  Ahead(o, k, w)' <=> Ahead(o, k, w)
  <2>1. CallOf(o, k, w) # CallOf(op, kind, v)
    BY <1>4 DEF CallOf
  <2> QED
    BY <1>1, <2>1 DEF Ahead
<1>5. ASSUME NEW o \in Ops, NEW k \in Parts, NEW w \in 0 .. 3,
             At(o, k, w) < At(op, kind, v), Ahead(o, k, w)
      PROVE  FALSE
  <2>1. \/ CallOf(o, k, w) = CallOf(op, kind, v)
        \/ Rank(CallOf(op, kind, v)) < Rank(CallOf(o, k, w))
    BY <1>1, <1>5 DEF Ahead
  <2>2. Rank(CallOf(op, kind, v)) = At(op, kind, v) /\ Rank(CallOf(o, k, w)) = At(o, k, w)
    BY RankOf DEF At
  <2>3. At(op, kind, v) \in Nat /\ At(o, k, w) \in Nat
    BY Order
  <2> QED
    BY <1>5, <2>1, <2>2, <2>3
<1> QED
  BY <1>1, <1>2, <1>3, <1>4, <1>5

-----------------------------------------------------------------------------
(* Types.                                                                  *)

\* The devices, by kind and video.
LEMMA DevType ==
  ASSUME NEW k \in Kinds, NEW v \in Videos
  PROVE  Dev(k, v) \in Devs /\ Dev(k, v)[1] = k /\ Dev(k, v) = <<k, Dev(k, v)[2]>>
         /\ Dev(k, v)[2] \in {v, Logic}
  BY DEF Devs, Dev

LEMMA DevsAre ==
  ASSUME NEW d \in Devs
  PROVE  d = <<d[1], d[2]>> /\ d[1] \in Kinds /\ d[1] \in Parts /\ d[2] \in Videos \cup {Logic}
         /\ d[2] \in 0 .. 3 /\ d = Dev(d[1], d[2])
<1>1. PICK k \in Kinds, v \in Videos : d = Dev(k, v)
  BY DEF Devs
<1>2. v \in 0 .. 3
  BY VideosFinite
<1> QED
  BY <1>1, <1>2 DEF Dev, Logic, Parts

\* The first video is always used.
LEMMA UsedAre ==
  ASSUME board \in Boards
  PROVE  /\ board.used \subseteq Videos /\ board.used \subseteq 0 .. 3 /\ Logic \in board.used
         /\ (board.online => board.used = {Logic}) /\ board.tdm \in BOOLEAN
  BY BoardAssumption DEF Videos, Logic

\* The calls left and due stay where no call is made.
LEMMA NoCall ==
  ASSUME UNCHANGED <<board, todo>>
  PROVE  /\ Left' = Left /\ Due' = Due /\ (TodoInv => TodoInv')
         /\ \A o \in Ops, k \in Parts, w \in 0 .. 3 : Ahead(o, k, w)' <=> Ahead(o, k, w)
  BY DEF Left, Due, TodoInv, Ahead, Rising

LEMMA ReadsType ==
  ASSUME TypeOK, NEW op \in Ops \cup {"isr"}, NEW v \in Videos, NEW devs \in SUBSET Devs,
         Reads(op, v, devs)
  PROVE  /\ stale' \subseteq [op : Ops \cup {"isr"}, video : Videos, dev : Devs]
         /\ stale \subseteq stale'
<1>1. stale \subseteq [op : Ops \cup {"isr"}, video : Videos, dev : Devs]
  BY DEF TypeOK
<1> QED
  BY <1>1 DEF Reads

\* Every step but that of an interrupt or a work queue is a call.
LEMMA StepIs ==
  ASSUME Next
  PROVE  \/ \E k \in Kinds, v \in Videos :
              Probe(k, v) \/ Release(k, v) \/ Configure(k, v) \/ Off(k, v)
         \/ \E k \in Parts, v \in Videos : On(k, v)
         \/ \E v \in Videos : ReleaseBeyond(v) \/ Wait(v) \/ Reset(v)
         \/ VinIsr
         \/ \E v \in Videos : Frame(v) \/ WorkBegin(v) \/ WorkEnd(v)
  BY DEF Next, Main, Parts

LEMMA TypeStep ==
  ASSUME TypeOK, Next
  PROVE  TypeOK'
<1> USE DEF TypeOK
<1>0. /\ Logic \in Videos
      /\ \A k \in Kinds, v \in Videos : Dev(k, v) \in Devs /\ Dev(k, Logic) \in Devs
  <2>1. Logic \in Videos
    BY UsedAre
  <2> QED
    BY <2>1, DevType
<1>1. \A k \in Parts, v \in Videos : <<k, v>> \in Channels
  BY DEF Parts, Channels
<1>2. \A k \in Kinds : k \in Parts
  BY DEF Parts
<1>3. ASSUME NEW k \in Kinds, NEW v \in Videos, Probe(k, v)  PROVE TypeOK'
  <2>1. stale' \subseteq [op : Ops \cup {"isr"}, video : Videos, dev : Devs]
    <3>1. Reads("probe", v, IF k \in {"vipp", "vinc"} THEN {Dev(k, Logic)} ELSE {})
      BY <1>3 DEF Probe
    <3>2. "probe" \in Ops \cup {"isr"} /\ (IF k \in {"vipp", "vinc"} THEN {Dev(k, Logic)} ELSE {}) \in SUBSET Devs
      BY <1>0 DEF Ops
    <3> QED
      BY <3>1, <3>2, ReadsType
  <2>2. board' = board /\ path' = path /\ tops' = tops /\ dmaStatus' = dmaStatus
    BY <1>3 DEF Probe, Call, hardware
  <2>3. CASE flag[Dev(k, v)]
    BY <1>3, <2>1, <2>2, <2>3 DEF Probe
  <2>4. CASE ~ flag[Dev(k, v)]
    <3> DEFINE d == Dev(k, v)
    <3>1. /\ flag' = [flag EXCEPT ![d] = TRUE] /\ mem' = [mem EXCEPT ![d] = "live"]
          /\ count' = [count EXCEPT ![<<k, v>>] = 0]
          /\ logicCount' = IF k \in Shared /\ v = Logic
                             THEN [logicCount EXCEPT ![k] = 0] ELSE logicCount
          /\ handlers' = IF HasHandler(k, v) THEN handlers \cup {d} ELSE handlers
      BY <1>3, <2>4 DEF Probe
    <3>2. d \in Devs
      BY <1>0
    <3> HIDE DEF d
    <3>3. mem' \in [Devs -> {"none", "live", "freed"}]
      BY <3>1, <3>2
    <3>3b. count' \in [Channels -> Int]
      <4>1. count' = [count EXCEPT ![<<k, v>>] = 0] /\ count \in [Channels -> Int] /\ 0 \in Int
        BY <3>1
      <4> QED
        BY ONLY <4>1
    <3>3a. flag' \in [Devs -> BOOLEAN]
      BY <3>1, <3>2, Zenon
    <3>4. logicCount' \in [Shared -> Int]
      BY <3>1
    <3>5. handlers' \subseteq Devs
      BY <3>1, <3>2
    <3> QED
      BY <2>1, <2>2, <3>3, <3>3a, <3>3b, <3>4, <3>5
  <2> QED
    BY <2>3, <2>4
<1>4. ASSUME NEW k \in Kinds, NEW v \in Videos, Release(k, v)  PROVE TypeOK'
  <2> DEFINE d == Dev(k, v)
  <2>1. d \in Devs
    BY <1>0
  <2>2. stale' \subseteq [op : Ops \cup {"isr"}, video : Videos, dev : Devs]
    <3>1. Reads("remove", v, {d}) /\ "remove" \in Ops \cup {"isr"} /\ {d} \in SUBSET Devs
      BY <1>4, <2>1 DEF Release, Ops
    <3> QED
      BY <3>1, ReadsType
  <2>3. /\ board' = board /\ path' = path /\ tops' = tops /\ dmaStatus' = dmaStatus
        /\ flag' = [flag EXCEPT ![d] = FALSE]
        /\ mem' = IF k = "isp" THEN mem ELSE [mem EXCEPT ![d] = "freed"]
        /\ handlers' \subseteq handlers /\ count' = count /\ logicCount' = logicCount
    BY <1>4 DEF Release, Call, hardware, dma, HandlersLeft
  <2> HIDE DEF d
  <2> QED
    BY <2>1, <2>2, <2>3
<1>5. ASSUME NEW k \in Kinds, NEW v \in Videos, Configure(k, v)  PROVE TypeOK'
  <2>1. stale' \subseteq [op : Ops \cup {"isr"}, video : Videos, dev : Devs]
    <3>1. Reads("config", v, {Dev(k, v)}) /\ "config" \in Ops \cup {"isr"} /\ {Dev(k, v)} \in SUBSET Devs
      BY <1>0, <1>5 DEF Configure, Ops
    <3> QED
      BY <3>1, ReadsType
  <2> QED
    BY <1>5, <2>1 DEF Configure, Call, hardware, dma
<1>6. ASSUME NEW k \in Kinds, NEW v \in Videos, Off(k, v)  PROVE TypeOK'
  <2>1. stale' \subseteq [op : Ops \cup {"isr"}, video : Videos, dev : Devs]
    <3> DEFINE devs == {Dev(k, v)} \cup IF k \in Shared THEN {Dev(k, Logic)} ELSE {}
    <3>1. Reads("off", v, devs) /\ "off" \in Ops \cup {"isr"} /\ devs \in SUBSET Devs
      BY <1>0, <1>6 DEF Off, Ops
    <3> HIDE DEF devs
    <3> QED
      BY <3>1, ReadsType
  <2>2. logicCount' \in [Shared -> Int] /\ tops' \subseteq Shared
    BY <1>6 DEF Off, TopOff
  <2>3. /\ board' = board /\ mem' = mem /\ flag' = flag /\ handlers' = handlers
        /\ dmaStatus' \subseteq dmaStatus /\ path' \subseteq path
        /\ count' = [count EXCEPT ![<<k, v>>] = @ - 1]
    BY <1>6 DEF Off, Call
  <2> QED
    BY <1>1, <1>2, <2>1, <2>2, <2>3
<1>7. ASSUME NEW k \in Parts, NEW v \in Videos, On(k, v)  PROVE TypeOK'
  <2>1. stale' \subseteq [op : Ops \cup {"isr"}, video : Videos, dev : Devs]
    <3> DEFINE devs == IF k = "sensor" THEN {}
                       ELSE {Dev(k, v)} \cup IF k \in Shared THEN {Dev(k, Logic)} ELSE {}
    <3>1. k = "sensor" \/ k \in Kinds
      BY DEF Parts
    <3>2. Reads("on", v, devs) /\ "on" \in Ops \cup {"isr"} /\ devs \in SUBSET Devs
      BY <1>0, <1>7, <3>1 DEF On, Ops
    <3> HIDE DEF devs
    <3> QED
      BY <3>2, ReadsType
  <2>2. logicCount' \in [Shared -> Int] /\ tops' \subseteq Shared
    BY <1>7 DEF On
  <2>3. /\ board' = board /\ mem' = mem /\ flag' = flag /\ handlers' = handlers
        /\ dmaStatus' \subseteq dmaStatus /\ path' = path \cup {<<k, v>>}
        /\ count' = [count EXCEPT ![<<k, v>>] = @ + 1]
    BY <1>7 DEF On, Call
  <2> QED
    BY <1>1, <2>1, <2>2, <2>3
<1>8. ASSUME NEW v \in Videos, ReleaseBeyond(v)  PROVE TypeOK'
  BY <1>8 DEF ReleaseBeyond, Call, hardware, dma
<1>9. ASSUME NEW v \in Videos, Wait(v)  PROVE TypeOK'
  BY <1>9 DEF Wait, Call, memory, hardware, dma
<1>10. ASSUME NEW v \in Videos, Reset(v)  PROVE TypeOK'
  <2>1. stale' \subseteq [op : Ops \cup {"isr"}, video : Videos, dev : Devs]
    <3>1. Reads("reset", v, {Dev("isp", v)}) /\ "reset" \in Ops \cup {"isr"} /\ {Dev("isp", v)} \in SUBSET Devs
      BY <1>0, <1>10 DEF Reset, Ops, Kinds
    <3> QED
      BY <3>1, ReadsType
  <2> QED
    BY <1>10, <2>1 DEF Reset, Call, hardware, dma
<1>11. ASSUME VinIsr  PROVE TypeOK'
  <2>1. stale' \subseteq [op : Ops \cup {"isr"}, video : Videos, dev : Devs] /\ dmaStatus' \subseteq dmaStatus
    <3>1. CASE Looked \in dmaStatus
      <4>1. /\ Reads("isr", Looked, {Dev("vinc", Looked)}) /\ "isr" \in Ops \cup {"isr"}
            /\ Looked \in Videos /\ {Dev("vinc", Looked)} \in SUBSET Devs
            /\ dmaStatus' = dmaStatus \ {Looked}
        BY <1>0, <1>11, <3>1 DEF VinIsr, Kinds
      <4> QED
        BY <4>1, ReadsType
    <3>2. CASE Looked \notin dmaStatus
      BY <1>11, <3>2 DEF VinIsr
    <3> QED
      BY <3>1, <3>2
  <2> QED
    BY <1>11, <2>1 DEF VinIsr, hardware
<1>12. ASSUME NEW v \in Videos, Frame(v)  PROVE TypeOK'
  BY <1>12 DEF Frame, memory, hardware
<1>13. ASSUME NEW v \in Videos, WorkBegin(v) \/ WorkEnd(v)  PROVE TypeOK'
  BY <1>13 DEF WorkBegin, WorkEnd, memory, hardware, dma
<1> QED
  BY <1>3, <1>4, <1>5, <1>6, <1>7, <1>8, <1>9, <1>10, <1>11, <1>12, <1>13, StepIs

-----------------------------------------------------------------------------
(* Devices and who reads them.                                             *)

LEMMA DeviceKept ==
  ASSUME DeviceInv, UNCHANGED <<board, mem, handlers>>,
         \A d \in Devs : Ahead("remove", d[1], d[2])' <=> Ahead("remove", d[1], d[2])
  PROVE  DeviceInv'
<1>1. Due' = Due
  BY DEF Due
<1> QED
  BY <1>1 DEF DeviceInv, Ahead

\* A freed device is not an ISP, and its remove has been called.
LEMMA FreedIs ==
  ASSUME TypeOK, DeviceInv, NEW d \in Devs, mem[d] = "freed"
  PROVE  d[1] # "isp" /\ Has("remove", d[1], d[2]) /\ ~ Ahead("remove", d[1], d[2])
<1>1. CallOf("remove", d[1], d[2]) \in Due \ Left /\ d[1] # "isp"
  BY DEF DeviceInv
<1>2. "remove" \in Ops /\ d[1] \in Parts /\ d[2] \in 0 .. 3
  BY DevsAre DEF Ops
<1> QED
  BY <1>1, <1>2, DueIs DEF TypeOK, Ahead

\* None is freed while videos are started.
LEMMA NoneFreed ==
  ASSUME TypeOK, TodoInv, DeviceInv, NEW op \in {"probe", "config", "on"},
         NEW k \in Parts, NEW v \in Videos, Call(op, k, v), NEW d \in Devs
  PROVE  mem[d] # "freed"
<1> SUFFICES ASSUME mem[d] = "freed"  PROVE FALSE
  OBVIOUS
<1>1. Has("remove", d[1], d[2]) /\ ~ Ahead("remove", d[1], d[2])
  BY FreedIs
<1>2. d[1] \in Parts /\ d[2] \in 0 .. 3 /\ v \in 0 .. 3 /\ op \in Ops /\ "remove" \in Ops
  BY DevsAre, VideosFinite DEF Ops
<1>3. At(op, k, v) < At("remove", d[1], d[2])
  BY <1>2, Order
<1> QED
  BY <1>1, <1>2, <1>3, CallAhead DEF TypeOK

\* A device that is freed when it is switched off is another video's.
LEMMA FreedAtOff ==
  ASSUME TypeOK, TodoInv, DeviceInv, NEW k \in Kinds, NEW v \in Videos, Call("off", k, v),
         NEW w \in {v, Logic}, mem[Dev(k, w)] = "freed"
  PROVE  Dev(k, w) = Dev(k, Logic) /\ v # Logic /\ (w = v => k = "tdm") /\ k # "isp"
<1> DEFINE x == Dev(k, w)[2]
<1>1. w \in Videos /\ k \in Parts /\ "off" \in Ops /\ "remove" \in Ops
  BY UsedAre DEF TypeOK, Ops, Parts
<1>2. Dev(k, w) \in Devs /\ Dev(k, w)[1] = k /\ Dev(k, w) = <<k, x>> /\ x \in {v, Logic}
  BY <1>1, DevType
<1>3. x \in 0 .. 3 /\ v \in 0 .. 3
  BY <1>2, VideosFinite DEF Logic
<1>4. Has("remove", k, x) /\ ~ Ahead("remove", k, x) /\ k # "isp"
  BY <1>2, FreedIs
<1>5. ~ (At("off", k, v) < At("remove", k, x))
  BY <1>1, <1>3, <1>4, CallAhead DEF TypeOK
<1>6. x # v
  BY <1>1, <1>3, <1>5, Order
<1>7. x = Logic /\ v # Logic
  BY <1>2, <1>6
<1>8. Dev(k, Logic) = <<k, Logic>>
  BY DEF Dev
<1>9. w = v => k = "tdm"
  BY <1>6 DEF Dev
<1> QED
  BY <1>2, <1>4, <1>7, <1>8, <1>9

LEMMA DeviceStep ==
  ASSUME TypeOK, TodoInv, DeviceInv, Next
  PROVE  DeviceInv'
<1>0. Videos \subseteq 0 .. 3 /\ board \in Boards
  BY VideosFinite DEF TypeOK
<1>1. \A d \in Devs : d[1] \in Parts /\ d[2] \in 0 .. 3 /\ d = <<d[1], d[2]>>
  BY DevsAre
<1>2. \A k \in Kinds : k \in Parts
  BY DEF Parts
<1>3. ASSUME NEW op \in Ops \ {"remove"}, NEW k \in Parts, NEW v \in Videos, Call(op, k, v)
      PROVE  /\ board' = board
             /\ \A d \in Devs : Ahead("remove", d[1], d[2])' <=> Ahead("remove", d[1], d[2])
  BY <1>0, <1>1, <1>3, CallAhead DEF Ops
<1>4. ASSUME NEW op \in Ops \ {"remove"}, NEW k \in Parts, NEW v \in Videos, Call(op, k, v),
             UNCHANGED <<mem, handlers>>
      PROVE  DeviceInv'
  BY <1>3, <1>4, DeviceKept
<1>5. ASSUME UNCHANGED <<board, todo, mem, handlers>>  PROVE DeviceInv'
  BY <1>1, <1>5, NoCall, DeviceKept DEF Ops
<1>6. ASSUME NEW k \in Kinds, NEW v \in Videos, Probe(k, v)  PROVE DeviceInv'
  <2> DEFINE p == Dev(k, v)
  <2>1. Call("probe", k, v) /\ "probe" \in Ops \ {"remove"} /\ "remove" \in Ops /\ k \in Parts /\ v \in 0 .. 3
    BY <1>0, <1>2, <1>6 DEF Probe, Ops
  <2>2. CASE flag[p]
    BY <1>4, <1>6, <2>1, <2>2 DEF Probe
  <2>3. CASE ~ flag[p]
    <3>1. /\ mem' = [mem EXCEPT ![p] = "live"]
          /\ handlers' = IF HasHandler(k, v) THEN handlers \cup {p} ELSE handlers
      BY <1>6, <2>3 DEF Probe
    <3>2. p \in Devs /\ p[1] = k /\ p[2] \in {v, Logic} /\ p = <<k, p[2]>>
      BY DevType
    <3>3. Ahead("remove", k, p[2])
      <4>1. Has("probe", k, v)
        BY <1>0, <2>1, CallAhead
      <4>2. Has("remove", k, p[2])
        BY <1>0, <3>2, <4>1, UsedAre DEF Has, KindsFor
      <4>3. p[2] \in 0 .. 3
        BY <1>1, <3>2
      <4>4. At("probe", k, v) < At("remove", k, p[2])
        BY <2>1, <4>3, Order
      <4> QED
        BY <1>0, <2>1, <4>2, <4>3, <4>4, CallAhead
    <3>4. Ahead("remove", k, p[2])'
      BY <1>3, <2>1, <3>2, <3>3
    <3>5. HasHandler(k, v) => HasHandler(k, p[2])
      BY DEF HasHandler, Dev
    <3> HIDE DEF p
    <3>6. Due' = Due
      BY <1>3, <2>1 DEF Due
    <3>7. ASSUME NEW d \in Devs
          PROVE  /\ mem'[d] = "live" => d[1] = "isp" \/ Ahead("remove", d[1], d[2])'
                 /\ mem'[d] = "freed" => d[1] # "isp" /\ CallOf("remove", d[1], d[2]) \in Due \ Left'
                 /\ d \in handlers' => mem'[d] = "live" /\ HasHandler(d[1], d[2]) /\ Ahead("remove", d[1], d[2])'
      <4>1. Ahead("remove", d[1], d[2])' <=> Ahead("remove", d[1], d[2])
        BY <1>3, <2>1
      <4>2. CASE d = p
        <5>1. mem'[d] = "live"
          BY <3>1, <3>2, <4>2 DEF TypeOK
        <5>2. d \in handlers' => HasHandler(d[1], d[2])
          BY <3>1, <3>2, <3>5, <4>2 DEF DeviceInv
        <5> QED
          BY <3>2, <3>4, <4>2, <5>1, <5>2
      <4>3. CASE d # p
        <5>1. mem'[d] = mem[d] /\ (d \in handlers' <=> d \in handlers)
          BY <3>1, <4>3 DEF TypeOK
        <5> QED
          BY <4>1, <5>1 DEF DeviceInv, Ahead
      <4> QED
        BY <4>2, <4>3
    <3> QED
      BY <3>6, <3>7 DEF DeviceInv, Ahead
  <2> QED
    BY <2>2, <2>3
<1>7. ASSUME NEW k \in Kinds, NEW v \in Videos, Release(k, v)  PROVE DeviceInv'
  <2> DEFINE p == Dev(k, v)
  <2>1. Call("remove", k, v) /\ "remove" \in Ops /\ k \in Parts /\ v \in 0 .. 3
    BY <1>0, <1>2, <1>7 DEF Release, Ops
  <2>2. p \in Devs /\ p = <<k, v>> /\ p[1] = k /\ p[2] = v
    <3>1. k = "tdm" => v = Logic
      BY <1>7 DEF Release
    <3> QED
      BY <3>1, DevType DEF Dev
  <2>3. /\ mem' = IF k = "isp" THEN mem ELSE [mem EXCEPT ![p] = "freed"]
        /\ handlers' = IF HasHandler(k, v) THEN handlers \ {p} ELSE handlers
    BY <1>7 DEF Release, HandlersLeft
  <2>4. Has("remove", k, v) /\ ~ Ahead("remove", k, v)' /\ board' = board
    BY <1>0, <2>1, CallAhead
  <2>5. CallOf("remove", k, v) \in Due \ Left' /\ Due' = Due
    BY <1>0, <2>1, <2>4, DueIs DEF Ahead, Due
  <2> HIDE DEF p
  <2>6. ASSUME NEW d \in Devs
        PROVE  /\ mem'[d] = "live" => d[1] = "isp" \/ Ahead("remove", d[1], d[2])'
               /\ mem'[d] = "freed" => d[1] # "isp" /\ CallOf("remove", d[1], d[2]) \in Due \ Left'
               /\ d \in handlers' => mem'[d] = "live" /\ HasHandler(d[1], d[2]) /\ Ahead("remove", d[1], d[2])'
    <3>1. CASE d = p
      <4>1. d \notin handlers'
        BY <2>2, <2>3, <3>1 DEF DeviceInv
      <4>2. k # "isp" => mem'[d] = "freed"
        BY <2>2, <2>3, <3>1 DEF TypeOK
      <4>3. k = "isp" => mem'[d] # "freed"
        BY <2>2, <2>3, <3>1 DEF DeviceInv
      <4> QED
        BY <2>2, <2>5, <3>1, <4>1, <4>2, <4>3
    <3>2. CASE d # p
      <4>1. mem'[d] = mem[d] /\ (d \in handlers' <=> d \in handlers)
        BY <2>3, <3>2 DEF TypeOK
      <4>2. d[1] # k \/ d[2] # v
        BY <1>1, <2>2, <3>2
      <4>3. Ahead("remove", d[1], d[2])' <=> Ahead("remove", d[1], d[2])
        BY <1>0, <1>1, <2>1, <4>2, CallAhead
      <4> QED
        BY <4>1, <4>3 DEF DeviceInv, Ahead
    <3> QED
      BY <3>1, <3>2
  <2> QED
    BY <2>5, <2>6 DEF DeviceInv, Ahead
<1>8. ASSUME NEW v \in Videos, ReleaseBeyond(v)  PROVE DeviceInv'
  <2>1. Call("remove", "tdm", v) /\ v # Logic /\ UNCHANGED <<mem, handlers>>
    BY <1>8 DEF ReleaseBeyond
  <2>2. ASSUME NEW d \in Devs  PROVE d[1] # "tdm" \/ d[2] # v
    BY <2>1, DevsAre DEF Dev
  <2>3. "remove" \in Ops /\ "tdm" \in Parts
    BY DEF Ops, Parts, Kinds
  <2>4. board' = board /\ \A d \in Devs : Ahead("remove", d[1], d[2])' <=> Ahead("remove", d[1], d[2])
    BY <1>0, <1>1, <2>1, <2>2, <2>3, CallAhead
  <2> QED
    BY <2>1, <2>4, DeviceKept
<1>9. ASSUME NEW k \in Kinds, NEW v \in Videos, Configure(k, v) \/ Off(k, v)  PROVE DeviceInv'
  BY <1>2, <1>4, <1>9 DEF Configure, Off, Ops
<1>10. ASSUME NEW k \in Parts, NEW v \in Videos, On(k, v)  PROVE DeviceInv'
  BY <1>4, <1>10 DEF On, Ops
<1>11. ASSUME NEW v \in Videos, Wait(v) \/ Reset(v)  PROVE DeviceInv'
  <2>1. "isp" \in Parts
    BY DEF Parts, Kinds
  <2> QED
    BY <1>4, <1>11, <2>1 DEF Wait, Reset, Ops, memory
<1>12. ASSUME VinIsr  PROVE DeviceInv'
  BY <1>5, <1>12 DEF VinIsr
<1>13. ASSUME NEW v \in Videos, Frame(v) \/ WorkBegin(v) \/ WorkEnd(v)  PROVE DeviceInv'
  BY <1>5, <1>13 DEF Frame, WorkBegin, WorkEnd, memory
<1> QED
  BY <1>6, <1>7, <1>8, <1>9, <1>10, <1>11, <1>12, <1>13, StepIs

\* A call that reads no freed device leaves no mark.
LEMMA ReadsLive ==
  ASSUME NEW op, NEW v, NEW devs, Reads(op, v, devs), \A d \in devs : mem[d] # "freed"
  PROVE  stale' = stale
  BY DEF Reads

\* Reads only adds.
LEMMA ReadsAdds ==
  ASSUME NEW op, NEW v, NEW devs, Reads(op, v, devs)
  PROVE  /\ stale \subseteq stale'
         /\ \A r \in stale' \ stale : \E d \in devs : mem[d] = "freed" /\ r = [op |-> op, video |-> v, dev |-> d]
  BY DEF Reads

\* The DMA of a channel on the path has not been freed.
LEMMA StatusLive ==
  ASSUME TypeOK, TodoInv, DeviceInv, PathInv, NEW v \in dmaStatus
  PROVE  Dev("vinc", v) \in Devs /\ mem[Dev("vinc", v)] # "freed"
<1>1. v \in Videos /\ v \in 0 .. 3 /\ board \in Boards
  BY VideosFinite DEF TypeOK
<1>2. Dev("vinc", v) \in Devs /\ Dev("vinc", v) = <<"vinc", v>>
  BY <1>1, DevType DEF Dev, Kinds
<1>3. <<"vinc", v>> \in path
  BY DEF PathInv
<1>4. Ahead("off", "vinc", v)
  BY <1>3 DEF PathInv
<1>5. "off" \in Ops /\ "remove" \in Ops /\ "vinc" \in Parts
  BY DEF Ops, Parts, Kinds
<1>6. Has("off", "vinc", v)
  BY <1>1, <1>4, <1>5, LeftIs
<1>7. Has("remove", "vinc", v)
  BY <1>6 DEF Has, KindsFor
<1>8. At("off", "vinc", v) < At("remove", "vinc", v)
  BY <1>1, <1>5, Order
<1>9. Ahead("remove", "vinc", v)
  BY <1>1, <1>4, <1>5, <1>7, <1>8, LeftIs
<1> QED
  BY <1>2, <1>9, FreedIs

LEMMA StaleStep ==
  ASSUME TypeOK, TodoInv, DeviceInv, PathInv, StaleInv, Next
  PROVE  StaleInv' /\ stale \subseteq stale'
<1>0. Logic \in Videos /\ board \in Boards
  BY UsedAre DEF TypeOK
<1>1. \A k \in Kinds, v \in Videos : Dev(k, v) \in Devs /\ Dev(k, Logic) \in Devs /\ k \in Parts
  BY <1>0, DevType DEF Parts
<1>2. ASSUME stale' = stale  PROVE StaleInv' /\ stale \subseteq stale'
  BY <1>2 DEF StaleInv
<1>3. ASSUME NEW k \in Kinds, NEW v \in Videos, Probe(k, v)  PROVE stale' = stale
  <2>1. Call("probe", k, v) /\ Reads("probe", v, IF k \in {"vipp", "vinc"} THEN {Dev(k, Logic)} ELSE {})
    BY <1>3 DEF Probe
  <2>2. mem[Dev(k, Logic)] # "freed"
    BY <1>1, <2>1, NoneFreed
  <2> QED
    BY <2>1, <2>2, ReadsLive
<1>4. ASSUME NEW k \in Kinds, NEW v \in Videos, Release(k, v)  PROVE stale' = stale
  <2>1. Call("remove", k, v) /\ Reads("remove", v, {Dev(k, v)})
    BY <1>4 DEF Release
  <2>2. Dev(k, v) = <<k, v>>
    BY <1>4 DEF Release, Dev
  <2>3. "remove" \in Ops /\ v \in 0 .. 3
    BY VideosFinite DEF Ops
  <2>4. Ahead("remove", k, v)
    BY <1>0, <1>1, <2>1, <2>3, CallAhead
  <2>5. mem[Dev(k, v)] # "freed"
    BY <1>1, <2>2, <2>4, FreedIs
  <2> QED
    BY <2>1, <2>5, ReadsLive
<1>5. ASSUME NEW k \in Kinds, NEW v \in Videos, Configure(k, v)  PROVE stale' = stale
  <2>1. Call("config", k, v) /\ Reads("config", v, {Dev(k, v)})
    BY <1>5 DEF Configure
  <2>2. mem[Dev(k, v)] # "freed"
    BY <1>1, <2>1, NoneFreed
  <2> QED
    BY <2>1, <2>2, ReadsLive
<1>6. ASSUME NEW k \in Kinds, NEW v \in Videos, Off(k, v)  PROVE StaleInv' /\ stale \subseteq stale'
  <2> DEFINE devs == {Dev(k, v)} \cup IF k \in Shared THEN {Dev(k, Logic)} ELSE {}
  <2>1. Call("off", k, v) /\ Reads("off", v, devs)
    BY <1>6 DEF Off
  <2>2. ASSUME NEW d \in devs, mem[d] = "freed"
        PROVE  d = Dev(d[1], Logic) /\ v # Logic
    <3>1. PICK w \in {v, Logic} : d = Dev(k, w)
      OBVIOUS
    <3>2. Dev(k, w) = Dev(k, Logic) /\ v # Logic
      BY <2>1, <2>2, <3>1, FreedAtOff
    <3>3. Dev(k, Logic)[1] = k
      BY DEF Dev
    <3> QED
      BY <3>1, <3>2, <3>3
  <2> HIDE DEF devs
  <2>3. ASSUME NEW r \in stale'
        PROVE  r.op = "off" /\ r.dev = Dev(r.dev[1], Logic) /\ r.video # Logic
    <3>1. CASE r \in stale
      BY <3>1 DEF StaleInv
    <3>2. CASE r \notin stale
      <4>1. PICK d \in devs : mem[d] = "freed" /\ r = [op |-> "off", video |-> v, dev |-> d]
        BY <2>1, <3>2, ReadsAdds
      <4>2. r.op = "off" /\ r.video = v /\ r.dev = d
        BY <4>1
      <4> QED
        BY <2>2, <4>1, <4>2
    <3> QED
      BY <3>1, <3>2
  <2> QED
    BY <2>1, <2>3, ReadsAdds DEF StaleInv
<1>7. ASSUME NEW k \in Parts, NEW v \in Videos, On(k, v)  PROVE stale' = stale
  <2> DEFINE devs == IF k = "sensor" THEN {}
                     ELSE {Dev(k, v)} \cup IF k \in Shared THEN {Dev(k, Logic)} ELSE {}
  <2>1. Call("on", k, v) /\ Reads("on", v, devs)
    BY <1>7 DEF On
  <2>2. ASSUME NEW d \in devs  PROVE d \in Devs
    <3>1. k \in Kinds
      BY DEF Parts
    <3> QED
      BY <1>1, <3>1
  <2> HIDE DEF devs
  <2>3. \A d \in devs : mem[d] # "freed"
    BY <2>1, <2>2, NoneFreed
  <2> QED
    BY <2>1, <2>3, ReadsLive
<1>8. ASSUME NEW v \in Videos, ReleaseBeyond(v)  PROVE stale' = stale
  BY <1>8 DEF ReleaseBeyond
<1>9. ASSUME NEW v \in Videos, Wait(v)  PROVE stale' = stale
  BY <1>9 DEF Wait, memory
<1>10. ASSUME NEW v \in Videos, Reset(v)  PROVE stale' = stale
  <2>1. Reads("reset", v, {Dev("isp", v)})
    BY <1>10 DEF Reset
  <2>2. Dev("isp", v) \in Devs /\ Dev("isp", v)[1] = "isp"
    BY DevType DEF Kinds
  <2>3. mem[Dev("isp", v)] # "freed"
    BY <2>2, FreedIs
  <2> QED
    BY <2>1, <2>3, ReadsLive
<1>11. ASSUME VinIsr  PROVE stale' = stale
  <2>1. CASE Looked \in dmaStatus
    <3>1. Reads("isr", Looked, {Dev("vinc", Looked)})
      BY <1>11, <2>1 DEF VinIsr
    <3> QED
      BY <2>1, <3>1, StatusLive, ReadsLive
  <2>2. CASE Looked \notin dmaStatus
    BY <1>11, <2>2 DEF VinIsr
  <2> QED
    BY <2>1, <2>2
<1>12. ASSUME NEW v \in Videos, Frame(v) \/ WorkBegin(v) \/ WorkEnd(v)  PROVE stale' = stale
  BY <1>12 DEF Frame, WorkBegin, WorkEnd, memory
<1> QED
  BY <1>2, <1>3, <1>4, <1>5, <1>6, <1>7, <1>8, <1>9, <1>10, <1>11, <1>12, StepIs

-----------------------------------------------------------------------------
(* What is switched on.                                                    *)

\* PathInv where no call switches on or off.
LEMMA PathKept ==
  ASSUME TypeOK, PathInv, path' = path, stale \subseteq stale', dmaStatus' \subseteq dmaStatus,
         \A op \in {"on", "off"}, k \in Parts, v \in 0 .. 3 : Ahead(op, k, v)' <=> Ahead(op, k, v)
  PROVE  PathInv'
<1>1. \A c \in path : c[1] \in Parts /\ c[2] \in 0 .. 3
  BY VideosFinite DEF TypeOK, Channels, Parts
<1> QED
  BY <1>1 DEF PathInv

LEMMA PathStep ==
  ASSUME TypeOK, TodoInv, DeviceInv, PathInv, StaleInv, Next
  PROVE  PathInv'
<1>0. Videos \subseteq 0 .. 3 /\ board \in Boards /\ stale \subseteq stale'
  BY StaleStep, VideosFinite DEF TypeOK
<1>1. \A k \in Kinds : k \in Parts
  BY DEF Parts
<1>2. ASSUME NEW op \in Ops \ {"on", "off"}, NEW k \in Parts, NEW v \in Videos, Call(op, k, v),
             path' = path, dmaStatus' = dmaStatus
      PROVE  PathInv'
  <2>1. \A o \in {"on", "off"}, l \in Parts, w \in 0 .. 3 : Ahead(o, l, w)' <=> Ahead(o, l, w)
    BY <1>0, <1>2, CallAhead DEF Ops
  <2> QED
    BY <1>0, <1>2, <2>1, PathKept
<1>3. ASSUME UNCHANGED <<board, todo, path>>, dmaStatus' \subseteq dmaStatus
      PROVE  PathInv'
  <2>1. \A o \in {"on", "off"}, l \in Parts, w \in 0 .. 3 : Ahead(o, l, w)' <=> Ahead(o, l, w)
    BY <1>3, NoCall DEF Ops
  <2> QED
    BY <1>0, <1>3, <2>1, PathKept
<1>4. ASSUME NEW c \in path  PROVE c[1] \in Parts /\ c[2] \in 0 .. 3 /\ c = <<c[1], c[2]>>
  <2>1. PICK k \in Parts, w \in Videos : c = <<k, w>>
    BY DEF TypeOK, Channels, Parts
  <2> QED
    BY <1>0, <2>1
<1>5. ASSUME NEW k \in Kinds, NEW v \in Videos, Off(k, v)  PROVE PathInv'
  <2>1. Call("off", k, v) /\ "off" \in Ops /\ "on" \in Ops /\ k \in Parts /\ v \in 0 .. 3
    BY <1>0, <1>1, <1>5 DEF Off, Ops
  <2>2. ASSUME <<k, v>> \in path'
        PROVE  k = "tdm" /\ v # Logic /\ stale' # {} /\ <<k, v>> \in path
    <3>1. mem[Dev(k, v)] = "freed" /\ path' = path
      BY <1>5, <2>2 DEF Off
    <3>2. k = "tdm" /\ v # Logic
      BY <2>1, <3>1, FreedAtOff
    <3>3. [op |-> "off", video |-> v, dev |-> Dev(k, v)] \in stale'
      BY <1>5, <3>1 DEF Off, Reads
    <3> QED
      BY <2>2, <3>1, <3>2, <3>3
  <2>3. path' \subseteq path /\ \A c \in path : c # <<k, v>> => c \in path'
    BY <1>5 DEF Off
  <2>4. ASSUME NEW c \in path', c[1] \notin {"mipi", "sensor"}
        PROVE  /\ ~ Ahead("on", c[1], c[2])'
               /\ Ahead("off", c[1], c[2])' \/ (c[1] = "tdm" /\ c[2] # Logic /\ stale' # {})
    <3>1. c \in path /\ c[1] \in Parts /\ c[2] \in 0 .. 3 /\ c = <<c[1], c[2]>>
      BY <1>4, <2>3
    <3>2. Ahead("on", c[1], c[2])' <=> Ahead("on", c[1], c[2])
      BY <1>0, <2>1, <3>1, CallAhead
    <3>3. CASE c = <<k, v>>
      BY <2>2, <2>4, <3>1, <3>2, <3>3 DEF PathInv
    <3>4. CASE c # <<k, v>>
      <4>1. c[1] # k \/ c[2] # v
        BY <3>1, <3>4
      <4>2. Ahead("off", c[1], c[2])' <=> Ahead("off", c[1], c[2])
        BY <1>0, <2>1, <3>1, <4>1, CallAhead
      <4> QED
        BY <1>0, <2>4, <3>1, <3>2, <4>2 DEF PathInv
    <3> QED
      BY <3>3, <3>4
  <2>5. ASSUME NEW w \in dmaStatus'  PROVE <<"vinc", w>> \in path'
    <3>1. w \in dmaStatus /\ (k = "vinc" => w # v)
      BY <1>5, <2>5 DEF Off
    <3>2. <<"vinc", w>> # <<k, v>>
      BY <3>1
    <3> QED
      BY <2>3, <3>1, <3>2 DEF PathInv
  <2> QED
    BY <2>4, <2>5 DEF PathInv
<1>6. ASSUME NEW k \in Parts, NEW v \in Videos, On(k, v)  PROVE PathInv'
  <2>1. Call("on", k, v) /\ "off" \in Ops /\ "on" \in Ops /\ v \in 0 .. 3
    BY <1>0, <1>6 DEF On, Ops
  <2>2. path' = path \cup {<<k, v>>} /\ dmaStatus' \subseteq dmaStatus
    BY <1>6 DEF On
  <2>3. ASSUME NEW c \in path', c[1] \notin {"mipi", "sensor"}
        PROVE  /\ ~ Ahead("on", c[1], c[2])'
               /\ Ahead("off", c[1], c[2])' \/ (c[1] = "tdm" /\ c[2] # Logic /\ stale' # {})
    <3>1. CASE c = <<k, v>>
      <4>1. c[1] = k /\ c[2] = v
        BY <3>1
      <4>2. Has("on", k, v) /\ ~ Ahead("on", k, v)'
        BY <1>0, <2>1, CallAhead
      <4>3. Has("off", k, v)
        BY <2>3, <4>1, <4>2 DEF Has, KindsFor, Parts, Kinds
      <4>4. At("on", k, v) < At("off", k, v)
        BY <2>1, Order
      <4>5. Ahead("off", k, v) /\ (Ahead("off", k, v)' <=> Ahead("off", k, v))
        BY <1>0, <2>1, <4>3, <4>4, CallAhead
      <4> QED
        BY <4>1, <4>2, <4>5
    <3>2. CASE c # <<k, v>>
      <4>1. c \in path /\ c[1] \in Parts /\ c[2] \in 0 .. 3 /\ (c[1] # k \/ c[2] # v)
        BY <1>4, <2>2, <3>2
      <4>2. /\ Ahead("off", c[1], c[2])' <=> Ahead("off", c[1], c[2])
            /\ Ahead("on", c[1], c[2])' <=> Ahead("on", c[1], c[2])
        BY <1>0, <2>1, <4>1, CallAhead
      <4> QED
        BY <1>0, <2>3, <4>1, <4>2 DEF PathInv
    <3> QED
      BY <3>1, <3>2
  <2>4. ASSUME NEW w \in dmaStatus'  PROVE <<"vinc", w>> \in path'
    BY <2>2, <2>4 DEF PathInv
  <2> QED
    BY <2>3, <2>4 DEF PathInv
<1>7. ASSUME NEW k \in Kinds, NEW v \in Videos, Probe(k, v) \/ Release(k, v) \/ Configure(k, v)
      PROVE  PathInv'
  BY <1>1, <1>2, <1>7 DEF Probe, Release, Configure, Ops, hardware, dma
<1>8. ASSUME NEW v \in Videos, ReleaseBeyond(v) \/ Wait(v) \/ Reset(v)  PROVE PathInv'
  <2>1. "isp" \in Parts /\ "tdm" \in Parts
    BY DEF Parts, Kinds
  <2> QED
    BY <1>2, <1>8, <2>1 DEF ReleaseBeyond, Wait, Reset, Ops, hardware, dma
<1>9. ASSUME VinIsr  PROVE PathInv'
  BY <1>3, <1>9 DEF VinIsr, hardware
<1>10. ASSUME NEW v \in Videos, Frame(v)  PROVE PathInv'
  <2>1. /\ UNCHANGED <<board, todo, path>>
        /\ dmaStatus' = dmaStatus \/ (dmaStatus' = dmaStatus \cup {v} /\ <<"vinc", v>> \in path)
    BY <1>10 DEF Frame, hardware
  <2>2. \A o \in {"on", "off"}, l \in Parts, w \in 0 .. 3 : Ahead(o, l, w)' <=> Ahead(o, l, w)
    BY <2>1, NoCall DEF Ops
  <2> QED
    BY <1>0, <1>4, <2>1, <2>2 DEF PathInv
<1>11. ASSUME NEW v \in Videos, WorkBegin(v) \/ WorkEnd(v)  PROVE PathInv'
  BY <1>3, <1>11 DEF WorkBegin, WorkEnd, hardware, dma
<1> QED
  BY <1>5, <1>6, <1>7, <1>8, <1>9, <1>10, <1>11, StepIs

-----------------------------------------------------------------------------
(* The videos that stream through a shared part, and the count of them.    *)

LEMMA SharedAre == \A k \in Shared : k \in Kinds /\ k \in Parts
  BY DEF Shared, Kinds, Parts

LEMMA StreamsFinite ==
  ASSUME NEW k
  PROVE  IsFiniteSet(Streams(k)) /\ Streams(k) \subseteq Videos
<1>1. Streams(k) \in SUBSET Videos
  BY DEF Streams
<1> QED
  BY <1>1, VideosFinite, FS_Subset

\* A step that switches nothing on or off.
Quiet ==
  /\ UNCHANGED <<board, tops>> /\ stale \subseteq stale'
  /\ \A op \in {"on", "off"}, k \in Parts, v \in 0 .. 3 : Ahead(op, k, v)' <=> Ahead(op, k, v)
  /\ Ahead("wait", "isp", Logic)' => Ahead("wait", "isp", Logic)

LEMMA QuietStreams ==
  ASSUME Quiet, NEW k \in Parts
  PROVE  Streams(k)' = Streams(k)
<1>1. \A v \in Videos : /\ Ahead("on", k, v)' <=> Ahead("on", k, v)
                        /\ Ahead("off", k, v)' <=> Ahead("off", k, v)
  BY VideosFinite DEF Quiet
<1> QED
  BY <1>1 DEF Streams

LEMMA QuietCalls ==
  ASSUME TypeOK, TodoInv, DeviceInv, PathInv, StaleInv, Next,
         \/ UNCHANGED <<todo, board>>
         \/ \E op \in Ops \ {"on", "off"}, k \in Parts, v \in Videos : Call(op, k, v),
         tops' = tops
  PROVE  Quiet
<1>1. stale \subseteq stale'
  BY StaleStep
<1>2. CASE UNCHANGED <<todo, board>>
  <2>1. \A op \in Ops, k \in Parts, v \in 0 .. 3 : Ahead(op, k, v)' <=> Ahead(op, k, v)
    BY <1>2, NoCall
  <2>2. {"on", "off", "wait"} \subseteq Ops /\ "isp" \in Parts /\ Logic \in 0 .. 3
    BY DEF Ops, Parts, Kinds, Logic
  <2> QED
    BY <1>1, <1>2, <2>1, <2>2 DEF Quiet
<1>3. ASSUME NEW op \in Ops \ {"on", "off"}, NEW k \in Parts, NEW v \in Videos, Call(op, k, v)
      PROVE  Quiet
  <2>1. v \in 0 .. 3 /\ board \in Boards
    BY VideosFinite DEF TypeOK
  <2>2. board' = board /\ Left' \subseteq Left
    BY <1>3, <2>1, CallStep
  <2>3. \A o \in {"on", "off"}, l \in Parts, w \in 0 .. 3 : Ahead(o, l, w)' <=> Ahead(o, l, w)
    BY <1>3, <2>1, CallAhead DEF Ops
  <2> QED
    BY <1>1, <2>2, <2>3 DEF Quiet, Ahead
<1> QED
  BY <1>2, <1>3

\* A channel that is switched on joins the streams.
LEMMA StreamsOn ==
  ASSUME TypeOK, TodoInv, NEW k \in Parts, NEW v \in Videos, Call("on", k, v)
  PROVE  /\ k \in Shared => Streams(k)' = Streams(k) \cup {v} /\ v \notin Streams(k)
         /\ \A l \in Shared : l # k => Streams(l)' = Streams(l)
         /\ board' = board /\ Ahead("on", k, v) /\ Has("on", k, v) /\ ~ Ahead("on", k, v)'
         /\ \A l \in Parts, w \in Videos : l # k \/ w # v => (Ahead("on", l, w)' <=> Ahead("on", l, w))
         /\ \A l \in Parts, w \in Videos : Ahead("off", l, w)' <=> Ahead("off", l, w)
         /\ \A l \in {"isp", "tdm"} : Has("off", l, v) => Ahead("off", l, v)
         /\ Ahead("wait", "isp", Logic)' <=> Ahead("wait", "isp", Logic)
<1>1. /\ board \in Boards /\ Videos \subseteq 0 .. 3 /\ v \in 0 .. 3 /\ "isp" \in Parts /\ "tdm" \in Parts
      /\ "on" \in Ops /\ "off" \in Ops /\ "wait" \in Ops /\ Logic \in 0 .. 3
  BY VideosFinite DEF TypeOK, Ops, Parts, Kinds, Logic
<1>2. /\ board' = board /\ Ahead("on", k, v) /\ ~ Ahead("on", k, v)' /\ Has("on", k, v)
      /\ \A l \in Parts, w \in 0 .. 3 : l # k \/ w # v => (Ahead("on", l, w)' <=> Ahead("on", l, w))
      /\ \A l \in Parts, w \in 0 .. 3 : Ahead("off", l, w)' <=> Ahead("off", l, w)
      /\ Ahead("wait", "isp", Logic)' <=> Ahead("wait", "isp", Logic)
  BY <1>1, CallAhead
<1>3. \A l \in Parts : Has("off", l, v) => Ahead("off", l, v)
  <2>1. ASSUME NEW l \in Parts, Has("off", l, v)  PROVE Ahead("off", l, v)
    <3>1. At("on", k, v) < At("off", l, v)
      BY <1>1, Order
    <3> QED
      BY <1>1, <2>1, <3>1, CallAhead
  <2> QED
    BY <2>1
<1>4. k \in Shared => Ahead("off", k, v)
  <2>1. k \in Shared => Has("off", k, v)
    BY <1>2 DEF Has, KindsFor, Shared
  <2> QED
    BY <1>3, <2>1
<1>5. k \in Shared => Streams(k)' = Streams(k) \cup {v} /\ v \notin Streams(k)
  BY <1>1, <1>2, <1>4 DEF Streams
<1>6. \A l \in Shared : l # k => Streams(l)' = Streams(l)
  BY <1>1, <1>2, SharedAre DEF Streams
<1> QED
  BY <1>1, <1>2, <1>3, <1>5, <1>6

\* A channel that is switched off leaves them.
LEMMA StreamsOff ==
  ASSUME TypeOK, TodoInv, NEW k \in Kinds, NEW v \in Videos, Call("off", k, v)
  PROVE  /\ Streams(k)' = Streams(k) \ {v} /\ v \in Streams(k)
         /\ \A l \in Shared : l # k => Streams(l)' = Streams(l)
         /\ board' = board /\ Has("off", k, v)
         /\ \A l \in Parts, w \in Videos : Ahead("on", l, w)' <=> Ahead("on", l, w)
         /\ \A l \in Parts, w \in Videos : l # k \/ w # v => (Ahead("off", l, w)' <=> Ahead("off", l, w))
         /\ \A l \in Parts : ~ Ahead("on", l, v)
         /\ ~ Ahead("wait", "isp", Logic)'
         /\ \A l \in Parts, w \in Videos : At("off", l, w) < At("off", k, v) => ~ Ahead("off", l, w)
<1>1. /\ board \in Boards /\ Videos \subseteq 0 .. 3 /\ v \in 0 .. 3 /\ "isp" \in Parts /\ k \in Parts
      /\ "on" \in Ops /\ "off" \in Ops /\ "wait" \in Ops /\ Logic \in 0 .. 3
  BY VideosFinite DEF TypeOK, Ops, Parts, Kinds, Logic
<1>2. /\ board' = board /\ Ahead("off", k, v) /\ ~ Ahead("off", k, v)' /\ Has("off", k, v)
      /\ \A l \in Parts, w \in 0 .. 3 : l # k \/ w # v => (Ahead("off", l, w)' <=> Ahead("off", l, w))
      /\ \A l \in Parts, w \in 0 .. 3 : Ahead("on", l, w)' <=> Ahead("on", l, w)
      /\ Ahead("wait", "isp", Logic)' <=> Ahead("wait", "isp", Logic)
      /\ \A o \in Ops, l \in Parts, w \in 0 .. 3 : At(o, l, w) < At("off", k, v) => ~ Ahead(o, l, w)
  BY <1>1, CallAhead
<1>3. \A l \in Parts : ~ Ahead("on", l, v)
  <2>1. ASSUME NEW l \in Parts  PROVE ~ Ahead("on", l, v)
    <3>1. At("on", l, v) < At("off", k, v)
      BY <1>1, Order
    <3> QED
      BY <1>1, <1>2, <3>1
  <2> QED
    BY <2>1
<1>4. ~ Ahead("wait", "isp", Logic)
  <2>1. At("wait", "isp", Logic) < At("off", k, v)
    BY <1>1, Order DEF Logic
  <2> QED
    BY <1>1, <1>2, <2>1
<1>5. Streams(k)' = Streams(k) \ {v} /\ v \in Streams(k)
  BY <1>1, <1>2, <1>3 DEF Streams
<1>6. \A l \in Shared : l # k => Streams(l)' = Streams(l)
  BY <1>1, <1>2, SharedAre DEF Streams
<1> QED
  BY <1>1, <1>2, <1>3, <1>4, <1>5, <1>6

\* The steps that are not a call to switch something on or off.
LEMMA QuietSteps ==
  ASSUME TypeOK, TodoInv, DeviceInv, PathInv, StaleInv, Next
  PROVE  \/ \E k \in Kinds, v \in Videos : Off(k, v)
         \/ \E k \in Parts, v \in Videos : On(k, v)
         \/ \E k \in Kinds, v \in Videos : Quiet /\ Probe(k, v)
         \/ Quiet /\ count' = count /\ logicCount' = logicCount
              /\ \A d \in Devs : mem'[d] # "freed" => mem[d] # "freed"
<1>0. {"probe", "config", "remove", "wait", "reset"} \subseteq Ops \ {"on", "off"}
      /\ "isp" \in Parts /\ "tdm" \in Parts /\ \A k \in Kinds : k \in Parts
  BY DEF Ops, Parts, Kinds
<1>1. ASSUME NEW op \in Ops \ {"on", "off"}, NEW k \in Parts, NEW v \in Videos, Call(op, k, v), tops' = tops
      PROVE  Quiet
  BY <1>1, QuietCalls
<1>2. ASSUME UNCHANGED <<todo, board, tops>>  PROVE Quiet
  BY <1>2, QuietCalls
<1>3. ASSUME NEW k \in Kinds, NEW v \in Videos, Probe(k, v)  PROVE Quiet
  BY <1>0, <1>1, <1>3 DEF Probe, hardware
<1>4. ASSUME NEW k \in Kinds, NEW v \in Videos, Release(k, v)
      PROVE  Quiet /\ UNCHANGED <<count, logicCount>> /\ \A d \in Devs : mem'[d] # "freed" => mem[d] # "freed"
  <2>1. Quiet
    BY <1>0, <1>1, <1>4 DEF Release, hardware
  <2>2. mem' = mem \/ mem' = [mem EXCEPT ![Dev(k, v)] = "freed"]
    BY <1>4 DEF Release
  <2>3. \A d \in Devs : mem'[d] # "freed" => mem[d] # "freed"
    BY <2>2 DEF TypeOK
  <2> QED
    BY <1>4, <2>1, <2>3 DEF Release
<1>5. ASSUME NEW k \in Kinds, NEW v \in Videos, Configure(k, v)
      PROVE  Quiet /\ UNCHANGED <<count, logicCount, mem>>
  BY <1>0, <1>1, <1>5 DEF Configure, hardware
<1>6. ASSUME NEW v \in Videos, ReleaseBeyond(v) \/ Wait(v) \/ Reset(v)
      PROVE  Quiet /\ UNCHANGED <<count, logicCount, mem>>
  BY <1>0, <1>1, <1>6 DEF ReleaseBeyond, Wait, Reset, hardware, memory
<1>7. ASSUME VinIsr  PROVE Quiet /\ UNCHANGED <<count, logicCount, mem>>
  BY <1>2, <1>7 DEF VinIsr, hardware
<1>8. ASSUME NEW v \in Videos, Frame(v) \/ WorkBegin(v) \/ WorkEnd(v)
      PROVE  Quiet /\ UNCHANGED <<count, logicCount, mem>>
  BY <1>2, <1>8 DEF Frame, WorkBegin, WorkEnd, hardware, memory
<1> QED
  BY <1>3, <1>4, <1>5, <1>6, <1>7, <1>8, StepIs

LEMMA CountStep ==
  ASSUME TypeOK, TodoInv, DeviceInv, PathInv, StaleInv, CountInv, Next
  PROVE  CountInv'
<1>0. /\ board \in Boards /\ Videos \subseteq 0 .. 3 /\ Logic \in Videos /\ Logic = 0
      /\ \A k \in Shared : k \in Parts /\ k \in Kinds
      /\ \A k \in Kinds : k \in Parts
      /\ \A k \in Shared : Dev(k, Logic) \in Devs
  <2>1. \A k \in Shared : k \in Parts /\ k \in Kinds
    BY SharedAre
  <2>2. board \in Boards /\ Videos \subseteq 0 .. 3 /\ Logic \in Videos /\ Logic = 0
    BY UsedAre, VideosFinite DEF TypeOK, Logic
  <2> QED
    BY <2>1, <2>2, DevType DEF Parts
<1>1. \A k \in Shared, v \in Videos : <<k, v>> \in Channels
  BY <1>0 DEF Channels
<1>2. CASE Quiet /\ count' = count /\ logicCount' = logicCount
             /\ \A d \in Devs : mem'[d] # "freed" => mem[d] # "freed"
  <2>1. \A k \in Shared : Streams(k)' = Streams(k)
    BY <1>0, <1>2, QuietStreams
  <2>2. \A k \in Shared, v \in Videos : Ahead("on", k, v)' <=> Ahead("on", k, v)
    BY <1>0, <1>2 DEF Quiet
  <2> QED
    BY <1>0, <1>2, <2>1, <2>2 DEF CountInv
<1>3. ASSUME NEW k \in Kinds, NEW v \in Videos, Quiet, Probe(k, v)  PROVE CountInv'
  <2>1. Call("probe", k, v)
    BY <1>3 DEF Probe
  <2>2. \A l \in Shared : mem[Dev(l, Logic)] # "freed"
    BY <1>0, <2>1, NoneFreed
  <2>3. \A l \in Shared : Streams(l)' = Streams(l)
    BY <1>0, <1>3, QuietStreams
  <2>4. \A l \in Shared, w \in Videos : Ahead("on", l, w)' <=> Ahead("on", l, w)
    BY <1>0, <1>3 DEF Quiet
  <2>5. ASSUME k \in Shared, v = Logic  PROVE Streams(k) = {}
    <3>1. ASSUME NEW w \in Streams(k)  PROVE FALSE
      <4>1. w \in Videos /\ w \in 0 .. 3 /\ ~ Ahead("on", k, w) /\ Ahead("off", k, w)
        BY <1>0 DEF Streams
      <4>2. "off" \in Ops /\ "on" \in Ops /\ "probe" \in Ops
        BY DEF Ops
      <4>3. Has("off", k, w)
        BY <1>0, <4>1, <4>2, LeftIs
      <4>4. Has("on", k, w)
        BY <4>3, <2>5 DEF Has, KindsFor, Shared
      <4>5. At("probe", k, 0) < At("on", k, w)
        BY <1>0, <4>1, Order
      <4> QED
        BY <1>0, <2>1, <2>5, <4>1, <4>2, <4>4, <4>5, CallAhead
    <3> QED
      BY <3>1
  <2>6. CASE flag[Dev(k, v)]
    BY <1>0, <1>3, <2>3, <2>4, <2>6 DEF Probe, CountInv
  <2>7. CASE ~ flag[Dev(k, v)]
    <3>1. /\ count' = [count EXCEPT ![<<k, v>>] = 0]
          /\ logicCount' = IF k \in Shared /\ v = Logic THEN [logicCount EXCEPT ![k] = 0] ELSE logicCount
      BY <1>3, <2>7 DEF Probe
    <3>2. \A l \in Shared, w \in Videos : Ahead("on", l, w)' => count'[<<l, w>>] = 0
      BY <1>1, <2>4, <3>1 DEF TypeOK, CountInv
    <3>3. ASSUME NEW l \in Shared  PROVE logicCount'[l] = Cardinality(Streams(l))
      <4>1. CASE l = k /\ v = Logic
        <5>1. logicCount'[l] = 0
          BY <3>1, <4>1 DEF TypeOK
        <5> QED
          BY <2>5, <4>1, <5>1, FS_EmptySet
      <4>2. CASE ~ (l = k /\ v = Logic)
        <5>1. logicCount'[l] = logicCount[l]
          BY <3>1, <4>2 DEF TypeOK
        <5> QED
          BY <2>2, <5>1 DEF CountInv
      <4> QED
        BY <4>1, <4>2
    <3> QED
      BY <2>3, <3>2, <3>3 DEF CountInv
  <2> QED
    BY <2>6, <2>7
<1>4. ASSUME NEW k \in Parts, NEW v \in Videos, On(k, v)  PROVE CountInv'
  <2>1. Call("on", k, v) /\ count' = [count EXCEPT ![<<k, v>>] = @ + 1] /\ mem' = mem
    BY <1>4 DEF On
  <2>2. /\ k \in Shared => Streams(k)' = Streams(k) \cup {v} /\ v \notin Streams(k)
        /\ \A l \in Shared : l # k => Streams(l)' = Streams(l)
        /\ Ahead("on", k, v) /\ ~ Ahead("on", k, v)'
        /\ \A l \in Parts, w \in Videos : l # k \/ w # v => (Ahead("on", l, w)' <=> Ahead("on", l, w))
    BY <2>1, StreamsOn
  <2>3. ASSUME NEW l \in Shared, NEW w \in Videos, Ahead("on", l, w)'  PROVE count'[<<l, w>>] = 0
    <3>1. l # k \/ w # v
      BY <2>2, <2>3
    <3>2. count[<<l, w>>] = 0
      BY <1>0, <2>2, <2>3, <3>1 DEF CountInv
    <3>3. <<l, w>> # <<k, v>>
      BY <3>1
    <3> QED
      BY <1>1, <2>1, <3>2, <3>3 DEF TypeOK
  <2>4. ASSUME NEW l \in Shared, mem'[Dev(l, Logic)] # "freed"
        PROVE  logicCount'[l] = Cardinality(Streams(l)')
    <3>0. logicCount[l] = Cardinality(Streams(l))
      BY <2>1, <2>4 DEF CountInv
    <3>1. CASE l = k
      <4>1. count[<<k, v>>] = 0
        BY <2>2, <2>4, <3>1 DEF CountInv
      <4>2. logicCount' = [logicCount EXCEPT ![k] = @ + 1]
        BY <1>4, <3>1, <4>1 DEF On
      <4>3. logicCount'[l] = logicCount[l] + 1
        BY <3>1, <4>2 DEF TypeOK
      <4>4. Cardinality(Streams(k) \cup {v}) = Cardinality(Streams(k)) + 1
        BY <2>2, <3>1, StreamsFinite, FS_AddElement
      <4> QED
        BY <2>2, <3>0, <3>1, <4>3, <4>4
    <3>2. CASE l # k
      <4>1. logicCount'[l] = logicCount[l]
        BY <1>4, <3>2 DEF On, TypeOK
      <4> QED
        BY <2>2, <3>0, <3>2, <4>1
    <3> QED
      BY <3>1, <3>2
  <2> QED
    BY <2>3, <2>4 DEF CountInv
<1>5. ASSUME NEW k \in Kinds, NEW v \in Videos, Off(k, v)  PROVE CountInv'
  <2>1. Call("off", k, v) /\ count' = [count EXCEPT ![<<k, v>>] = @ - 1] /\ mem' = mem
    BY <1>5 DEF Off
  <2>2. /\ Streams(k)' = Streams(k) \ {v} /\ v \in Streams(k)
        /\ \A l \in Shared : l # k => Streams(l)' = Streams(l)
        /\ \A l \in Parts, w \in Videos : Ahead("on", l, w)' <=> Ahead("on", l, w)
        /\ \A l \in Parts : ~ Ahead("on", l, v)
    BY <2>1, StreamsOff
  <2>3. ASSUME NEW l \in Shared, NEW w \in Videos, Ahead("on", l, w)'  PROVE count'[<<l, w>>] = 0
    <3>1. Ahead("on", l, w) /\ w # v
      BY <1>0, <2>2, <2>3
    <3>2. count[<<l, w>>] = 0
      BY <3>1 DEF CountInv
    <3>3. <<l, w>> # <<k, v>>
      BY <3>1
    <3> QED
      BY <1>1, <2>1, <3>2, <3>3 DEF TypeOK
  <2>4. ASSUME NEW l \in Shared, mem'[Dev(l, Logic)] # "freed"
        PROVE  logicCount'[l] = Cardinality(Streams(l)')
    <3>0. logicCount[l] = Cardinality(Streams(l)) /\ mem[Dev(l, Logic)] # "freed"
      BY <2>1, <2>4 DEF CountInv
    <3>1. CASE l = k
      <4>1. logicCount' = [logicCount EXCEPT ![k] = @ - 1]
        BY <1>5, <3>0, <3>1 DEF Off, TopOff
      <4>2. logicCount'[l] = logicCount[l] - 1
        BY <3>1, <4>1 DEF TypeOK
      <4>3. Cardinality(Streams(k) \ {v}) = Cardinality(Streams(k)) - 1
        BY <2>2, StreamsFinite, FS_RemoveElement
      <4> QED
        BY <2>2, <3>0, <3>1, <4>2, <4>3
    <3>2. CASE l # k
      <4>1. logicCount'[l] = logicCount[l]
        BY <1>5, <3>2 DEF Off, TopOff, TypeOK
      <4> QED
        BY <2>2, <3>0, <3>2, <4>1
    <3> QED
      BY <3>1, <3>2
  <2> QED
    BY <2>3, <2>4 DEF CountInv
<1> QED
  BY <1>2, <1>3, <1>4, <1>5, QuietSteps

-----------------------------------------------------------------------------
(* The shared parts.                                                       *)

\* What switching a shared part off leaves on: either it read a freed device,
\* or the video was the last to stream through it, or it leaves all.
LEMMA TopOffIs ==
  ASSUME TypeOK, TodoInv, DeviceInv, CountInv,
         NEW k \in Shared, NEW v \in Videos, Off(k, v)
  PROVE  \/ /\ mem[Dev(k, Logic)] = "freed" /\ k # "isp" /\ v # Logic
            /\ ~ board.online /\ stale' # {} /\ tops' \in {tops, tops \ Dark(k)}
         \/ Streams(k) = {v} /\ tops' = tops \ Dark(k)
         \/ Streams(k) \ {v} # {} /\ tops' = tops
<1>0. k \in Kinds /\ Call("off", k, v) /\ k \in Parts /\ board \in Boards
  BY SharedAre DEF Off, TypeOK
<1>1. CASE mem[Dev(k, Logic)] = "freed"
  <2>1. v # Logic /\ k # "isp"
    BY <1>0, <1>1, FreedAtOff
  <2>2. Has("off", k, v)
    BY <1>0, StreamsOff
  <2>3. ~ board.online
    BY <1>0, <2>1, <2>2, UsedAre DEF Has
  <2>4. [op |-> "off", video |-> v, dev |-> Dev(k, Logic)] \in stale'
    BY <1>1 DEF Off, Reads
  <2>5. tops' \in {tops, tops \ Dark(k)}
    BY <1>1 DEF Off, TopOff
  <2> QED
    BY <1>1, <2>1, <2>3, <2>4, <2>5
<1>2. CASE mem[Dev(k, Logic)] # "freed"
  <2>1. logicCount[k] = Cardinality(Streams(k)) /\ v \in Streams(k) /\ IsFiniteSet(Streams(k))
    BY <1>0, <1>2, StreamsOff, StreamsFinite DEF CountInv
  <2>2. tops' = IF logicCount[k] = 1 THEN tops \ Dark(k) ELSE tops
    BY <1>2 DEF Off, TopOff, LastOff
  <2>3. CASE logicCount[k] = 1
    <3>1. PICK x : Streams(k) = {x}
      BY <2>1, <2>3, FS_Singleton
    <3> QED
      BY <2>1, <2>2, <2>3, <3>1
  <2>4. CASE logicCount[k] # 1
    <3>1. Streams(k) # {v}
      BY <2>1, <2>4, FS_Singleton
    <3> QED
      BY <2>1, <2>2, <2>4, <3>1
  <2> QED
    BY <2>3, <2>4
<1> QED
  BY <1>1, <1>2

\* The parts that go dark with a kind.
LEMMA DarkIs ==
  ASSUME NEW k \in Shared
  PROVE  /\ k # "tdm" => k \in Dark(k)
         /\ Dark(k) \subseteq {k, "tdm"}
         /\ "tdm" \in Dark(k) <=> k = IF board.online THEN "tdm" ELSE "isp"
<1>1. CASE k = "isp"
  BY <1>1 DEF Dark
<1>2. CASE k = "tdm"
  BY <1>2 DEF Dark
<1>3. CASE k \notin {"isp", "tdm"}
  <2>1. Dark(k) = {k}
    BY <1>3 DEF Dark
  <2> QED
    BY <1>3, <2>1
<1> QED
  BY <1>1, <1>2, <1>3

\* Who keeps the TDM on.
Keeper == IF board.online THEN "tdm" ELSE "isp"

LEMMA DarkStep ==
  ASSUME TypeOK, TodoInv, DeviceInv, PathInv, StaleInv, CountInv, DarkInv, Next
  PROVE  DarkInv'
<1>0. /\ tops \subseteq Shared /\ Videos \subseteq 0 .. 3
      /\ \A k \in Shared : k \in Parts /\ k \in Kinds
  BY SharedAre, VideosFinite DEF TypeOK
<1>a. PICK keeper \in Shared : keeper = Keeper /\ keeper \in {"isp", "tdm"}
  BY DEF Keeper, Shared
<1>1. stale' = {} => stale = {}
  BY StaleStep
<1>2. \A k \in tops : k \in {"isp", "tdm"} \/ stale = {} => KeptOn(k)
  BY DEF DarkInv
<1>3. /\ KeptOn("tdm") <=> \E v \in Videos : Ahead("off", keeper, v)
      /\ \A k : k # "tdm" => (KeptOn(k) <=> Streams(k) # {})
  BY <1>a DEF KeptOn, Keeper
<1>4. ASSUME board' = board
      PROVE  /\ KeptOn("tdm")' <=> \E v \in Videos : Ahead("off", keeper, v)'
             /\ \A k : k # "tdm" => (KeptOn(k)' <=> Streams(k)' # {})
  BY <1>4, <1>a DEF KeptOn, Keeper
<1>5. CASE Quiet
  <2>1. board' = board /\ tops' = tops
    BY <1>5 DEF Quiet
  <2>2. \A k \in Shared : Streams(k)' = Streams(k)
    BY <1>0, <1>5, QuietStreams
  <2>3. \A v \in Videos : Ahead("off", keeper, v)' <=> Ahead("off", keeper, v)
    BY <1>0, <1>5 DEF Quiet
  <2>4. \A k \in Shared : KeptOn(k)' <=> KeptOn(k)
    BY <1>3, <1>4, <2>1, <2>2, <2>3
  <2> QED
    BY <1>0, <1>1, <1>2, <2>1, <2>4 DEF DarkInv
<1>6. ASSUME NEW k \in Parts, NEW v \in Videos, On(k, v)  PROVE DarkInv'
  <2>1. Call("on", k, v) /\ (tops' = tops \/ (tops' = tops \cup {k} /\ k \in Shared))
    BY <1>6 DEF On
  <2>2. /\ k \in Shared => Streams(k)' = Streams(k) \cup {v} /\ v \notin Streams(k)
        /\ \A l \in Shared : l # k => Streams(l)' = Streams(l)
        /\ board' = board /\ Has("on", k, v)
        /\ \A l \in Parts, w \in Videos : Ahead("off", l, w)' <=> Ahead("off", l, w)
        /\ \A l \in {"isp", "tdm"} : Has("off", l, v) => Ahead("off", l, v)
    BY <2>1, StreamsOn
  <2>3. k \in Shared => KeptOn(k)'
    <3>1. CASE k = "tdm"
      <4>1. Has("off", keeper, v)
        BY <1>a, <2>2, <3>1 DEF Has, KindsFor, Keeper
      <4>2. Ahead("off", keeper, v)'
        BY <1>0, <1>a, <2>2, <4>1
      <4> QED
        BY <1>4, <2>2, <3>1, <4>2
    <3>2. CASE k # "tdm"
      BY <1>4, <2>2, <3>2
    <3> QED
      BY <3>1, <3>2
  <2>4. ASSUME NEW l \in Shared, l # k, KeptOn(l)  PROVE KeptOn(l)'
    <3>1. CASE l = "tdm"
      BY <1>0, <1>3, <1>4, <2>2, <2>4, <3>1
    <3>2. CASE l # "tdm"
      BY <1>3, <1>4, <2>2, <2>4, <3>2
    <3> QED
      BY <3>1, <3>2
  <2> QED
    BY <1>0, <1>1, <1>2, <2>1, <2>3, <2>4 DEF DarkInv
<1>7. ASSUME NEW k \in Kinds, NEW v \in Videos, Off(k, v)  PROVE DarkInv'
  <2>1. Call("off", k, v) /\ k \in Parts
    BY <1>7 DEF Off, Parts
  <2>2. /\ Streams(k)' = Streams(k) \ {v} /\ v \in Streams(k)
        /\ \A l \in Shared : l # k => Streams(l)' = Streams(l)
        /\ board' = board
        /\ \A l \in Parts, w \in Videos : l # k \/ w # v => (Ahead("off", l, w)' <=> Ahead("off", l, w))
    BY <2>1, StreamsOff
  <2>3. ASSUME NEW l \in Shared, l # "tdm", l # k, KeptOn(l)  PROVE KeptOn(l)'
    BY <1>3, <1>4, <2>2, <2>3
  <2>4. ASSUME KeptOn("tdm"), k # keeper  PROVE KeptOn("tdm")'
    BY <1>0, <1>3, <1>4, <2>2, <2>4
  <2>5. ASSUME Streams(k) \ {v} # {}
        PROVE  (k # "tdm" => KeptOn(k)') /\ (k = keeper => KeptOn("tdm")')
    <3>1. PICK w \in Streams(k)' : w # v
      BY <2>2, <2>5
    <3>2. Ahead("off", k, w)' /\ w \in Videos
      BY <3>1 DEF Streams
    <3> QED
      BY <1>4, <2>2, <2>5, <3>2
  <2>6. CASE k \notin Shared
    <3>1. tops' = tops
      BY <1>7, <2>6 DEF Off
    <3> QED
      BY <1>0, <1>1, <1>2, <2>3, <2>4, <2>6, <3>1 DEF DarkInv
  <2>7. CASE k \in Shared
    <3>1. "tdm" \in Dark(k) <=> k = keeper
      BY <1>a, <2>7, DarkIs DEF Keeper
    <3>2. CASE /\ mem[Dev(k, Logic)] = "freed" /\ k # "isp" /\ v # Logic
               /\ ~ board.online /\ stale' # {} /\ tops' \in {tops, tops \ Dark(k)}
      <4>1. tops' \subseteq tops /\ keeper = "isp"
        BY <1>a, <3>2 DEF Keeper
      <4> QED
        BY <1>0, <1>2, <2>3, <2>4, <3>2, <4>1 DEF DarkInv
    <3>3. CASE Streams(k) = {v} /\ tops' = tops \ Dark(k)
      <4>1. ASSUME NEW l \in tops', l \in {"isp", "tdm"} \/ stale' = {}  PROVE KeptOn(l)'
        <5>1. l \in tops /\ l \in Shared /\ l \notin Dark(k) /\ KeptOn(l)
          BY <1>0, <1>1, <1>2, <3>3, <4>1
        <5>2. CASE l = "tdm"
          BY <2>4, <3>1, <5>1, <5>2
        <5>3. CASE l # "tdm"
          <6>1. l # k
            BY <2>7, <5>1, <5>3, DarkIs
          <6> QED
            BY <2>3, <5>1, <5>3, <6>1
        <5> QED
          BY <5>2, <5>3
      <4> QED
        BY <4>1 DEF DarkInv
    <3>4. CASE Streams(k) \ {v} # {} /\ tops' = tops
      <4>1. ASSUME NEW l \in tops', l \in {"isp", "tdm"} \/ stale' = {}  PROVE KeptOn(l)'
        <5>1. l \in Shared /\ KeptOn(l)
          BY <1>0, <1>1, <1>2, <3>4, <4>1
        <5> QED
          BY <2>3, <2>4, <2>5, <3>4, <5>1
      <4> QED
        BY <4>1 DEF DarkInv
    <3> QED
      BY <1>7, <2>7, <3>2, <3>3, <3>4, TopOffIs
  <2> QED
    BY <2>6, <2>7
<1> QED
  BY <1>5, <1>6, <1>7, QuietSteps

LEMMA LightStep ==
  ASSUME TypeOK, TodoInv, DeviceInv, PathInv, StaleInv, CountInv, DarkInv, LightInv, Next
  PROVE  LightInv'
<1>0. /\ tops \subseteq Shared /\ Videos \subseteq 0 .. 3 /\ Logic = 0 /\ board \in Boards
      /\ \A k \in Shared : k \in Parts /\ k \in Kinds
      /\ {"isp", "vipp", "vinc", "tdm"} = Shared
      /\ board.used \subseteq Videos /\ Logic \in board.used
      /\ "on" \in Ops /\ "off" \in Ops /\ "wait" \in Ops /\ "isp" \in Parts /\ "tdm" \in Parts
  <2>1. {"isp", "vipp", "vinc", "tdm"} = Shared
    BY DEF Shared
  <2>2. "on" \in Ops /\ "off" \in Ops /\ "wait" \in Ops /\ "isp" \in Parts /\ "tdm" \in Parts
    BY DEF Ops, Parts, Kinds
  <2> QED
    BY <2>1, <2>2, SharedAre, UsedAre, VideosFinite DEF TypeOK, Logic
<1>1. CASE Quiet
  <2>1. \A k \in Shared : Streams(k)' = Streams(k)
    BY <1>0, <1>1, QuietStreams
  <2>2. /\ board' = board /\ tops' = tops
        /\ \A v \in Videos : Ahead("on", "tdm", v)' <=> Ahead("on", "tdm", v)
        /\ Ahead("wait", "isp", Logic)' => Ahead("wait", "isp", Logic)
    BY <1>0, <1>1 DEF Quiet
  <2>3. TwoVideos' => \A k \in {"isp", "vipp", "vinc"} : Streams(k)' # {} => k \in tops'
    BY <1>0, <2>1, <2>2 DEF LightInv, TwoVideos
  <2>4. ASSUME board'.tdm
        PROVE  /\ "isp" \in tops' => "tdm" \in tops'
               /\ Ahead("wait", "isp", Logic)' /\ (\E v \in board'.used : ~ Ahead("on", "tdm", v)')
                    => "tdm" \in tops'
    BY <1>0, <2>2, <2>4 DEF LightInv
  <2> QED
    BY <2>3, <2>4 DEF LightInv
<1>2. ASSUME NEW k \in Parts, NEW v \in Videos, On(k, v)  PROVE LightInv'
  <2>1. Call("on", k, v)
    BY <1>2 DEF On
  <2>2. /\ \A l \in Shared : l # k => Streams(l)' = Streams(l)
        /\ board' = board /\ Ahead("on", k, v) /\ Has("on", k, v)
        /\ \A l \in Parts, w \in Videos : l # k \/ w # v => (Ahead("on", l, w)' <=> Ahead("on", l, w))
        /\ Ahead("wait", "isp", Logic)' <=> Ahead("wait", "isp", Logic)
    BY <2>1, StreamsOn
  <2>3. tops \subseteq tops' /\ tops' \subseteq tops \cup {k} /\ (k \in Shared => k \in tops')
    <3>1. k \in Shared => count[<<k, v>>] = 0
      BY <2>2 DEF CountInv
    <3> QED
      BY <1>2, <3>1 DEF On
  <2>4. TwoVideos' => \A l \in {"isp", "vipp", "vinc"} : Streams(l)' # {} => l \in tops'
    BY <1>0, <2>2, <2>3 DEF LightInv, TwoVideos
  <2>5. ASSUME board.tdm, k = "isp"  PROVE "tdm" \in tops
    <3>1. ~ Ahead("on", "tdm", v)
      <4>1. At("on", "tdm", v) < At("on", "isp", v)
        BY <1>0, Order
      <4> QED
        BY <1>0, <2>1, <2>5, <4>1, CallAhead
    <3>2. Ahead("wait", "isp", Logic)
      <4>1. Has("wait", "isp", Logic)
        BY <1>0 DEF Has, KindsFor
      <4>2. At("on", k, v) < At("wait", "isp", Logic)
        BY <1>0, Order
      <4> QED
        BY <1>0, <2>1, <4>1, <4>2, CallAhead
    <3>3. v \in board.used
      BY <2>2 DEF Has
    <3> QED
      BY <2>5, <3>1, <3>2, <3>3 DEF LightInv
  <2>6. ASSUME board'.tdm
        PROVE  /\ "isp" \in tops' => "tdm" \in tops'
               /\ Ahead("wait", "isp", Logic)' /\ (\E w \in board'.used : ~ Ahead("on", "tdm", w)')
                    => "tdm" \in tops'
    <3>1. "isp" \in tops' => "tdm" \in tops'
      BY <2>2, <2>3, <2>5, <2>6 DEF LightInv
    <3>2. ASSUME Ahead("wait", "isp", Logic)', NEW w \in board'.used, ~ Ahead("on", "tdm", w)'
          PROVE  "tdm" \in tops'
      <4>1. CASE k = "tdm"
        BY <1>0, <2>3, <4>1
      <4>2. CASE k # "tdm"
        <5>1. ~ Ahead("on", "tdm", w) /\ w \in board.used
          BY <1>0, <2>2, <3>2, <4>2
        <5> QED
          BY <2>2, <2>3, <2>6, <3>2, <5>1 DEF LightInv
      <4> QED
        BY <4>1, <4>2
    <3> QED
      BY <3>1, <3>2
  <2> QED
    BY <2>4, <2>6 DEF LightInv
<1>3. ASSUME NEW k \in Kinds, NEW v \in Videos, Off(k, v)  PROVE LightInv'
  <2>1. Call("off", k, v) /\ k \in Parts
    BY <1>3 DEF Off, Parts
  <2>2. /\ Streams(k)' = Streams(k) \ {v} /\ v \in Streams(k)
        /\ \A l \in Shared : l # k => Streams(l)' = Streams(l)
        /\ board' = board /\ Has("off", k, v)
        /\ ~ Ahead("wait", "isp", Logic)'
        /\ \A l \in Parts, w \in Videos : At("off", l, w) < At("off", k, v) => ~ Ahead("off", l, w)
    BY <2>1, StreamsOff
  <2>3. ASSUME NEW l \in Parts, NEW w \in Streams(l)
        PROVE  w \in Videos /\ Ahead("off", l, w) /\ w \in board.used
    <3>1. w \in Videos /\ Ahead("off", l, w)
      BY DEF Streams
    <3> QED
      BY <1>0, <3>1, LeftIs DEF Has
  <2>4. CASE k \notin Shared
    <3>1. tops' = tops
      BY <1>3, <2>4 DEF Off
    <3> QED
      BY <1>0, <2>2, <2>4, <3>1 DEF LightInv, TwoVideos
  <2>5. CASE k \in Shared
    <3>1. tops' \subseteq tops /\ tops \ Dark(k) \subseteq tops'
      BY <1>3, <2>5, TopOffIs
    <3>2. ASSUME TwoVideos, NEW l \in {"isp", "vipp", "vinc"}, Streams(l)' # {}  PROVE l \in tops'
      <4>1. CASE l # k
        <5>1. l \in tops
          BY <1>0, <2>2, <3>2, <4>1 DEF LightInv
        <5>2. l \notin Dark(k)
          BY <2>5, <4>1, DarkIs
        <5> QED
          BY <3>1, <5>1, <5>2
      <4>2. CASE l = k
        <5>1. Streams(k) \ {v} # {} /\ k \in tops
          BY <2>2, <3>2, <4>2 DEF LightInv
        <5>2. v = Logic
          <6> SUFFICES ASSUME v # Logic  PROVE FALSE
            OBVIOUS
          <6>1. PICK w \in Streams(k) : w # v
            BY <5>1
          <6>2. w \in Videos /\ Ahead("off", k, w) /\ w \in board.used /\ v \in board.used
            BY <2>1, <2>2, <2>3, <6>1 DEF Has
          <6>3. w = 0
            BY <1>0, <3>2, <6>1, <6>2 DEF TwoVideos
          <6>4. 0 < v /\ v \in 0 .. 3
            BY <1>0
          <6>5. At("off", k, w) < At("off", k, v)
            BY <1>0, <2>1, <6>3, <6>4, Order
          <6> QED
            BY <2>1, <2>2, <6>2, <6>5
        <5>3. tops' = tops
          BY <1>3, <2>5, <5>1, <5>2, TopOffIs
        <5> QED
          BY <4>2, <5>1, <5>3
      <4> QED
        BY <4>1, <4>2
    <3>3. ASSUME board.tdm, "isp" \in tops'  PROVE "tdm" \in tops'
      <4>1. "isp" \in tops /\ "tdm" \in tops
        BY <3>1, <3>3 DEF LightInv
      <4> SUFFICES ASSUME "tdm" \notin tops'  PROVE FALSE
        OBVIOUS
      <4>2. "tdm" \in Dark(k)
        BY <3>1, <4>1
      <4>3. k = IF board.online THEN "tdm" ELSE "isp"
        BY <2>5, <4>2, DarkIs
      <4>4. CASE board.online
        <5>1. PICK w \in Streams("isp") : TRUE
          BY <4>1 DEF DarkInv, KeptOn
        <5>2. w \in Videos /\ Ahead("off", "isp", w) /\ w \in board.used /\ v \in board.used
          BY <1>0, <2>2, <2>3, <5>1 DEF Has
        <5>3. w = v
          BY <1>0, <4>4, <5>2, UsedAre
        <5>4. At("off", "isp", w) < At("off", "tdm", v)
          BY <1>0, <5>3, Order
        <5> QED
          BY <1>0, <2>2, <4>3, <4>4, <5>2, <5>4
      <4>5. CASE ~ board.online
        <5>1. k = "isp" /\ "isp" \in Dark(k)
          BY <2>5, <4>3, <4>5, DarkIs
        <5> QED
          BY <1>3, <2>5, <3>3, <4>1, <5>1, TopOffIs
      <4> QED
        BY <4>4, <4>5
    <3>4. TwoVideos' => TwoVideos
      BY <2>2 DEF TwoVideos
    <3> QED
      BY <2>2, <3>2, <3>3, <3>4 DEF LightInv
  <2> QED
    BY <2>4, <2>5
<1> QED
  BY <1>1, <1>2, <1>3, QuietSteps

-----------------------------------------------------------------------------
(* The invariant.                                                          *)

LEMMA TodoStep ==
  ASSUME TypeOK, TodoInv, Next
  PROVE  TodoInv'
<1>0. Videos \subseteq 0 .. 3 /\ board \in Boards
  BY VideosFinite DEF TypeOK
<1>1. \A k \in Kinds : k \in Parts
  BY DEF Parts
<1>2. ASSUME NEW op \in Ops, NEW k \in Parts, NEW v \in Videos, Call(op, k, v)  PROVE TodoInv'
  BY <1>0, <1>2, CallStep
<1>3. ASSUME UNCHANGED <<board, todo>>  PROVE TodoInv'
  BY <1>3, NoCall
<1>4. ASSUME NEW k \in Kinds, NEW v \in Videos,
             Probe(k, v) \/ Release(k, v) \/ Configure(k, v) \/ Off(k, v)
      PROVE  TodoInv'
  BY <1>1, <1>2, <1>4 DEF Probe, Release, Configure, Off, Ops
<1>5. ASSUME NEW k \in Parts, NEW v \in Videos, On(k, v)  PROVE TodoInv'
  BY <1>2, <1>5 DEF On, Ops
<1>6. ASSUME NEW v \in Videos, ReleaseBeyond(v) \/ Wait(v) \/ Reset(v)  PROVE TodoInv'
  BY <1>2, <1>6 DEF ReleaseBeyond, Wait, Reset, Ops, Parts, Kinds
<1>7. ASSUME VinIsr  PROVE TodoInv'
  BY <1>3, <1>7 DEF VinIsr
<1>8. ASSUME NEW v \in Videos, Frame(v) \/ WorkBegin(v) \/ WorkEnd(v)  PROVE TodoInv'
  BY <1>3, <1>8 DEF Frame, WorkBegin, WorkEnd
<1> QED
  BY <1>4, <1>5, <1>6, <1>7, <1>8, StepIs

LEMMA InitInv == Init => IInv
<1> SUFFICES ASSUME Init  PROVE IInv
  OBVIOUS
<1>0. board \in Boards /\ todo = csi_init(board)
  BY DEF Init
<1>1. Due = Planned(board) /\ csi_init(board) \in Seq(Calls) /\ Rising(csi_init(board))
  BY <1>0, DueIs
<1>2. Left = Due
  BY <1>0 DEF Left, Due
<1>3. \A op \in Ops, k \in Parts, v \in 0 .. 3 : Ahead(op, k, v) <=> Has(op, k, v)
  BY <1>0, <1>2, DueIs DEF Ahead
<1>4. TypeOK
  <2>1. count \in [Channels -> Int] /\ logicCount \in [Shared -> Int]
    BY DEF Init
  <2> QED
    BY <2>1 DEF Init, TypeOK
<1>5. TodoInv
  BY <1>0, <1>1, <1>2 DEF TodoInv
<1>6. DeviceInv
  BY DEF Init, DeviceInv
<1>7. PathInv /\ DarkInv /\ StaleInv
  BY DEF Init, PathInv, DarkInv, StaleInv
<1>8. ASSUME NEW k \in Shared  PROVE Streams(k) = {}
  <2>1. ASSUME NEW v \in Videos, Ahead("off", k, v)  PROVE Ahead("on", k, v)
    <3>1. v \in 0 .. 3 /\ k \in Parts /\ "on" \in Ops /\ "off" \in Ops
      BY VideosFinite, SharedAre DEF Ops
    <3>2. Has("off", k, v)
      BY <1>3, <2>1, <3>1
    <3>3. Has("on", k, v)
      BY <3>2 DEF Has, KindsFor, Shared
    <3> QED
      BY <1>3, <3>1, <3>3
  <2> QED
    BY <2>1 DEF Streams
<1>9. CountInv
  <2>1. \A k \in Shared, v \in Videos : count[<<k, v>>] = 0
    BY SharedAre DEF Init, Channels
  <2>2. \A k \in Shared : logicCount[k] = 0
    BY DEF Init
  <2>3. Cardinality({}) = 0
    BY FS_EmptySet
  <2> QED
    BY <1>8, <2>1, <2>2, <2>3 DEF CountInv
<1>10. LightInv
  <2>1. \A k \in {"isp", "vipp", "vinc"} : Streams(k) = {}
    BY <1>8 DEF Shared
  <2>2. "isp" \notin tops
    BY DEF Init
  <2>3. ASSUME board.tdm, NEW v \in board.used  PROVE Ahead("on", "tdm", v)
    <3>1. v \in 0 .. 3 /\ "on" \in Ops /\ "tdm" \in Parts
      BY <1>0, UsedAre DEF Ops, Parts, Kinds
    <3>2. Has("on", "tdm", v)
      BY <2>3 DEF Has, KindsFor, TdmKinds
    <3> QED
      BY <1>3, <3>1, <3>2
  <2> QED
    BY <2>1, <2>2, <2>3 DEF LightInv
<1> QED
  BY <1>4, <1>5, <1>6, <1>7, <1>9, <1>10 DEF IInv

LEMMA NextInv == IInv /\ [Next]_vars => IInv'
<1> SUFFICES ASSUME IInv, [Next]_vars  PROVE IInv'
  OBVIOUS
<1>1. TypeOK /\ TodoInv /\ DeviceInv /\ PathInv /\ CountInv /\ DarkInv /\ LightInv /\ StaleInv
  BY DEF IInv
<1>2. CASE Next
  <2>1. TypeOK' /\ DeviceInv' /\ StaleInv' /\ PathInv' /\ CountInv' /\ DarkInv' /\ LightInv'
    BY <1>1, <1>2, TypeStep, DeviceStep, StaleStep, PathStep, CountStep, DarkStep, LightStep
  <2>2. TodoInv'
    BY <1>1, <1>2, TodoStep
  <2> QED
    BY <2>1, <2>2 DEF IInv
<1>3. CASE UNCHANGED vars
  <2>1. /\ UNCHANGED <<board, todo, mem, flag, count, logicCount, stale>>
        /\ UNCHANGED <<path, tops, handlers, dmaStatus>>
    BY <1>3 DEF vars, memory, hardware, dma
  <2>2. /\ Left' = Left /\ Due' = Due /\ TodoInv'
    BY <1>1, <2>1, NoCall
  <2>3. TypeOK' /\ StaleInv'
    BY <1>1, <2>1 DEF TypeOK, StaleInv
  <2>4. DeviceInv'
    BY <1>1, <2>1, <2>2 DEF DeviceInv
  <2>5. PathInv'
    BY <1>1, <2>1, <2>2 DEF PathInv, Ahead
  <2>6. CountInv'
    BY <1>1, <2>1, <2>2 DEF CountInv, Ahead, Streams
  <2>7. DarkInv'
    BY <1>1, <2>1, <2>2 DEF DarkInv, KeptOn, Ahead, Streams
  <2>8. LightInv'
    BY <1>1, <2>1, <2>2 DEF LightInv, TwoVideos, Ahead, Streams
  <2> QED
    BY <2>2, <2>3, <2>4, <2>5, <2>6, <2>7, <2>8 DEF IInv
<1> QED
  BY <1>2, <1>3

\* On any board the shared parts and their counters follow what csi_init has
\* still to call: the invariant of the pipeline.
THEOREM PipelineInvariant == Spec => []IInv
  BY InitInv, NextInv, PTL DEF Spec

\* On any board no handler is installed for a device that is not there, and
\* a freed device is read by csi_init only, to stop a video other than the
\* first, and it is then the device they share.
THEOREM FreedStaysIdle == Spec => []FreedIsIdle
<1>1. IInv => FreedIsIdle
  <2> SUFFICES ASSUME IInv  PROVE FreedIsIdle
    OBVIOUS
  <2>1. \A d \in handlers : mem[d] = "live"
    BY DEF IInv, TypeOK, DeviceInv
  <2> QED
    BY <2>1 DEF IInv, StaleInv, FreedIsIdle
<1> QED
  BY <1>1, PipelineInvariant, PTL

\* On any board csi_init leaves nothing installed or allocated but the ISPs,
\* and nothing on that it should have switched off.
THEOREM ShutDown == Spec => []ShutDownComplete
<1>1. IInv => ShutDownComplete
  <2> SUFFICES ASSUME IInv, todo = <<>>  PROVE ShutDownComplete
    BY DEF ShutDownComplete
  <2>1. \A op, k, v : ~ Ahead(op, k, v)
    <3>1. Left = {}
      BY DEF Left, CallsOf
    <3> QED
      BY <3>1 DEF Ahead
  <2>2. handlers = {} /\ \A d \in Devs : mem[d] = "live" => d[1] = "isp"
    <3>1. \A d \in Devs : (d \in handlers => FALSE) /\ (mem[d] = "live" => d[1] = "isp")
      BY <2>1 DEF IInv, DeviceInv, Ahead
    <3> QED
      BY <3>1 DEF IInv, TypeOK
  <2>3. \A k : ~ KeptOn(k)
    BY <2>1 DEF KeptOn, Streams
  <2>4. tops \cap {"isp", "tdm"} = {} /\ (stale = {} => tops = {})
    BY <2>3 DEF IInv, DarkInv
  <2>5. stale = {} => \A c \in path : c[1] \in {"mipi", "sensor"}
    BY <2>1 DEF IInv, PathInv
  <2> QED
    BY <2>2, <2>4, <2>5 DEF ShutDownComplete
<1> QED
  BY <1>1, PipelineInvariant, PTL

\* On any board of one or two videos, stopping one never takes a shared part
\* from the other, and the TDM outlasts the ISP. With three videos it would:
\* a counter of a freed device may say anything.
THEOREM TopsFollow ==
  ASSUME \A b \in Boards : \E v \in 0 .. 3 : b.used \subseteq {Logic, v}
  PROVE  Spec => []TopsFollowStreams
<1>1. IInv => TopsFollowStreams
  <2> SUFFICES ASSUME IInv  PROVE TopsFollowStreams
    OBVIOUS
  <2>0. TypeOK /\ TodoInv /\ PathInv /\ LightInv /\ board \in Boards /\ TwoVideos
    BY DEF IInv, TypeOK, TwoVideos
  <2>1. ASSUME NEW v \in Videos, NEW k \in {"isp", "vipp", "vinc"}, <<k, v>> \in path,
               NEW l \in Upstream(k)
        PROVE  l \in tops
    <3>1. /\ v \in 0 .. 3 /\ k \in Parts /\ l \in Parts /\ l \in {"isp", "vipp", "vinc"}
          /\ "on" \in Ops /\ "off" \in Ops
      BY VideosFinite DEF Parts, Kinds, Ops, Upstream
    <3>2. ~ Ahead("on", k, v) /\ Ahead("off", k, v)
      BY <2>0, <2>1 DEF PathInv
    <3>3. Has("off", k, v)
      BY <2>0, <3>1, <3>2, LeftIs
    <3>4. /\ Has("off", l, v) /\ Has("on", k, v)
      BY <3>1, <3>3 DEF Has, KindsFor
    <3>5. l # k => At("off", k, v) < At("off", l, v) /\ At("on", l, v) < At("on", k, v)
      <4>1. /\ At("off", "vinc", v) < At("off", "vipp", v) /\ At("off", "vipp", v) < At("off", "isp", v)
            /\ At("on", "isp", v) < At("on", "vipp", v) /\ At("on", "vipp", v) < At("on", "vinc", v)
        BY <3>1, Order
      <4>2. \A m \in {"isp", "vipp", "vinc"} : At("off", m, v) \in Nat /\ At("on", m, v) \in Nat
        <5>1. \A m \in {"isp", "vipp", "vinc"} : m \in Parts
          BY DEF Parts, Kinds
        <5> QED
          BY <3>1, <5>1, Order
      <4> QED
        BY <2>1, <4>1, <4>2 DEF Upstream
    <3>6. Ahead("off", l, v)
      BY <2>0, <3>1, <3>2, <3>4, <3>5, LeftIs
    <3>7. ~ Ahead("on", l, v)
      BY <2>0, <3>1, <3>2, <3>4, <3>5, LeftIs
    <3>8. v \in Streams(l)
      BY <3>6, <3>7 DEF Streams
    <3> QED
      BY <2>0, <3>1, <3>8 DEF LightInv
  <2>2. board.tdm /\ "isp" \in tops => "tdm" \in tops
    BY <2>0 DEF LightInv
  <2> QED
    BY <2>1, <2>2 DEF TopsFollowStreams
<1> QED
  BY <1>1, PipelineInvariant, PTL

=============================================================================
