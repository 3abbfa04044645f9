--------------------------- MODULE Packets_proofs ---------------------------
(***************************************************************************)
(* Theorems about Packets.                                                 *)
(*                                                                         *)
(* Buffers, and what is expected of them, are concatenations of one piece  *)
(* per packet (FlattenSeq), so the first part is about those: an induction *)
(* over the number of pieces, by a least counterexample.                   *)
(***************************************************************************)
EXTENDS Packets, WellFoundedInduction, SequenceTheorems, TLAPS

-----------------------------------------------------------------------------
(* Induction                                                               *)

Below == OpToRel(<, Nat)

LEMMA BelowIs == \A m, n \in Nat : m < n => <<m, n>> \in Below
BY DEF Below, OpToRel

LEMMA BelowWF == IsWellFoundedOn(Below, Nat)
BY NatLessThanWellFounded DEF Below

LEMMA SetInduction ==
    ASSUME NEW S, 0 \in S, \A n \in Nat : n \in S => n + 1 \in S
    PROVE  Nat \subseteq S
<1> DEFINE T == Nat \ S
<1> SUFFICES ASSUME T # {} PROVE FALSE
  OBVIOUS
<1>1. PICK x \in T : \A y \in T : <<y, x>> \notin Below
  BY BelowWF, WFMin
<1>2. x # 0
  OBVIOUS
<1>3. x - 1 \in Nat /\ x - 1 < x /\ (x - 1) + 1 = x
  BY <1>2
<1>4. x - 1 \notin T
  BY <1>1, <1>3, BelowIs
<1> QED BY <1>3, <1>4

LEMMA SeqInduction ==
    ASSUME NEW X, NEW S, <<>> \in S,
           \A s \in Seq(X), e \in X : s \in S => Append(s, e) \in S
    PROVE  Seq(X) \subseteq S
<1> DEFINE N == {n \in Nat : \A s \in Seq(X) : Len(s) = n => s \in S}
<1>1. 0 \in N
  OBVIOUS
<1>2. ASSUME NEW n \in Nat, n \in N
      PROVE  n + 1 \in N
  <2> SUFFICES ASSUME NEW s \in Seq(X), Len(s) = n + 1
               PROVE  s \in S
    OBVIOUS
  <2> DEFINE front == SubSeq(s, 1, n)
  <2>1. front \in Seq(X) /\ Len(front) = n /\ s[n + 1] \in X /\ s = Append(front, s[n + 1])
    OBVIOUS
  <2>2. front \in S
    BY <1>2, <2>1
  <2> HIDE DEF front
  <2> QED BY <2>1, <2>2
<1> HIDE DEF N
<1>3. Nat \subseteq N
  BY <1>1, <1>2, SetInduction
<1> QED BY <1>3 DEF N

IsFlatten(f, s, n) == f = [i \in 1..n |-> IF i = 1 THEN s[i] ELSE f[i - 1] \o s[i]]

LEMMA FlattenExists ==
    ASSUME NEW s, NEW n \in Nat
    PROVE  \E f : IsFlatten(f, s, n)
<1> DEFINE S == {k \in Nat : \E f : IsFlatten(f, s, k)}
<1>1. 0 \in S
  <2> DEFINE f == [i \in 1..0 |-> s[i]]
  <2>1. IsFlatten(f, s, 0)
    BY DEF IsFlatten
  <2> QED BY <2>1
<1>2. ASSUME NEW k \in Nat, k \in S
      PROVE  k + 1 \in S
  <2>1. PICK f : IsFlatten(f, s, k)
    BY <1>2
  <2> DEFINE g == [i \in 1..(k + 1) |-> IF i \in 1..k THEN f[i] ELSE IF i = 1 THEN s[i] ELSE f[k] \o s[i]]
  <2>2. ASSUME NEW i \in 1..(k + 1)
        PROVE  g[i] = IF i = 1 THEN s[i] ELSE g[i - 1] \o s[i]
    <3>1. CASE i \in 1..k
      <4>1. f[i] = IF i = 1 THEN s[i] ELSE f[i - 1] \o s[i]
        BY <2>1, <3>1 DEF IsFlatten
      <4>2. i # 1 => i - 1 \in 1..k /\ i - 1 \in 1..(k + 1)
        BY <3>1
      <4> QED BY <3>1, <4>1, <4>2
    <3>2. CASE i = k + 1
      <4>1. i \notin 1..k
        BY <3>2
      <4>2. i # 1 => i - 1 = k /\ k \in 1..k /\ k \in 1..(k + 1)
        BY <3>2
      <4> QED BY <3>2, <4>1, <4>2
    <3> QED BY <3>1, <3>2
  <2>3. IsFlatten(g, s, k + 1)
    <3> HIDE DEF g
    <3>1. g = [i \in 1..(k + 1) |-> g[i]]
      BY DEF g
    <3> QED BY <2>2, <3>1 DEF IsFlatten
  <2> QED BY <2>3
<1> HIDE DEF S
<1>3. Nat \subseteq S
  BY <1>1, <1>2, SetInduction
<1> QED BY <1>3 DEF S

LEMMA FlattenUnique ==
    ASSUME NEW s, NEW m \in Nat, NEW n \in Nat, m <= n,
           NEW f, NEW g, IsFlatten(f, s, m), IsFlatten(g, s, n)
    PROVE  \A i \in 1..m : f[i] = g[i]
<1> DEFINE S == {k \in Nat : k \in 1..m => f[k] = g[k]}
<1>1. 0 \in S
  OBVIOUS
<1>2. ASSUME NEW k \in Nat, k \in S
      PROVE  k + 1 \in S
  <2> SUFFICES ASSUME k + 1 \in 1..m
               PROVE  f[k + 1] = g[k + 1]
    OBVIOUS
  <2>1. k + 1 \in 1..n /\ (k + 1) - 1 = k
    OBVIOUS
  <2>2. f[k + 1] = IF k + 1 = 1 THEN s[k + 1] ELSE f[k] \o s[k + 1]
    BY <2>1 DEF IsFlatten
  <2>3. g[k + 1] = IF k + 1 = 1 THEN s[k + 1] ELSE g[k] \o s[k + 1]
    BY <2>1 DEF IsFlatten
  <2>4. k + 1 # 1 => f[k] = g[k]
    BY <1>2
  <2> QED BY <2>2, <2>3, <2>4
<1> HIDE DEF S
<1>3. Nat \subseteq S
  BY <1>1, <1>2, SetInduction
<1> QED BY <1>3 DEF S

LEMMA FlattenSeqIs ==
    ASSUME NEW s, Len(s) \in Nat \ {0}
    PROVE  \E f : IsFlatten(f, s, Len(s)) /\ FlattenSeq(s) = f[Len(s)]
<1> DEFINE f == CHOOSE f : IsFlatten(f, s, Len(s))
<1>1. IsFlatten(f, s, Len(s))
  BY FlattenExists
<1>2. FlattenSeq(s) = f[Len(s)]
  BY DEF FlattenSeq, IsFlatten
<1> QED BY <1>1, <1>2

LEMMA FlattenEmpty == FlattenSeq(<<>>) = <<>>
BY DEF FlattenSeq

LEMMA FlattenAppend ==
    ASSUME NEW T, NEW s \in Seq(Seq(T)), NEW e \in Seq(T)
    PROVE  FlattenSeq(Append(s, e)) = FlattenSeq(s) \o e
<1> DEFINE t == Append(s, e)
           n == Len(s)
<1>1. /\ n \in Nat /\ Len(t) = n + 1
      /\ \A i \in 1..n : t[i] = s[i]
      /\ t[n + 1] = e
  OBVIOUS
<1>2. PICK g : IsFlatten(g, t, n + 1) /\ FlattenSeq(t) = g[n + 1]
  <2>1. Len(t) \in Nat \ {0}
    BY <1>1
  <2>2. \E g : IsFlatten(g, t, Len(t)) /\ FlattenSeq(t) = g[Len(t)]
    <3> HIDE DEF t, n
    <3> QED BY <2>1, FlattenSeqIs
  <2> QED BY <1>1, <2>2
<1>3. CASE n = 0
  <2>1. s = <<>>
    BY <1>3
  <2>2. g[1] = t[1]
    BY <1>2, <1>3 DEF IsFlatten
  <2> QED BY <1>1, <1>2, <1>3, <2>1, <2>2, FlattenEmpty
<1>4. CASE n # 0
  <2>1. PICK f : IsFlatten(f, s, n) /\ FlattenSeq(s) = f[n]
    BY <1>1, <1>4, FlattenSeqIs
  <2>2. IsFlatten(f, t, n)
    BY <2>1, <1>1 DEF IsFlatten
  <2>3. f[n] = g[n]
    <3> HIDE DEF n, t
    <3> QED BY <1>1, <1>2, <1>4, <2>2, FlattenUnique
  <2>4. g[n + 1] = g[n] \o t[n + 1]
    <3>1. n + 1 \in 1..(n + 1) /\ (n + 1) - 1 = n /\ n + 1 # 1
      BY <1>1, <1>4
    <3> HIDE DEF n, t
    <3> QED BY <1>2, <3>1 DEF IsFlatten
  <2> QED BY <1>1, <1>2, <2>1, <2>3, <2>4
<1> QED BY <1>3, <1>4

LEMMA FlattenType ==
    ASSUME NEW T, NEW s \in Seq(Seq(T))
    PROVE  FlattenSeq(s) \in Seq(T)
<1> DEFINE S == {k \in Nat : k \in 0..Len(s) => FlattenSeq(SubSeq(s, 1, k)) \in Seq(T)}
<1>1. 0 \in S
  <2>1. SubSeq(s, 1, 0) = <<>>
    OBVIOUS
  <2>2. FlattenSeq(SubSeq(s, 1, 0)) = <<>>
    BY <2>1, FlattenEmpty, Zenon
  <2>3. <<>> \in Seq(T)
    OBVIOUS
  <2>4. FlattenSeq(SubSeq(s, 1, 0)) \in Seq(T)
    BY <2>2, <2>3, Zenon
  <2> QED BY <2>4
<1>2. ASSUME NEW k \in Nat, k \in S
      PROVE  k + 1 \in S
  <2> SUFFICES ASSUME k + 1 \in 0..Len(s)
               PROVE  FlattenSeq(SubSeq(s, 1, k + 1)) \in Seq(T)
    OBVIOUS
  <2>1. /\ SubSeq(s, 1, k) \in Seq(Seq(T)) /\ s[k + 1] \in Seq(T)
        /\ SubSeq(s, 1, k + 1) = Append(SubSeq(s, 1, k), s[k + 1])
    OBVIOUS
  <2>2. FlattenSeq(SubSeq(s, 1, k)) \in Seq(T)
    BY <1>2
  <2>3. FlattenSeq(Append(SubSeq(s, 1, k), s[k + 1])) = FlattenSeq(SubSeq(s, 1, k)) \o s[k + 1]
    BY <2>1, FlattenAppend
  <2>4. FlattenSeq(SubSeq(s, 1, k)) \o s[k + 1] \in Seq(T)
    BY <2>1, <2>2
  <2> QED BY <2>1, <2>3, <2>4, Zenon
<1> HIDE DEF S
<1>3. Nat \subseteq S
  BY <1>1, <1>2, SetInduction
<1>4. Len(s) \in Nat /\ SubSeq(s, 1, Len(s)) = s
  OBVIOUS
<1>5. FlattenSeq(SubSeq(s, 1, Len(s))) \in Seq(T)
  BY <1>3, <1>4 DEF S
<1> QED BY <1>4, <1>5, Zenon

\* Flattening two sequences one behind the other.
LEMMA FlattenConcat ==
    ASSUME NEW T, NEW s \in Seq(Seq(T)), NEW t \in Seq(Seq(T))
    PROVE  FlattenSeq(s \o t) = FlattenSeq(s) \o FlattenSeq(t)
<1> DEFINE S == {u \in Seq(Seq(T)) : FlattenSeq(s \o u) = FlattenSeq(s) \o FlattenSeq(u)}
<1>0. FlattenSeq(s) \in Seq(T)
  BY FlattenType, Zenon
<1>1. <<>> \in S
  <2>1. s \o <<>> = s /\ <<>> \in Seq(Seq(T))
    OBVIOUS
  <2>2. FlattenSeq(s) \o <<>> = FlattenSeq(s)
    BY <1>0
  <2> QED BY <2>1, <2>2, FlattenEmpty, Zenon
<1>2. ASSUME NEW u \in Seq(Seq(T)), NEW e \in Seq(T), u \in S
      PROVE  Append(u, e) \in S
  <2>1. Append(u, e) \in Seq(Seq(T)) /\ s \o u \in Seq(Seq(T))
    OBVIOUS
  <2>2. s \o Append(u, e) = Append(s \o u, e)
    OBVIOUS
  <2>3. FlattenSeq(Append(s \o u, e)) = FlattenSeq(s \o u) \o e
    BY <2>1, FlattenAppend, Zenon
  <2>4. FlattenSeq(Append(u, e)) = FlattenSeq(u) \o e
    BY FlattenAppend, Zenon
  <2>5. FlattenSeq(u) \in Seq(T)
    BY FlattenType, Zenon
  <2>6. (FlattenSeq(s) \o FlattenSeq(u)) \o e = FlattenSeq(s) \o (FlattenSeq(u) \o e)
    <3>1. \A a, b, c \in Seq(T) : (a \o b) \o c = a \o (b \o c)
      OBVIOUS
    <3> QED BY <1>0, <2>5, <3>1, Zenon
  <2>7. FlattenSeq(s \o u) = FlattenSeq(s) \o FlattenSeq(u)
    BY <1>2, Zenon
  <2>8. FlattenSeq(s \o Append(u, e)) = FlattenSeq(s) \o FlattenSeq(Append(u, e))
    BY <2>2, <2>3, <2>4, <2>6, <2>7, Zenon
  <2> QED BY <2>1, <2>8, Zenon
<1> HIDE DEF S
<1>3. Seq(Seq(T)) \subseteq S
  BY <1>1, <1>2, SeqInduction, Zenon
<1> QED BY <1>3 DEF S

-----------------------------------------------------------------------------
(* A piece for each element                                                *)

MapOver(f, s) == [i \in DOMAIN s |-> f[s[i]]]
FlatMap(f, s) == FlattenSeq(MapOver(f, s))

LEMMA FunctionIsSeq ==
    ASSUME NEW X, NEW n \in Nat, NEW g \in [1..n -> X]
    PROVE  g \in Seq(X) /\ Len(g) = n /\ DOMAIN g = 1..n
<1>1. g \in Seq(X)
  BY SeqDef
<1>2. DOMAIN g = 1..Len(g) /\ Len(g) \in Nat /\ DOMAIN g = 1..n
  BY <1>1, LenProperties
<1> QED BY <1>1, <1>2

LEMMA MapOverType ==
    ASSUME NEW A, NEW B, NEW f, NEW s \in Seq(A), \A a \in A : f[a] \in B
    PROVE  MapOver(f, s) \in Seq(B)
<1>1. Len(s) \in Nat /\ DOMAIN s = 1..Len(s) /\ \A i \in 1..Len(s) : s[i] \in A
  OBVIOUS
<1>2. MapOver(f, s) \in [1..Len(s) -> B]
  BY <1>1 DEF MapOver
<1> QED BY <1>1, <1>2, FunctionIsSeq

LEMMA MapOverLen ==
    ASSUME NEW A, NEW f, NEW s \in Seq(A)
    PROVE  Len(MapOver(f, s)) = Len(s)
<1>1. Len(s) \in Nat /\ DOMAIN s = 1..Len(s)
  OBVIOUS
<1>2. MapOver(f, s) \in [1..Len(s) -> {f[s[i]] : i \in 1..Len(s)}]
  BY <1>1 DEF MapOver
<1> QED BY <1>1, <1>2, FunctionIsSeq

LEMMA MapOverConcat ==
    ASSUME NEW A, NEW f, NEW s \in Seq(A), NEW t \in Seq(A)
    PROVE  MapOver(f, s \o t) = MapOver(f, s) \o MapOver(f, t)
<1> DEFINE st == s \o t
<1>1. st \in Seq(A) /\ Len(st) = Len(s) + Len(t) /\ Len(s) \in Nat /\ Len(t) \in Nat
  OBVIOUS
<1>2. \A i \in 1..Len(s) : st[i] = s[i]
  OBVIOUS
<1>3. \A i \in 1..Len(t) : st[Len(s) + i] = t[i]
  OBVIOUS
<1> DEFINE B   == {f[a] : a \in A}
           fs  == MapOver(f, s)
           ft  == MapOver(f, t)
           fst == MapOver(f, st)
<1>0. \A a \in A : f[a] \in B
  OBVIOUS
<1> HIDE DEF st, B
<1>4. fs \in Seq(B) /\ ft \in Seq(B) /\ fst \in Seq(B)
  BY <1>0, <1>1, MapOverType
<1>5. Len(fs) = Len(s) /\ Len(ft) = Len(t) /\ Len(fst) = Len(s) + Len(t)
  BY <1>1, MapOverLen, SMT
<1>6. \A i \in 1..Len(s) : fst[i] = f[s[i]] /\ fs[i] = f[s[i]]
  <2> SUFFICES ASSUME NEW i \in 1..Len(s)
               PROVE  fst[i] = f[s[i]] /\ fs[i] = f[s[i]]
    OBVIOUS
  <2>1. i \in DOMAIN st /\ i \in DOMAIN s
    BY <1>1
  <2>2. fst[i] = f[st[i]]
    BY <2>1 DEF MapOver
  <2>3. fs[i] = f[s[i]]
    BY <2>1 DEF MapOver
  <2> QED BY <1>2, <2>2, <2>3
<1>7. \A i \in 1..Len(t) : fst[Len(s) + i] = f[t[i]] /\ ft[i] = f[t[i]]
  <2> SUFFICES ASSUME NEW i \in 1..Len(t)
               PROVE  fst[Len(s) + i] = f[t[i]] /\ ft[i] = f[t[i]]
    OBVIOUS
  <2>1. Len(s) + i \in DOMAIN st /\ i \in DOMAIN t
    BY <1>1
  <2>2. fst[Len(s) + i] = f[st[Len(s) + i]]
    BY <2>1 DEF MapOver
  <2>3. ft[i] = f[t[i]]
    BY <2>1 DEF MapOver
  <2> QED BY <1>3, <2>2, <2>3
<1> HIDE DEF fs, ft, fst
<1>8. fst = fs \o ft
  <2>1. fs \o ft \in Seq(B) /\ Len(fs \o ft) = Len(fst)
    <3>1. fs \o ft \in Seq(B) /\ Len(fs \o ft) = Len(fs) + Len(ft)
      BY <1>4
    <3> QED BY <1>5, <3>1
  <2>2. ASSUME NEW i \in 1..Len(fst)
        PROVE  fst[i] = (fs \o ft)[i]
    <3>1. CASE i \in 1..Len(s)
      BY <1>1, <1>4, <1>5, <1>6, <3>1
    <3>2. CASE i \notin 1..Len(s)
      <4>1. i - Len(s) \in 1..Len(t) /\ i = Len(s) + (i - Len(s))
        BY <1>1, <1>5, <3>2
      <4>2. (fs \o ft)[i] = ft[i - Len(s)]
        BY <1>1, <1>4, <1>5, <4>1
      <4>3. fst[Len(s) + (i - Len(s))] = f[t[i - Len(s)]] /\ ft[i - Len(s)] = f[t[i - Len(s)]]
        BY <1>7, <4>1
      <4> QED BY <4>1, <4>2, <4>3
    <3> QED BY <3>1, <3>2
  <2> QED BY <1>4, <2>1, <2>2, SeqEqual
<1> QED BY <1>8 DEF fs, ft, fst, st

LEMMA FlatMapType ==
    ASSUME NEW A, NEW T, NEW f \in [A -> Seq(T)], NEW s \in Seq(A)
    PROVE  FlatMap(f, s) \in Seq(T)
BY MapOverType, FlattenType DEF FlatMap

LEMMA FlatMapEmpty ==
    ASSUME NEW f
    PROVE  FlatMap(f, <<>>) = <<>>
<1>1. MapOver(f, <<>>) = <<>>
  BY DEF MapOver
<1> QED BY <1>1, FlattenEmpty, Zenon DEF FlatMap

LEMMA FlatMapConcat ==
    ASSUME NEW A, NEW T, NEW f \in [A -> Seq(T)], NEW s \in Seq(A), NEW t \in Seq(A)
    PROVE  FlatMap(f, s \o t) = FlatMap(f, s) \o FlatMap(f, t)
<1> DEFINE fs == MapOver(f, s)
           ft == MapOver(f, t)
<1>1. fs \in Seq(Seq(T)) /\ ft \in Seq(Seq(T))
  BY MapOverType
<1>2. MapOver(f, s \o t) = fs \o ft
  BY MapOverConcat, SMT
<1> HIDE DEF fs, ft
<1>3. FlattenSeq(fs \o ft) = FlattenSeq(fs) \o FlattenSeq(ft)
  BY <1>1, FlattenConcat
<1> QED BY <1>2, <1>3, Zenon DEF FlatMap, fs, ft

LEMMA FlatMapOne ==
    ASSUME NEW A, NEW T, NEW f \in [A -> Seq(T)], NEW a \in A
    PROVE  FlatMap(f, <<a>>) = f[a]
<1>1. MapOver(f, <<a>>) = Append(<<>>, f[a])
  BY DEF MapOver
<1>2. f[a] \in Seq(T) /\ <<>> \o f[a] = f[a]
  OBVIOUS
<1>3. <<>> \in Seq(Seq(T))
  OBVIOUS
<1>4. FlattenSeq(Append(<<>>, f[a])) = FlattenSeq(<<>>) \o f[a]
  BY <1>2, <1>3, FlattenAppend
<1> QED BY <1>1, <1>2, <1>4, FlattenEmpty, Zenon DEF FlatMap

-----------------------------------------------------------------------------
(* Packets in a buffer                                                     *)

Headers == [totalSize : Nat,
            version   : {"NormalNone", "HeartBeatNone", "NormalZlib", "NormalBrotli", "unknown"},
            operation : {"SEND_MSG_REPLY", "HEARTBEAT_REPLY"}]
Bytes == {Byte(c) : c \in STRING \cup {"{", "}"}}
Cells == Headers \cup Bytes \cup PacketsOfServer

LEMMA Pair ==
    ASSUME NEW a, NEW b
    PROVE  <<a>> \o <<b>> = <<a, b>>
<1> DEFINE X == {a, b}
           l == <<a>> \o <<b>>
           r == <<a, b>>
<1>1. <<a>> \in Seq(X) /\ <<b>> \in Seq(X) /\ r \in Seq(X)
  OBVIOUS
<1>2. l \in Seq(X) /\ Len(l) = Len(r) /\ Len(r) = 2
  BY <1>1
<1>3. l[1] = r[1] /\ l[2] = r[2]
  OBVIOUS
<1> HIDE DEF l, r, X
<1>4. l = r
  BY <1>1, <1>2, <1>3, SeqEqual
<1> QED BY <1>4 DEF l, r

\* A packet that is no heartbeat reply is a header and one cell for its body.
VersionOf == [plain |-> "NormalNone", zlib |-> "NormalZlib", brotli |-> "NormalBrotli", other |-> "unknown"]
SizeOf(p) == IF p.kind = "other" /\ ~p.sized THEN 0 ELSE 2
HeaderOf(p) == [totalSize |-> SizeOf(p), version |-> VersionOf[p.kind], operation |-> "SEND_MSG_REPLY"]

LEMMA EncodeBody ==
    ASSUME NEW p \in PacketsOfServer, p.kind # "heartbeat"
    PROVE  /\ p.kind \in {"plain", "zlib", "brotli", "other"}
           /\ Encode(p) = <<HeaderOf(p), p>>
<1>1. p.kind \in {"plain", "zlib", "brotli", "other"}
  BY DEF PacketsOfServer, InnerPackets
<1>2. ASSUME NEW version, Encode(p) = MakePack(<<p>>, version, "SEND_MSG_REPLY"),
             VersionOf[p.kind] = version, p.kind # "other"
      PROVE  Encode(p) = <<HeaderOf(p), p>>
  <2>1. HeaderSize + Len(<<p>>) = 2 /\ SizeOf(p) = 2
    BY <1>2 DEF HeaderSize, SizeOf
  <2>2. HeaderOf(p) = [totalSize |-> HeaderSize + Len(<<p>>), version |-> version, operation |-> "SEND_MSG_REPLY"]
    BY <1>2, <2>1 DEF HeaderOf
  <2>3. Encode(p) = <<HeaderOf(p)>> \o <<p>>
    BY <1>2, <2>2, Zenon DEF MakePack
  <2> QED BY <2>3, Pair, Zenon
<1>3. Encode(p) = <<HeaderOf(p), p>>
  <2>1. CASE p.kind = "plain"
    <3>1. Encode(p) = MakePack(<<p>>, "NormalNone", "SEND_MSG_REPLY")
      BY <2>1 DEF Encode
    <3> QED BY <1>2, <2>1, <3>1 DEF VersionOf
  <2>2. CASE p.kind = "zlib"
    <3>1. Encode(p) = MakePack(<<p>>, "NormalZlib", "SEND_MSG_REPLY")
      BY <2>2 DEF Encode
    <3> QED BY <1>2, <2>2, <3>1 DEF VersionOf
  <2>3. CASE p.kind = "brotli"
    <3>1. Encode(p) = MakePack(<<p>>, "NormalBrotli", "SEND_MSG_REPLY")
      BY <2>3 DEF Encode
    <3> QED BY <1>2, <2>3, <3>1 DEF VersionOf
  <2>4. CASE p.kind = "other"
    <3>1. SizeOf(p) = IF p.sized THEN HeaderSize + 1 ELSE 0
      BY <2>4 DEF SizeOf, HeaderSize
    <3>2. VersionOf[p.kind] = "unknown"
      BY <2>4 DEF VersionOf
    <3>3. Encode(p) = <<[totalSize |-> IF p.sized THEN HeaderSize + 1 ELSE 0,
                         version |-> "unknown", operation |-> "SEND_MSG_REPLY"], p>>
      BY <2>4 DEF Encode
    <3> QED BY <3>1, <3>2, <3>3, Zenon DEF HeaderOf
  <2> QED BY <1>1, <2>1, <2>2, <2>3, <2>4
<1> QED BY <1>1, <1>3

LEMMA HeaderIsCell ==
    ASSUME NEW p \in PacketsOfServer, p.kind # "heartbeat"
    PROVE  HeaderOf(p) \in Cells
<1>1. p.kind \in {"plain", "zlib", "brotli", "other"}
  BY EncodeBody
<1>2. VersionOf[p.kind] \in {"NormalNone", "NormalZlib", "NormalBrotli", "unknown"}
  BY <1>1 DEF VersionOf
<1>3. SizeOf(p) \in Nat
  BY DEF SizeOf
<1> QED BY <1>2, <1>3 DEF HeaderOf, Cells, Headers

\* The reply to a heartbeat: the header, the popularity and the echo.
HeartbeatHeader(n) == [totalSize |-> HeaderSize + n, version |-> "HeartBeatNone", operation |-> "HEARTBEAT_REPLY"]
Spelt(popularity) == [i \in DOMAIN popularity |-> Byte(popularity[i])]

LEMMA SpeltIs ==
    ASSUME NEW s \in Seq(STRING)
    PROVE  /\ Spelt(s) \in Seq(Bytes)
           /\ Len(Spelt(s)) = Len(s)
           /\ \A i \in 1..Len(s) : Spelt(s)[i] = Byte(s[i])
<1>1. Len(s) \in Nat /\ DOMAIN s = 1..Len(s) /\ \A i \in 1..Len(s) : s[i] \in STRING
  OBVIOUS
<1>2. Spelt(s) \in [1..Len(s) -> Bytes]
  BY <1>1 DEF Spelt, Bytes
<1>3. \A i \in 1..Len(s) : Spelt(s)[i] = Byte(s[i])
  BY <1>1 DEF Spelt
<1> QED BY <1>1, <1>2, <1>3, FunctionIsSeq

LEMMA Wrapped ==
    ASSUME NEW T, NEW h \in T, NEW b \in Seq(T), NEW x \in T, NEW y \in T
    PROVE  /\ (<<h>> \o b) \o <<x, y>> \in Seq(T)
           /\ Len((<<h>> \o b) \o <<x, y>>) = Len(b) + 3
           /\ ((<<h>> \o b) \o <<x, y>>)[1] = h
           /\ \A j \in 1..Len(b) : ((<<h>> \o b) \o <<x, y>>)[j + 1] = b[j]
           /\ ((<<h>> \o b) \o <<x, y>>)[Len(b) + 2] = x
           /\ ((<<h>> \o b) \o <<x, y>>)[Len(b) + 3] = y
<1>1. <<h>> \in Seq(T) /\ <<x, y>> \in Seq(T)
  OBVIOUS
<1> QED BY <1>1

LEMMA EncodeHeartbeat ==
    ASSUME NEW p \in PacketsOfServer, p.kind = "heartbeat"
    PROVE  /\ p.popularity \in Popularities
           /\ Encode(p) = (<<HeartbeatHeader(Len(p.popularity))>> \o Spelt(p.popularity))
                             \o (IF p.echo THEN <<Byte("{"), Byte("}")>> ELSE <<>>)
<1>1. p.popularity \in Popularities
  BY DEF PacketsOfServer, InnerPackets
<1>2. p.popularity \in Seq(STRING)
  BY <1>1 DEF Popularities
<1>3. Len(Spelt(p.popularity)) = Len(p.popularity)
  BY <1>2, SpeltIs
<1>4. Encode(p) = MakePack(Spelt(p.popularity), "HeartBeatNone", "HEARTBEAT_REPLY")
                     \o (IF p.echo THEN PingBody ELSE <<>>)
  BY DEF Encode, Spelt
<1> QED BY <1>1, <1>3, <1>4, Zenon DEF MakePack, HeartbeatHeader, PingBody

LEMMA HeartbeatCells ==
    ASSUME NEW p \in PacketsOfServer, p.kind = "heartbeat", p.echo
    PROVE  /\ Len(p.popularity) \in Nat
           /\ Encode(p) \in Seq(Cells)
           /\ Len(Encode(p)) = Len(p.popularity) + 3
           /\ Encode(p)[1] = HeartbeatHeader(Len(p.popularity))
           /\ \A j \in 1..Len(p.popularity) : Encode(p)[j + 1] = Byte(p.popularity[j])
           /\ Encode(p)[Len(p.popularity) + 2] = Byte("{")
           /\ Encode(p)[Len(p.popularity) + 3] = Byte("}")
<1> DEFINE s == p.popularity
           b == Spelt(s)
           h == HeartbeatHeader(Len(s))
           x == Byte("{")
           y == Byte("}")
<1>1. s \in Seq(STRING)
  BY EncodeHeartbeat DEF Popularities
<1>2. Encode(p) = (<<h>> \o b) \o <<x, y>>
  BY EncodeHeartbeat
<1> HIDE DEF s
<1>3. b \in Seq(Bytes) /\ Len(b) = Len(s) /\ \A i \in 1..Len(s) : b[i] = Byte(s[i])
  BY <1>1, SpeltIs
<1>4. Len(s) \in Nat
  BY <1>1
<1>5. h \in Cells
  <2>1. HeaderSize + Len(s) \in Nat
    BY <1>4 DEF HeaderSize
  <2> QED BY <2>1 DEF HeartbeatHeader, Cells, Headers
<1>6. Bytes \subseteq Cells /\ x \in Cells /\ y \in Cells
  BY DEF Cells, Bytes
<1> HIDE DEF b, h, x, y
<1>7. b \in Seq(Cells)
  BY <1>3, <1>6, SeqMonotonic
<1> DEFINE e == (<<h>> \o b) \o <<x, y>>
<1>8. /\ e \in Seq(Cells) /\ Len(e) = Len(b) + 3 /\ e[1] = h
      /\ \A j \in 1..Len(b) : e[j + 1] = b[j]
      /\ e[Len(b) + 2] = x /\ e[Len(b) + 3] = y
  BY <1>5, <1>6, <1>7, Wrapped
<1>9. Encode(p) = e
  BY <1>2
<1> HIDE DEF e
<1> QED BY <1>3, <1>4, <1>8, <1>9 DEF s, h, x, y

\* A reply that does not repeat the heartbeat.
LEMMA MuteCells ==
    ASSUME NEW p \in PacketsOfServer, p.kind = "heartbeat", ~p.echo
    PROVE  /\ Len(p.popularity) \in Nat
           /\ Encode(p) \in Seq(Cells)
           /\ Len(Encode(p)) = Len(p.popularity) + 1
           /\ Encode(p)[1] = HeartbeatHeader(Len(p.popularity))
           /\ \A j \in 1..Len(p.popularity) : Encode(p)[j + 1] = Byte(p.popularity[j])
<1> DEFINE s == p.popularity
           b == Spelt(s)
           h == HeartbeatHeader(Len(s))
<1>1. s \in Seq(STRING)
  BY EncodeHeartbeat DEF Popularities
<1>2. Encode(p) = (<<h>> \o b) \o <<>>
  BY EncodeHeartbeat
<1> HIDE DEF s
<1>3. b \in Seq(Bytes) /\ Len(b) = Len(s) /\ \A i \in 1..Len(s) : b[i] = Byte(s[i])
  BY <1>1, SpeltIs
<1>4. Len(s) \in Nat
  BY <1>1
<1>5. h \in Cells
  <2>1. HeaderSize + Len(s) \in Nat
    BY <1>4 DEF HeaderSize
  <2> QED BY <2>1 DEF HeartbeatHeader, Cells, Headers
<1>6. Bytes \subseteq Cells
  BY DEF Cells
<1> HIDE DEF b, h
<1>7. b \in Seq(Cells) /\ <<h>> \in Seq(Cells)
  BY <1>3, <1>5, <1>6, SeqMonotonic
<1> DEFINE e == (<<h>> \o b) \o <<>>
<1>8. /\ e \in Seq(Cells) /\ Len(e) = Len(b) + 1 /\ e[1] = h
      /\ \A j \in 1..Len(b) : e[j + 1] = b[j]
  BY <1>7
<1>9. Encode(p) = e
  BY <1>2
<1> HIDE DEF e
<1> QED BY <1>3, <1>4, <1>8, <1>9 DEF s, h

LEMMA EncodeType ==
    ASSUME NEW p \in PacketsOfServer
    PROVE  /\ Encode(p) \in Seq(Cells)
           /\ Len(Encode(p)) \in Nat \ {0}
           /\ "totalSize" \in DOMAIN Encode(p)[1]
<1>1. CASE p.kind # "heartbeat"
  <2> DEFINE h == HeaderOf(p)
  <2>1. Encode(p) = <<h, p>>
    BY <1>1, EncodeBody
  <2>2. h \in Cells /\ p \in Cells
    BY <1>1, HeaderIsCell DEF Cells
  <2>3. "totalSize" \in DOMAIN h
    BY DEF HeaderOf
  <2> HIDE DEF h
  <2>4. <<h, p>> \in Seq(Cells) /\ Len(<<h, p>>) = 2 /\ <<h, p>>[1] = h
    BY <2>2
  <2> QED BY <2>1, <2>3, <2>4
<1>2. CASE p.kind = "heartbeat"
  <2>1. "totalSize" \in DOMAIN HeartbeatHeader(Len(p.popularity))
    BY DEF HeartbeatHeader
  <2>2. /\ Encode(p) \in Seq(Cells) /\ Encode(p)[1] = HeartbeatHeader(Len(p.popularity))
        /\ Len(p.popularity) \in Nat
        /\ Len(Encode(p)) \in {Len(p.popularity) + 1, Len(p.popularity) + 3}
    BY <1>2, HeartbeatCells, MuteCells
  <2>3. Len(Encode(p)) \in Nat \ {0}
    BY <2>2
  <2> QED BY <2>1, <2>2, <2>3
<1> QED BY <1>1, <1>2

LEMMA ByteInjective ==
    ASSUME NEW c, NEW d, Byte(c) = Byte(d)
    PROVE  c = d
<1>1. Byte(c).byte = c /\ Byte(d).byte = d
  BY DEF Byte
<1> QED BY <1>1

\* In a reply without its echo { and } do not stand one behind the other.
LEMMA BracesOfMute ==
    ASSUME NEW p \in PacketsOfServer, p.kind = "heartbeat", ~p.echo,
           NEW i \in 1..(Len(Encode(p)) - 1)
    PROVE  ~(Encode(p)[i] = Byte("{") /\ Encode(p)[i + 1] = Byte("}"))
<1> DEFINE s == p.popularity
           n == Len(s)
           e == Encode(p)
           x == Byte("{")
           y == Byte("}")
<1>1. s \in Seq(STRING) /\ \A j \in 1..(n - 1) : ~(s[j] = "{" /\ s[j + 1] = "}")
  BY EncodeHeartbeat DEF Popularities
<1>2. /\ n \in Nat /\ Len(e) = n + 1
      /\ e[1] = HeartbeatHeader(n)
      /\ \A j \in 1..n : e[j + 1] = Byte(s[j])
  BY MuteCells
<1>3. HeartbeatHeader(n) # x
  <2>1. DOMAIN HeartbeatHeader(n) = {"totalSize", "version", "operation"} /\ DOMAIN x = {"byte"}
    BY DEF HeartbeatHeader, Byte
  <2> QED BY <2>1
<1>4. i \in 1..(Len(e) - 1)
  OBVIOUS
<1> HIDE DEF x, y, n, s, e
<1>5. ~(e[i] = x /\ e[i + 1] = y)
  <2>1. CASE i = 1
    BY <1>2, <1>3, <2>1
  <2>2. CASE i # 1
    <3>1. i \in 1..n
      BY <1>2, <1>4
    <3>2. i - 1 \in 1..(n - 1) /\ i - 1 \in 1..n /\ (i - 1) + 1 = i
      BY <1>2, <2>2, <3>1
    <3>3. e[i] = Byte(s[i - 1]) /\ e[i + 1] = Byte(s[i])
      BY <1>2, <3>1, <3>2
    <3>4. ~(s[i - 1] = "{" /\ s[(i - 1) + 1] = "}")
      BY <1>1, <3>2
    <3> QED BY <3>2, <3>3, <3>4, ByteInjective DEF x, y
  <2> QED BY <2>1, <2>2
<1> QED BY <1>5 DEF x, y, e

\* In the reply to a heartbeat { and } stand one behind the other in the last
\* two places only.
LEMMA BracesOfHeartbeat ==
    ASSUME NEW p \in PacketsOfServer, p.kind = "heartbeat", p.echo,
           NEW i \in 1..(Len(Encode(p)) - 1)
    PROVE  Encode(p)[i] = Byte("{") /\ Encode(p)[i + 1] = Byte("}") <=> i = Len(Encode(p)) - 1
<1> DEFINE s == p.popularity
           n == Len(s)
           e == Encode(p)
           x == Byte("{")
           y == Byte("}")
<1>1. s \in Seq(STRING) /\ \A j \in 1..(n - 1) : ~(s[j] = "{" /\ s[j + 1] = "}")
  BY EncodeHeartbeat DEF Popularities
<1>2. /\ n \in Nat /\ Len(e) = n + 3
      /\ e[1] = HeartbeatHeader(n)
      /\ \A j \in 1..n : e[j + 1] = Byte(s[j])
      /\ e[n + 2] = x /\ e[n + 3] = y
  BY HeartbeatCells
<1>3. HeartbeatHeader(n) # x
  <2>1. DOMAIN HeartbeatHeader(n) = {"totalSize", "version", "operation"} /\ DOMAIN x = {"byte"}
    BY DEF HeartbeatHeader, Byte
  <2> QED BY <2>1
<1>4. x # y
  BY ByteInjective
<1>5. ASSUME NEW j \in 1..(n - 1)
      PROVE  ~(e[j + 1] = x /\ e[(j + 1) + 1] = y)
  <2> HIDE DEF n, s, e, x, y
  <2>1. j \in 1..n /\ j + 1 \in 1..n
    BY <1>2
  <2>2. e[j + 1] = Byte(s[j]) /\ e[(j + 1) + 1] = Byte(s[j + 1])
    BY <1>2, <2>1
  <2>3. ~(s[j] = "{" /\ s[j + 1] = "}")
    BY <1>1
  <2> QED BY <2>2, <2>3, ByteInjective DEF x, y
<1>6. i \in 1..(n + 2) /\ Len(e) - 1 = n + 2
  <2> HIDE DEF x, y, n, s
  <2>1. i \in 1..(Len(e) - 1)
    OBVIOUS
  <2> HIDE DEF e
  <2> QED BY <1>2, <2>1
<1> HIDE DEF x, y, n, s, e
<1>7. e[i] = x /\ e[i + 1] = y <=> i = n + 2
  <2>1. CASE i = 1
    BY <1>2, <1>3, <2>1
  <2>2. CASE i \in 2..n
    <3>1. i - 1 \in 1..(n - 1) /\ (i - 1) + 1 = i
      BY <1>2, <2>2
    <3>2. ~(e[(i - 1) + 1] = x /\ e[((i - 1) + 1) + 1] = y)
      BY <1>5, <3>1
    <3> QED BY <1>2, <2>2, <3>1, <3>2
  <2>3. CASE i = n + 1
    <3>1. i + 1 = n + 2
      BY <1>2, <2>3
    <3> QED BY <1>2, <1>4, <2>3, <3>1
  <2>4. CASE i = n + 2
    BY <1>2, <2>4
  <2> QED BY <1>2, <1>6, <2>1, <2>2, <2>3, <2>4
<1> QED BY <1>6, <1>7 DEF x, y, e

-----------------------------------------------------------------------------
(* Buffer, CommandsIn and KeptOf, as concatenations                        *)

LEMMA BufferIsFlatMap ==
    ASSUME NEW s \in Seq(PacketsOfServer)
    PROVE  Buffer(s) = FlatMap([p \in PacketsOfServer |-> Encode(p)], s)
<1>1. \A i \in DOMAIN s : s[i] \in PacketsOfServer
  OBVIOUS
<1>2. [i \in DOMAIN s |-> Encode(s[i])] = MapOver([p \in PacketsOfServer |-> Encode(p)], s)
  BY <1>1 DEF MapOver
<1> QED BY <1>2 DEF Buffer, FlatMap

LEMMA BufferType ==
    ASSUME NEW s \in Seq(PacketsOfServer)
    PROVE  Buffer(s) \in Seq(Cells)
<1> DEFINE f == [p \in PacketsOfServer |-> Encode(p)]
<1>1. f \in [PacketsOfServer -> Seq(Cells)]
  BY EncodeType
<1> HIDE DEF f
<1>2. FlatMap(f, s) \in Seq(Cells)
  BY <1>1, FlatMapType
<1> QED BY <1>2, BufferIsFlatMap DEF f

LEMMA BufferEmpty == Buffer(<<>>) = <<>>
<1>1. <<>> \in Seq(PacketsOfServer)
  OBVIOUS
<1> QED BY <1>1, FlatMapEmpty, BufferIsFlatMap, Zenon

LEMMA BufferConcat ==
    ASSUME NEW s \in Seq(PacketsOfServer), NEW t \in Seq(PacketsOfServer)
    PROVE  Buffer(s \o t) = Buffer(s) \o Buffer(t)
<1> DEFINE f == [p \in PacketsOfServer |-> Encode(p)]
<1>1. f \in [PacketsOfServer -> Seq(Cells)]
  BY EncodeType
<1>2. s \o t \in Seq(PacketsOfServer)
  OBVIOUS
<1>3. Buffer(s \o t) = FlatMap(f, s \o t) /\ Buffer(s) = FlatMap(f, s) /\ Buffer(t) = FlatMap(f, t)
  BY <1>2, BufferIsFlatMap
<1> HIDE DEF f
<1>4. FlatMap(f, s \o t) = FlatMap(f, s) \o FlatMap(f, t)
  BY <1>1, FlatMapConcat
<1> QED BY <1>3, <1>4, Zenon

LEMMA BufferOne ==
    ASSUME NEW p \in PacketsOfServer
    PROVE  Buffer(<<p>>) = Encode(p)
<1> DEFINE f == [q \in PacketsOfServer |-> Encode(q)]
<1>1. f \in [PacketsOfServer -> Seq(Cells)] /\ f[p] = Encode(p)
  BY EncodeType
<1>2. <<p>> \in Seq(PacketsOfServer)
  OBVIOUS
<1>3. Buffer(<<p>>) = FlatMap(f, <<p>>)
  BY <1>2, BufferIsFlatMap
<1> HIDE DEF f
<1>4. FlatMap(f, <<p>>) = f[p]
  BY <1>1, FlatMapOne
<1> QED BY <1>1, <1>3, <1>4, Zenon

LEMMA KnownInType ==
    ASSUME NEW p
    PROVE  KnownIn(p) \in Seq(Known)
<1>1. CASE p.kind = "plain" /\ p.cmd \in Known
  <2>1. <<p.cmd>> \in Seq(Known)
    BY <1>1
  <2> QED BY <1>1, <2>1 DEF KnownIn
<1>2. CASE ~(p.kind = "plain" /\ p.cmd \in Known)
  <2>1. <<>> \in Seq(Known)
    OBVIOUS
  <2> QED BY <1>2, <2>1 DEF KnownIn
<1> QED BY <1>1, <1>2

LEMMA CommandsInIsFlatMap ==
    ASSUME NEW s \in Seq(PacketsOfServer)
    PROVE  CommandsIn(s) = FlatMap([p \in PacketsOfServer |-> CommandsOf(p)], s)
<1>1. \A i \in DOMAIN s : s[i] \in PacketsOfServer
  OBVIOUS
<1>2. [i \in DOMAIN s |-> CommandsOf(s[i])] = MapOver([p \in PacketsOfServer |-> CommandsOf(p)], s)
  BY <1>1 DEF MapOver
<1> QED BY <1>2 DEF CommandsIn, FlatMap

\* What is compressed counts as what it holds.
LEMMA CommandsOfCompressed ==
    ASSUME NEW p \in PacketsOfServer, p.kind \in {"zlib", "brotli"}, p.intact
    PROVE  /\ p.packets \in Seq(InnerPackets)
           /\ p.packets \in Seq(PacketsOfServer)
           /\ MuteOnlyLast(p.packets)
           /\ CommandsOf(p) = CommandsIn(p.packets)
<1> DEFINE s == p.packets
<1>1. s \in Seq(InnerPackets) /\ MuteOnlyLast(s)
  <2>1. s \in Contents
    BY DEF PacketsOfServer, InnerPackets
  <2> HIDE DEF s
  <2> QED BY <2>1 DEF Contents
<1> HIDE DEF s
<1>2. s \in Seq(PacketsOfServer)
  BY <1>1, SeqMonotonic DEF PacketsOfServer
<1>3. \A i \in DOMAIN s : s[i] \in InnerPackets
  BY <1>1
<1>4. \A i \in DOMAIN s : s[i].kind \notin {"zlib", "brotli"}
  BY <1>3 DEF InnerPackets
<1>5. \A i \in DOMAIN s : CommandsOf(s[i]) = KnownIn(s[i])
  BY <1>4 DEF CommandsOf
<1>6. [i \in DOMAIN s |-> CommandsOf(s[i])] = [i \in DOMAIN s |-> KnownIn(s[i])]
  BY <1>5
<1>7. CommandsOf(p) = FlattenSeq([i \in DOMAIN s |-> KnownIn(s[i])])
  BY DEF CommandsOf, s
<1>8. CommandsIn(s) = FlattenSeq([i \in DOMAIN s |-> CommandsOf(s[i])])
  BY DEF CommandsIn
<1> QED BY <1>1, <1>2, <1>6, <1>7, <1>8 DEF s

LEMMA CommandsOfInner ==
    ASSUME NEW p \in InnerPackets
    PROVE  CommandsOf(p) = KnownIn(p)
BY DEF InnerPackets, CommandsOf

LEMMA CommandsOfType ==
    ASSUME NEW p \in PacketsOfServer
    PROVE  CommandsOf(p) \in Seq(Known)
<1>1. CASE p.kind \notin {"zlib", "brotli"}
  BY <1>1, KnownInType DEF CommandsOf
<1>2. CASE p.kind \in {"zlib", "brotli"} /\ ~p.intact
  <2>1. <<>> \in Seq(Known)
    OBVIOUS
  <2> QED BY <1>2, <2>1 DEF CommandsOf
<1>3. CASE p.kind \in {"zlib", "brotli"} /\ p.intact
  <2> DEFINE s == p.packets
             f == [q \in InnerPackets |-> KnownIn(q)]
  <2>1. s \in Seq(InnerPackets)
    BY <1>3, CommandsOfCompressed
  <2>2. f \in [InnerPackets -> Seq(Known)]
    BY KnownInType
  <2>3. \A i \in DOMAIN s : s[i] \in InnerPackets
    <3> HIDE DEF s
    <3> QED BY <2>1
  <2>4. [i \in DOMAIN s |-> KnownIn(s[i])] = MapOver(f, s)
    BY <2>3 DEF MapOver
  <2>5. CommandsOf(p) = FlattenSeq(MapOver(f, s))
    BY <1>3, <2>4 DEF CommandsOf
  <2> HIDE DEF f, s
  <2>6. FlatMap(f, s) \in Seq(Known)
    BY <2>1, <2>2, FlatMapType
  <2> QED BY <2>5, <2>6 DEF FlatMap
<1> QED BY <1>1, <1>2, <1>3

LEMMA CommandsInType ==
    ASSUME NEW s \in Seq(PacketsOfServer)
    PROVE  CommandsIn(s) \in Seq(Known)
<1> DEFINE f == [p \in PacketsOfServer |-> CommandsOf(p)]
<1>1. f \in [PacketsOfServer -> Seq(Known)]
  BY CommandsOfType
<1> HIDE DEF f
<1>2. FlatMap(f, s) \in Seq(Known)
  BY <1>1, FlatMapType
<1> QED BY <1>2, CommandsInIsFlatMap DEF f

LEMMA CommandsInEmpty == CommandsIn(<<>>) = <<>>
<1>1. <<>> \in Seq(PacketsOfServer)
  OBVIOUS
<1> QED BY <1>1, FlatMapEmpty, CommandsInIsFlatMap, Zenon

LEMMA CommandsInConcat ==
    ASSUME NEW s \in Seq(PacketsOfServer), NEW t \in Seq(PacketsOfServer)
    PROVE  CommandsIn(s \o t) = CommandsIn(s) \o CommandsIn(t)
<1> DEFINE f == [p \in PacketsOfServer |-> CommandsOf(p)]
<1>1. f \in [PacketsOfServer -> Seq(Known)]
  BY CommandsOfType
<1>2. s \o t \in Seq(PacketsOfServer)
  OBVIOUS
<1>3. /\ CommandsIn(s \o t) = FlatMap(f, s \o t)
      /\ CommandsIn(s) = FlatMap(f, s) /\ CommandsIn(t) = FlatMap(f, t)
  BY <1>2, CommandsInIsFlatMap
<1> HIDE DEF f
<1>4. FlatMap(f, s \o t) = FlatMap(f, s) \o FlatMap(f, t)
  BY <1>1, FlatMapConcat
<1> QED BY <1>3, <1>4, Zenon

LEMMA CommandsInOne ==
    ASSUME NEW p \in PacketsOfServer
    PROVE  CommandsIn(<<p>>) = CommandsOf(p)
<1> DEFINE f == [q \in PacketsOfServer |-> CommandsOf(q)]
<1>1. f \in [PacketsOfServer -> Seq(Known)] /\ f[p] = CommandsOf(p)
  BY CommandsOfType
<1>2. <<p>> \in Seq(PacketsOfServer)
  OBVIOUS
<1>3. CommandsIn(<<p>>) = FlatMap(f, <<p>>)
  BY <1>2, CommandsInIsFlatMap
<1> HIDE DEF f
<1>4. FlatMap(f, <<p>>) = f[p]
  BY <1>1, FlatMapOne
<1> QED BY <1>1, <1>3, <1>4, Zenon

LEMMA KeptOfIsFlatMap ==
    ASSUME NEW s \in Seq(Commands)
    PROVE  KeptOf(s) = FlatMap([c \in Commands |-> Kept(c)], s)
<1>1. \A i \in DOMAIN s : s[i] \in Commands
  OBVIOUS
<1>2. [i \in DOMAIN s |-> Kept(s[i])] = MapOver([c \in Commands |-> Kept(c)], s)
  BY <1>1 DEF MapOver
<1> QED BY <1>2 DEF KeptOf, FlatMap

LEMMA KeptType ==
    ASSUME NEW c \in Commands
    PROVE  Kept(c) \in Seq(Known)
<1>1. CASE c \in {"NONE", "OTHER"}
  <2>1. <<>> \in Seq(Known)
    OBVIOUS
  <2> QED BY <1>1, <2>1 DEF Kept
<1>2. CASE c \notin {"NONE", "OTHER"}
  <2>1. <<c>> \in Seq(Known)
    BY <1>2 DEF Commands
  <2> QED BY <1>2, <2>1 DEF Kept
<1> QED BY <1>1, <1>2

LEMMA KeptOfType ==
    ASSUME NEW s \in Seq(Commands)
    PROVE  KeptOf(s) \in Seq(Known)
<1> DEFINE f == [c \in Commands |-> Kept(c)]
<1>1. f \in [Commands -> Seq(Known)]
  BY KeptType
<1> HIDE DEF f
<1>2. FlatMap(f, s) \in Seq(Known)
  BY <1>1, FlatMapType
<1> QED BY <1>2, KeptOfIsFlatMap DEF f

LEMMA KeptOfEmpty == KeptOf(<<>>) = <<>>
<1>1. <<>> \in Seq(Commands)
  OBVIOUS
<1> QED BY <1>1, FlatMapEmpty, KeptOfIsFlatMap, Zenon

LEMMA KeptOfConcat ==
    ASSUME NEW s \in Seq(Commands), NEW t \in Seq(Commands)
    PROVE  KeptOf(s \o t) = KeptOf(s) \o KeptOf(t)
<1> DEFINE f == [c \in Commands |-> Kept(c)]
<1>1. f \in [Commands -> Seq(Known)]
  BY KeptType
<1>2. s \o t \in Seq(Commands)
  OBVIOUS
<1>3. KeptOf(s \o t) = FlatMap(f, s \o t) /\ KeptOf(s) = FlatMap(f, s) /\ KeptOf(t) = FlatMap(f, t)
  BY <1>2, KeptOfIsFlatMap
<1> HIDE DEF f
<1>4. FlatMap(f, s \o t) = FlatMap(f, s) \o FlatMap(f, t)
  BY <1>1, FlatMapConcat
<1> QED BY <1>3, <1>4, Zenon

LEMMA KeptOfOne ==
    ASSUME NEW c \in Commands
    PROVE  KeptOf(<<c>>) = Kept(c)
<1> DEFINE f == [d \in Commands |-> Kept(d)]
<1>1. f \in [Commands -> Seq(Known)] /\ f[c] = Kept(c)
  BY KeptType
<1>2. <<c>> \in Seq(Commands)
  OBVIOUS
<1>3. KeptOf(<<c>>) = FlatMap(f, <<c>>)
  BY <1>2, KeptOfIsFlatMap
<1> HIDE DEF f
<1>4. FlatMap(f, <<c>>) = f[c]
  BY <1>1, FlatMapOne
<1> QED BY <1>1, <1>3, <1>4, Zenon

\* Nothing is left out twice.
LEMMA KeptOfKnown ==
    ASSUME NEW s \in Seq(Known)
    PROVE  KeptOf(s) = s /\ s \in Seq(Commands)
<1> DEFINE S == {t \in Seq(Known) : KeptOf(t) = t}
<1>0. \A t \in Seq(Known) : t \in Seq(Commands)
  BY SeqMonotonic DEF Commands
<1>1. <<>> \in S
  <2>1. <<>> \in Seq(Known)
    OBVIOUS
  <2> QED BY <2>1, KeptOfEmpty
<1>2. ASSUME NEW t \in Seq(Known), NEW e \in Known, t \in S
      PROVE  Append(t, e) \in S
  <2>1. Append(t, e) \in Seq(Known) /\ Append(t, e) = t \o <<e>> /\ <<e>> \in Seq(Known)
    OBVIOUS
  <2>2. t \in Seq(Commands) /\ <<e>> \in Seq(Commands)
    BY <1>0, <2>1
  <2>3. KeptOf(t \o <<e>>) = KeptOf(t) \o KeptOf(<<e>>)
    BY <2>2, KeptOfConcat, Zenon
  <2>4. KeptOf(<<e>>) = Kept(e)
    BY KeptOfOne, Zenon DEF Commands
  <2>5. Kept(e) = <<e>>
    BY KnownAssumption DEF Kept
  <2>6. KeptOf(t) = t
    BY <1>2
  <2> QED BY <2>1, <2>3, <2>4, <2>5, <2>6
<1> HIDE DEF S
<1>3. Seq(Known) \subseteq S
  BY <1>1, <1>2, SeqInduction, Zenon
<1> QED BY <1>0, <1>3 DEF S

\* Of the commands of a plain packet the known one is kept.
LEMMA KeptOfPlain ==
    ASSUME NEW p \in PacketsOfServer, p.kind = "plain"
    PROVE  /\ <<GetLiveCommand(p.cmd)>> \in Seq(Commands)
           /\ KeptOf(<<GetLiveCommand(p.cmd)>>) = CommandsOf(p)
<1>1. GetLiveCommand(p.cmd) \in Commands
  BY DEF GetLiveCommand, Commands
<1>2. KeptOf(<<GetLiveCommand(p.cmd)>>) = Kept(GetLiveCommand(p.cmd))
  BY <1>1, KeptOfOne
<1>3. Kept(GetLiveCommand(p.cmd)) = KnownIn(p)
  BY KnownAssumption DEF Kept, GetLiveCommand, KnownIn
<1>4. CommandsOf(p) = KnownIn(p)
  BY DEF CommandsOf
<1> QED BY <1>1, <1>2, <1>3, <1>4

-----------------------------------------------------------------------------
(* Where a call of Unpack stands                                           *)

FrameRecords == [buffer : Seq(Cells), start : Nat, temp : Seq(Commands)]

\* The call is given packets; it is done with some of them and has found the
\* commands of those.
At(f, packets) ==
    /\ MuteOnlyLast(packets)
    /\ \E done, todo \in Seq(PacketsOfServer) :
          /\ packets = done \o todo
          /\ f.buffer = Buffer(packets)
          /\ f.start = Len(Buffer(done))
          /\ KeptOf(f.temp) = CommandsIn(done)

\* The next one is p.
Before(f, packets, done, p, rest) ==
    /\ MuteOnlyLast(packets)
    /\ packets = (done \o <<p>>) \o rest
    /\ f.buffer = Buffer(packets)
    /\ f.start = Len(Buffer(done))
    /\ KeptOf(f.temp) = CommandsIn(done)

LEMMA FirstAndRest ==
    ASSUME NEW A, NEW s \in Seq(A), s # <<>>
    PROVE  /\ Head(s) \in A /\ Tail(s) \in Seq(A)
           /\ s = <<Head(s)>> \o Tail(s)
<1>1. Head(s) \in A /\ Tail(s) \in Seq(A) /\ Len(Tail(s)) = Len(s) - 1 /\ Len(s) \in Nat \ {0}
      /\ \A i \in 1..Len(Tail(s)) : Tail(s)[i] = s[i + 1]
  BY HeadTailProperties
<1> DEFINE h == Head(s)
           t == Tail(s)
<1>2. h = s[1]
  OBVIOUS
<1> HIDE DEF h, t
<1>3. <<h>> \o t \in Seq(A) /\ Len(<<h>> \o t) = Len(s)
  BY <1>1 DEF h, t
<1>4. ASSUME NEW i \in 1..Len(s)
      PROVE  s[i] = (<<h>> \o t)[i]
  BY <1>1, <1>2 DEF h, t
<1>5. s = <<h>> \o t
  BY <1>3, <1>4, SeqEqual
<1> QED BY <1>1, <1>5 DEF h, t

LEMMA BeforeOrEnd ==
    ASSUME NEW packets \in Seq(PacketsOfServer), NEW f \in FrameRecords, At(f, packets)
    PROVE  \/ f.start = Len(f.buffer) /\ KeptOf(f.temp) = CommandsIn(packets)
           \/ \E done, rest \in Seq(PacketsOfServer), p \in PacketsOfServer :
                 Before(f, packets, done, p, rest)
<1>1. PICK done \in Seq(PacketsOfServer), todo \in Seq(PacketsOfServer) :
         /\ MuteOnlyLast(packets)
         /\ packets = done \o todo
         /\ f.buffer = Buffer(packets)
         /\ f.start = Len(Buffer(done))
         /\ KeptOf(f.temp) = CommandsIn(done)
  BY DEF At
<1>2. CASE todo = <<>>
  <2>1. packets = done
    BY <1>1, <1>2
  <2> QED BY <1>1, <2>1
<1>3. CASE todo # <<>>
  <2> DEFINE p == Head(todo)
             rest == Tail(todo)
  <2>1. p \in PacketsOfServer /\ rest \in Seq(PacketsOfServer) /\ todo = <<p>> \o rest
    BY <1>3, FirstAndRest
  <2> HIDE DEF p, rest
  <2>2. done \o (<<p>> \o rest) = (done \o <<p>>) \o rest
    BY <2>1
  <2>3. Before(f, packets, done, p, rest)
    BY <1>1, <2>1, <2>2 DEF Before
  <2> QED BY <2>1, <2>3
<1> QED BY <1>2, <1>3

LEMMA BufferOfThree ==
    ASSUME NEW done \in Seq(PacketsOfServer), NEW p \in PacketsOfServer, NEW rest \in Seq(PacketsOfServer)
    PROVE  Buffer((done \o <<p>>) \o rest) = (Buffer(done) \o Encode(p)) \o Buffer(rest)
<1>1. <<p>> \in Seq(PacketsOfServer) /\ done \o <<p>> \in Seq(PacketsOfServer)
  OBVIOUS
<1>2. Buffer((done \o <<p>>) \o rest) = Buffer(done \o <<p>>) \o Buffer(rest)
  BY <1>1, BufferConcat
<1>3. Buffer(done \o <<p>>) = Buffer(done) \o Buffer(<<p>>)
  BY <1>1, BufferConcat
<1> QED BY <1>2, <1>3, BufferOne, Zenon

LEMMA BeforeCells ==
    ASSUME NEW packets \in Seq(PacketsOfServer), NEW f \in FrameRecords,
           NEW done \in Seq(PacketsOfServer), NEW p \in PacketsOfServer, NEW rest \in Seq(PacketsOfServer),
           Before(f, packets, done, p, rest)
    PROVE  /\ Len(Encode(p)) \in Nat \ {0}
           /\ f.start + Len(Encode(p)) <= Len(f.buffer)
           /\ \A i \in 1..Len(Encode(p)) : f.buffer[f.start + i] = Encode(p)[i]
           /\ IsHeader(f.buffer, f.start)
<1> DEFINE a == Buffer(done)
           e == Encode(p)
           b == Buffer(rest)
<1>1. f.buffer = (a \o e) \o b /\ f.start = Len(a)
  BY BufferOfThree DEF Before
<1>2. a \in Seq(Cells) /\ b \in Seq(Cells) /\ e \in Seq(Cells)
  BY BufferType, EncodeType
<1>3. Len(e) \in Nat \ {0} /\ "totalSize" \in DOMAIN e[1]
  BY EncodeType
<1> HIDE DEF a, e, b
<1>4. /\ Len((a \o e) \o b) = (Len(a) + Len(e)) + Len(b)
      /\ Len(a) \in Nat /\ Len(b) \in Nat
      /\ \A i \in 1..Len(e) : ((a \o e) \o b)[Len(a) + i] = e[i]
  BY <1>2
<1>5. /\ Len(a) + Len(e) <= Len(f.buffer)
      /\ \A i \in 1..Len(e) : f.buffer[Len(a) + i] = e[i]
  BY <1>1, <1>3, <1>4
<1>6. IsHeader(f.buffer, f.start)
  <2>1. 1 \in 1..Len(e)
    BY <1>3
  <2>2. f.buffer[f.start + 1] = e[1]
    BY <1>1, <1>5, <2>1
  <2>3. f.start < Len(f.buffer)
    BY <1>1, <1>3, <1>4, <1>5
  <2> QED BY <1>3, <2>2, <2>3 DEF IsHeader
<1> QED BY <1>1, <1>3, <1>5, <1>6 DEF e

\* The packet is done with, and its commands were found.
LEMMA BeforeStep ==
    ASSUME NEW packets \in Seq(PacketsOfServer), NEW f \in FrameRecords, NEW g \in FrameRecords,
           NEW done \in Seq(PacketsOfServer), NEW p \in PacketsOfServer, NEW rest \in Seq(PacketsOfServer),
           Before(f, packets, done, p, rest),
           g.buffer = f.buffer,
           g.start = f.start + Len(Encode(p)),
           KeptOf(g.temp) = KeptOf(f.temp) \o CommandsOf(p)
    PROVE  At(g, packets)
<1> DEFINE d == done \o <<p>>
<1>1. <<p>> \in Seq(PacketsOfServer) /\ d \in Seq(PacketsOfServer)
  OBVIOUS
<1>2. packets = d \o rest /\ g.buffer = Buffer(packets) /\ MuteOnlyLast(packets)
  BY DEF Before
<1>3. g.start = Len(Buffer(d))
  <2>1. Buffer(d) = Buffer(done) \o Encode(p)
    BY <1>1, BufferConcat, BufferOne
  <2>2. Buffer(done) \in Seq(Cells) /\ Encode(p) \in Seq(Cells)
    BY BufferType, EncodeType
  <2>3. Len(Buffer(done) \o Encode(p)) = Len(Buffer(done)) + Len(Encode(p))
    BY <2>2
  <2> QED BY <2>1, <2>3 DEF Before
<1>4. KeptOf(g.temp) = CommandsIn(d)
  <2>1. CommandsIn(d) = CommandsIn(done) \o CommandsOf(p)
    BY <1>1, CommandsInConcat, CommandsInOne
  <2> QED BY <2>1 DEF Before
<1> HIDE DEF d
<1> QED BY <1>1, <1>2, <1>3, <1>4 DEF At

LEMMA AmongPackets ==
    ASSUME NEW packets \in Seq(PacketsOfServer), NEW f,
           NEW done \in Seq(PacketsOfServer), NEW p \in PacketsOfServer, NEW rest \in Seq(PacketsOfServer),
           Before(f, packets, done, p, rest)
    PROVE  p \in ToSet(packets)
<1>1. packets = (done \o <<p>>) \o rest
  BY DEF Before
<1>2. packets[Len(done) + 1] = p /\ Len(done) + 1 \in DOMAIN packets
  BY <1>1
<1> QED BY <1>2 DEF ToSet

\* What the code reads there.
LEMMA BeforeBody ==
    ASSUME NEW packets \in Seq(PacketsOfServer), NEW f \in FrameRecords,
           NEW done \in Seq(PacketsOfServer), NEW p \in PacketsOfServer, NEW rest \in Seq(PacketsOfServer),
           Before(f, packets, done, p, rest), p.kind # "heartbeat"
    PROVE  /\ p.kind \in {"plain", "zlib", "brotli", "other"}
           /\ f.buffer[f.start + 1] = HeaderOf(p)
           /\ f.buffer[f.start + 2] = p
           /\ Len(Encode(p)) = 2
<1>1. p.kind \in {"plain", "zlib", "brotli", "other"} /\ Encode(p) = <<HeaderOf(p), p>>
  BY EncodeBody
<1>2. Len(Encode(p)) = 2 /\ Encode(p)[1] = HeaderOf(p) /\ Encode(p)[2] = p
  BY <1>1
<1>3. \A i \in 1..2 : f.buffer[f.start + i] = Encode(p)[i]
  <2>1. \A i \in 1..Len(Encode(p)) : f.buffer[f.start + i] = Encode(p)[i]
    BY BeforeCells
  <2> QED BY <1>2, <2>1
<1> QED BY <1>1, <1>2, <1>3

\* The first place where two things stand one behind the other, when among n
\* from start they do at the end only.
PairAtEnd(open, close, start, n) ==
    \A i \in 1..(n - 1) : start + i \in open /\ start + (i + 1) \in close <=> i = n - 1
Pairs(open, close, start, size) == {i \in start..(size - 2) : i + 1 \in open /\ i + 2 \in close}

LEMMA FirstPair ==
    ASSUME NEW open, NEW close, NEW start \in Nat, NEW size \in Nat, NEW n \in Nat,
           n >= 2, start + n <= size, PairAtEnd(open, close, start, n)
    PROVE  /\ Pairs(open, close, start, size) # {}
           /\ Min(Pairs(open, close, start, size)) + 2 = start + n
<1> DEFINE pairs == Pairs(open, close, start, size)
<1>p. \A i : i \in pairs <=> i \in start..(size - 2) /\ i + 1 \in open /\ i + 2 \in close
  BY DEF Pairs
<1>q. \A i \in 1..(n - 1) : start + i \in open /\ start + (i + 1) \in close <=> i = n - 1
  BY DEF PairAtEnd
<1> HIDE DEF pairs
<1>0. PICK m \in Nat : m = start + n - 2
  OBVIOUS
<1>1. ASSUME NEW j \in start..m
      PROVE  j + 1 \in open /\ j + 2 \in close <=> j = m
  <2>1. PICK i \in Nat : i = j - start + 1
    BY <1>0
  <2>2. i \in 1..(n - 1) /\ start + i = j + 1 /\ start + (i + 1) = j + 2
    BY <1>0, <2>1
  <2>3. i = n - 1 <=> j = m
    BY <1>0, <2>1
  <2> QED BY <1>q, <2>2, <2>3
<1>2. m \in start..m /\ m \in start..(size - 2)
  BY <1>0
<1>3. m \in pairs
  BY <1>p, <1>1, <1>2
<1>4. \A j \in pairs : j \in Int /\ m <= j
  <2> SUFFICES ASSUME NEW j \in pairs
               PROVE  j \in Int /\ m <= j
    OBVIOUS
  <2>1. j \in start..(size - 2) /\ j + 1 \in open /\ j + 2 \in close
    BY <1>p
  <2>2. j \in start..m => j = m
    BY <1>1, <2>1
  <2>3. j \in Int /\ j >= start
    BY <2>1
  <2>4. j \notin start..m => j > m
    BY <2>3, <1>0
  <2> QED BY <2>2, <2>3, <2>4
<1>5. Min(pairs) \in pairs /\ \A j \in pairs : Min(pairs) <= j
  BY <1>3, <1>4 DEF Min
<1>6. Min(pairs) \in Int /\ m <= Min(pairs) /\ Min(pairs) <= m
  BY <1>3, <1>4, <1>5
<1>7. Min(pairs) = m
  BY <1>6
<1> QED BY <1>0, <1>3, <1>7 DEF pairs

BracesIn(buffer, start) ==
    {i \in start..(Len(buffer) - 2) : buffer[i + 1] = Byte("{") /\ buffer[i + 2] = Byte("}")}

LEMMA BeforeReply ==
    ASSUME NEW packets \in Seq(PacketsOfServer), NEW f \in FrameRecords,
           NEW done \in Seq(PacketsOfServer), NEW p \in PacketsOfServer, NEW rest \in Seq(PacketsOfServer),
           Before(f, packets, done, p, rest), p.kind = "heartbeat"
    PROVE  f.buffer[f.start + 1].operation = "HEARTBEAT_REPLY"
<1>1. Encode(p)[1] = HeartbeatHeader(Len(p.popularity))
  BY HeartbeatCells, MuteCells
<1>2. f.buffer[f.start + 1] = Encode(p)[1]
  <2>1. Len(Encode(p)) \in Nat \ {0} /\ \A i \in 1..Len(Encode(p)) : f.buffer[f.start + i] = Encode(p)[i]
    BY BeforeCells
  <2>2. 1 \in 1..Len(Encode(p))
    BY <2>1
  <2> QED BY <2>1, <2>2
<1> QED BY <1>1, <1>2 DEF HeartbeatHeader

\* Behind a reply without its echo there is no {} to be found.
LEMMA BeforeMute ==
    ASSUME NEW packets \in Seq(PacketsOfServer), NEW f \in FrameRecords,
           NEW done \in Seq(PacketsOfServer), NEW p \in PacketsOfServer, NEW rest \in Seq(PacketsOfServer),
           Before(f, packets, done, p, rest), p.kind = "heartbeat", ~p.echo
    PROVE  BracesIn(f.buffer, f.start) = {}
<1> DEFINE e == Encode(p)
           a == Buffer(done)
           n == Len(e)
           start == f.start
           buffer == f.buffer
<1>1. rest = <<>>
  <2> SUFFICES ASSUME rest # <<>> PROVE FALSE
    OBVIOUS
  <2>1. packets = (done \o <<p>>) \o rest /\ MuteOnlyLast(packets)
    BY DEF Before
  <2>2. Len(done) \in Nat /\ Len(rest) \in Nat \ {0}
    BY HeadTailProperties
  <2>3. /\ packets[Len(done) + 1] = p /\ Len(packets) = Len(done) + 1 + Len(rest)
    BY <2>1, <2>2
  <2>4. Len(done) + 1 \in 1..(Len(packets) - 1)
    BY <2>2, <2>3
  <2> QED BY <2>1, <2>3, <2>4 DEF MuteOnlyLast
<1>2. a \in Seq(Cells) /\ e \in Seq(Cells) /\ n \in Nat \ {0}
  BY BufferType, EncodeType
<1>3. buffer = (a \o e) \o <<>> /\ start = Len(a)
  <2>1. f.buffer = (Buffer(done) \o Encode(p)) \o Buffer(rest) /\ f.start = Len(Buffer(done))
    BY BufferOfThree DEF Before
  <2> QED BY <1>1, <2>1, BufferEmpty
<1>4. /\ \A i \in 1..n : buffer[start + i] = e[i]
  <2>1. \A i \in 1..Len(Encode(p)) : f.buffer[f.start + i] = Encode(p)[i]
    BY BeforeCells
  <2> QED BY <2>1
<1>5. \A i \in 1..(n - 1) : ~(e[i] = Byte("{") /\ e[i + 1] = Byte("}"))
  BY BracesOfMute
<1> HIDE DEF e, a, start, buffer
<1>6. Len(buffer) = start + n /\ start \in Nat
  BY <1>2, <1>3
<1> HIDE DEF n
<1>7. ASSUME NEW j \in start..(Len(buffer) - 2), buffer[j + 1] = Byte("{"), buffer[j + 2] = Byte("}")
      PROVE  FALSE
  <2>1. PICK i \in Int : i = j - start + 1
    BY <1>6
  <2>2. i \in 1..(n - 1) /\ i \in 1..n /\ i + 1 \in 1..n /\ start + i = j + 1 /\ start + (i + 1) = j + 2
    BY <1>2, <1>6, <2>1
  <2>3. e[i] = Byte("{") /\ e[i + 1] = Byte("}")
    BY <1>4, <1>7, <2>2
  <2> QED BY <1>5, <2>2, <2>3
<1> QED BY <1>7 DEF BracesIn, buffer, start

LEMMA BeforeHeartbeat ==
    ASSUME NEW packets \in Seq(PacketsOfServer), NEW f \in FrameRecords,
           NEW done \in Seq(PacketsOfServer), NEW p \in PacketsOfServer, NEW rest \in Seq(PacketsOfServer),
           Before(f, packets, done, p, rest), p.kind = "heartbeat", p.echo
    PROVE  /\ BracesIn(f.buffer, f.start) # {}
           /\ Min(BracesIn(f.buffer, f.start)) + 2 = f.start + Len(Encode(p))
<1> DEFINE e == Encode(p)
           n == Len(e)
           buffer == f.buffer
           start == f.start
<1>1. n \in Nat /\ n >= 3
  <2>1. Len(p.popularity) \in Nat /\ n = Len(p.popularity) + 3
    BY HeartbeatCells
  <2> HIDE DEF e, n
  <2> QED BY <2>1
<1>2. start + n <= Len(buffer) /\ \A i \in 1..n : buffer[start + i] = e[i]
  <2>1. /\ f.start + Len(Encode(p)) <= Len(f.buffer)
        /\ \A i \in 1..Len(Encode(p)) : f.buffer[f.start + i] = Encode(p)[i]
    BY BeforeCells
  <2> QED BY <2>1
<1>3. \A i \in 1..(n - 1) : e[i] = Byte("{") /\ e[i + 1] = Byte("}") <=> i = n - 1
  BY BracesOfHeartbeat
<1>4. start \in Nat /\ buffer \in Seq(Cells)
  BY DEF FrameRecords
<1> HIDE DEF e, n, buffer, start
<1>5. Len(buffer) \in Nat
  BY <1>4
<1> DEFINE open  == {j \in Nat : buffer[j] = Byte("{")}
           close == {j \in Nat : buffer[j] = Byte("}")}
           size  == Len(buffer)
<1>6. PairAtEnd(open, close, start, n)
  <2> SUFFICES ASSUME NEW i \in 1..(n - 1)
               PROVE  start + i \in open /\ start + (i + 1) \in close <=> i = n - 1
    BY DEF PairAtEnd
  <2>1. i \in 1..n /\ i + 1 \in 1..n /\ start + i \in Nat /\ start + (i + 1) \in Nat
    BY <1>1, <1>4
  <2>2. buffer[start + i] = e[i] /\ buffer[start + (i + 1)] = e[i + 1]
    BY <1>2, <2>1
  <2>3. e[i] = Byte("{") /\ e[i + 1] = Byte("}") <=> i = n - 1
    BY <1>3
  <2> QED BY <2>1, <2>2, <2>3
<1>7. BracesIn(buffer, start) = Pairs(open, close, start, size)
  <2>1. \A i \in start..(size - 2) : i + 1 \in Nat /\ i + 2 \in Nat
    BY <1>4, <1>5
  <2> QED BY <2>1 DEF BracesIn, Pairs
<1> HIDE DEF open, close
<1>8. BracesIn(buffer, start) # {} /\ Min(BracesIn(buffer, start)) + 2 = start + n
  <2>1. size \in Nat /\ n >= 2 /\ start + n <= size
    BY <1>1, <1>2, <1>5
  <2> HIDE DEF size
  <2> QED BY <1>1, <1>4, <1>6, <1>7, <2>1, FirstPair
<1> QED BY <1>8 DEF e, n, buffer, start

-----------------------------------------------------------------------------
(* The invariant                                                           *)

Typing ==
    /\ pack \in Seq(Known) /\ tasks \in Seq(Known) /\ terminated \in BOOLEAN
    /\ sent \in Seq(Messages) /\ Len(sent) <= MaxMessages

\* on_read is not in Unpack: what it has is what is expected of all messages.
Between == frames = <<>> /\ tasks \o pack = Expected

\* Unpack works on the last message; what came before has gone to the pool.
LastIs(earlier, packets) ==
    /\ pack = <<>>
    /\ sent = Append(earlier, packets)
    /\ tasks = CommandsIn(FlattenSeq(earlier))

InMessage ==
    \E earlier \in Seq(Messages), packets \in Messages, f \in FrameRecords :
        /\ LastIs(earlier, packets)
        /\ frames = <<f>> /\ At(f, packets)

\* A call of Unpack for the body of a packet: the call around it waits before
\* that packet.
InBody ==
    \E earlier \in Seq(Messages), packets \in Messages, f, g \in FrameRecords,
       done, rest \in Seq(PacketsOfServer), p \in PacketsOfServer :
        /\ LastIs(earlier, packets)
        /\ frames = <<f, g>>
        /\ Before(f, packets, done, p, rest)
        /\ p.kind \in {"zlib", "brotli"} /\ p.intact
        /\ At(g, p.packets)

IInv == Typing /\ (Between \/ InMessage \/ InBody)

LEMMA MessageType ==
    ASSUME NEW m \in Messages
    PROVE  m \in Seq(PacketsOfServer) /\ MuteOnlyLast(m)
BY MessagesAssumption

LEMMA EarlierType ==
    ASSUME NEW earlier \in Seq(Messages)
    PROVE  /\ earlier \in Seq(Seq(PacketsOfServer))
           /\ FlattenSeq(earlier) \in Seq(PacketsOfServer)
<1>1. earlier \in Seq(Seq(PacketsOfServer))
  BY MessagesAssumption, SeqMonotonic
<1> QED BY <1>1, FlattenType

\* What is expected of the messages, once one more has been received.
LEMMA ExpectedNext ==
    ASSUME NEW earlier \in Seq(Messages), NEW packets \in Messages
    PROVE  CommandsIn(FlattenSeq(Append(earlier, packets))) =
              CommandsIn(FlattenSeq(earlier)) \o CommandsIn(packets)
<1>1. /\ earlier \in Seq(Seq(PacketsOfServer)) /\ packets \in Seq(PacketsOfServer)
      /\ FlattenSeq(earlier) \in Seq(PacketsOfServer)
  BY EarlierType, MessageType
<1>2. FlattenSeq(Append(earlier, packets)) = FlattenSeq(earlier) \o packets
  BY <1>1, FlattenAppend
<1>3. CommandsIn(FlattenSeq(earlier) \o packets) = CommandsIn(FlattenSeq(earlier)) \o CommandsIn(packets)
  BY <1>1, CommandsInConcat
<1> QED BY <1>2, <1>3, Zenon

\* Nothing moves.
LEMMA Stutter ==
    ASSUME IInv, UNCHANGED <<frames, pack, tasks, terminated, sent>>
    PROVE  IInv'
<1>1. Typing'
  BY DEF IInv, Typing
<1>2. Between' <=> Between
  BY DEF Between, Expected
<1>3. InMessage' <=> InMessage
  BY DEF InMessage, LastIs
<1>4. InBody' <=> InBody
  BY DEF InBody, LastIs
<1> QED BY <1>1, <1>2, <1>3, <1>4 DEF IInv

\* The innermost call stands at a packet of what it was given.
LEMMA InnermostAt ==
    ASSUME IInv, frames # <<>>
    PROVE  /\ Innermost \in FrameRecords
           /\ \E packets \in Seq(PacketsOfServer) : At(Innermost, packets)
<1>1. CASE InMessage
  <2>1. PICK packets \in Messages, f \in FrameRecords : frames = <<f>> /\ At(f, packets)
    BY <1>1 DEF InMessage
  <2>2. Innermost = f
    BY <2>1 DEF Innermost, Last
  <2> QED BY <2>1, <2>2, MessageType
<1>2. CASE InBody
  <2>1. PICK f \in FrameRecords, g \in FrameRecords, p \in PacketsOfServer :
           /\ frames = <<f, g>> /\ p.kind \in {"zlib", "brotli"} /\ p.intact /\ At(g, p.packets)
    BY <1>2 DEF InBody
  <2>2. Innermost = g
    BY <2>1 DEF Innermost, Last
  <2>3. p.packets \in Seq(PacketsOfServer)
    BY <2>1, CommandsOfCompressed
  <2> QED BY <2>1, <2>2, <2>3
<1> QED BY <1>1, <1>2 DEF IInv, Between

\* The innermost call has moved on.
LEMMA InnermostStep ==
    ASSUME IInv, frames # <<>>, NEW g \in FrameRecords,
           frames' = [frames EXCEPT ![Len(frames)] = g],
           UNCHANGED <<pack, tasks, sent>>, terminated' \in BOOLEAN,
           \A packets \in Seq(PacketsOfServer) : At(Innermost, packets) => At(g, packets)
    PROVE  IInv'
<1>1. Typing'
  BY DEF IInv, Typing
<1>2. CASE InMessage
  <2>1. PICK earlier \in Seq(Messages), packets \in Messages, f \in FrameRecords :
           LastIs(earlier, packets) /\ frames = <<f>> /\ At(f, packets)
    BY <1>2 DEF InMessage
  <2>2. Innermost = f /\ frames' = <<g>>
    BY <2>1 DEF Innermost, Last
  <2>3. At(g, packets)
    BY <2>1, <2>2, MessageType
  <2>4. LastIs(earlier, packets)'
    BY <2>1 DEF LastIs
  <2>5. InMessage'
    BY <2>2, <2>3, <2>4 DEF InMessage
  <2> QED BY <1>1, <2>5 DEF IInv
<1>3. CASE InBody
  <2>1. PICK earlier \in Seq(Messages), packets \in Messages, f \in FrameRecords, h \in FrameRecords,
             done \in Seq(PacketsOfServer), rest \in Seq(PacketsOfServer), p \in PacketsOfServer :
           /\ LastIs(earlier, packets) /\ frames = <<f, h>> /\ Before(f, packets, done, p, rest)
           /\ p.kind \in {"zlib", "brotli"} /\ p.intact /\ At(h, p.packets)
    BY <1>3 DEF InBody
  <2>2. Innermost = h /\ frames' = <<f, g>>
    BY <2>1 DEF Innermost, Last
  <2>3. At(g, p.packets)
    BY <2>1, <2>2, CommandsOfCompressed
  <2>4. LastIs(earlier, packets)'
    BY <2>1 DEF LastIs
  <2>5. InBody'
    BY <2>1, <2>2, <2>3, <2>4 DEF InBody
  <2> QED BY <1>1, <2>5 DEF IInv
<1> QED BY <1>2, <1>3 DEF IInv, Between

LEMMA IInvInit == Init => IInv
<1> SUFFICES ASSUME Init PROVE IInv
  OBVIOUS
<1>1. Expected = <<>>
  <2>1. FlattenSeq(sent) = <<>>
    BY FlattenEmpty DEF Init
  <2> QED BY <2>1, CommandsInEmpty, Zenon DEF Expected
<1>2. Typing
  <2>1. <<>> \in Seq(Known) /\ <<>> \in Seq(Messages) /\ Len(<<>>) = 0
    OBVIOUS
  <2>2. 0 <= MaxMessages
    BY BoundAssumption
  <2>3. pack \in Seq(Known) /\ tasks \in Seq(Known) /\ sent \in Seq(Messages) /\ Len(sent) = 0
    BY <2>1 DEF Init
  <2>4. terminated \in BOOLEAN
    BY DEF Init
  <2> QED BY <2>2, <2>3, <2>4 DEF Typing
<1>3. tasks \o pack = <<>>
  BY DEF Init
<1> QED BY <1>1, <1>2, <1>3 DEF Init, IInv, Between

\* A call begins with nothing done.
LEMMA AtStart ==
    ASSUME NEW s \in Seq(PacketsOfServer), MuteOnlyLast(s)
    PROVE  Frame(Buffer(s)) \in FrameRecords /\ At(Frame(Buffer(s)), s)
<1> DEFINE f == Frame(Buffer(s))
<1>1. f.buffer = Buffer(s) /\ f.start = 0 /\ f.temp = <<>>
  BY DEF Frame
<1>2. f \in FrameRecords
  <2>1. Buffer(s) \in Seq(Cells)
    BY BufferType
  <2>2. <<>> \in Seq(Commands)
    OBVIOUS
  <2> QED BY <2>1, <2>2 DEF Frame, FrameRecords
<1>3. At(f, s)
  <2>1. <<>> \in Seq(PacketsOfServer) /\ s = <<>> \o s
    OBVIOUS
  <2>2. Len(Buffer(<<>>)) = 0
    BY BufferEmpty
  <2>3. KeptOf(f.temp) = CommandsIn(<<>>)
    BY <1>1, KeptOfEmpty, CommandsInEmpty
  <2> HIDE DEF f
  <2> QED BY <1>1, <2>1, <2>2, <2>3 DEF At
<1> QED BY <1>2, <1>3

LEMMA OnReadStep ==
    ASSUME IInv, NEW m \in Messages, OnRead(m)
    PROVE  IInv'
<1> DEFINE f == Frame(Buffer(m))
<1>0. frames = <<>> /\ pack = <<>> /\ sent \in Seq(Messages)
  BY DEF OnRead, IInv, Typing
<1>1. frames' = <<f>> /\ pack' = <<>> /\ tasks' = tasks /\ sent' = Append(sent, m)
  BY DEF OnRead
<1>2. m \in Seq(PacketsOfServer) /\ MuteOnlyLast(m)
  BY MessageType
<1>3. f \in FrameRecords /\ At(f, m)
  BY <1>2, AtStart
<1>5. tasks = CommandsIn(FlattenSeq(sent))
  <2>1. Between
    BY <1>0 DEF IInv, InMessage, InBody
  <2>2. tasks \in Seq(Known) /\ tasks \o pack = Expected
    BY <2>1 DEF Between, IInv, Typing
  <2> QED BY <1>0, <2>2 DEF Expected
<1>7. InMessage'
  <2> HIDE DEF f
  <2>1. pack' = <<>> /\ sent' = Append(sent, m) /\ tasks' = CommandsIn(FlattenSeq(sent))
    BY <1>1, <1>5
  <2>2. \E earlier \in Seq(Messages), packets \in Messages, g \in FrameRecords :
           /\ pack' = <<>> /\ sent' = Append(earlier, packets) /\ tasks' = CommandsIn(FlattenSeq(earlier))
           /\ frames' = <<g>> /\ At(g, packets)
    BY <1>0, <1>1, <1>3, <2>1
  <2> QED BY <2>2 DEF InMessage, LastIs
<1>8. Typing'
  <2>1. Append(sent, m) \in Seq(Messages) /\ Len(Append(sent, m)) = Len(sent) + 1 /\ Len(sent) \in Nat
    BY <1>0
  <2> QED BY <2>1, BoundAssumption DEF IInv, Typing, OnRead
<1> QED BY <1>7, <1>8 DEF IInv

\* What holds where a packet is looked at.
LEMMA AtPacketIs ==
    ASSUME IInv, InLoop
    PROVE  \E packets, done, rest \in Seq(PacketsOfServer), p \in PacketsOfServer :
              Before(Innermost, packets, done, p, rest)
<1>1. frames # <<>> /\ Innermost.start < Len(Innermost.buffer)
  BY DEF InLoop, IsHeader
<1>2. PICK packets \in Seq(PacketsOfServer) : At(Innermost, packets)
  BY <1>1, InnermostAt
<1>3. Innermost \in FrameRecords
  BY <1>1, InnermostAt
<1>4. Innermost.start \in Nat
  BY <1>3 DEF FrameRecords
<1>5. Innermost.start # Len(Innermost.buffer)
  BY <1>1, <1>4
<1> QED BY <1>2, <1>3, <1>5, BeforeOrEnd

\* Which packet it is shows in the header.
LEMMA KindOfHeader ==
    ASSUME NEW packets \in Seq(PacketsOfServer), NEW f \in FrameRecords,
           NEW done \in Seq(PacketsOfServer), NEW p \in PacketsOfServer, NEW rest \in Seq(PacketsOfServer),
           Before(f, packets, done, p, rest),
           f.buffer[f.start + 1].operation # "HEARTBEAT_REPLY"
    PROVE  /\ p.kind # "heartbeat"
           /\ f.buffer[f.start + 2] = p
           /\ Len(Encode(p)) = 2
           /\ f.buffer[f.start + 1].totalSize \in {0, 2}
           /\ f.buffer[f.start + 1].totalSize = 0 => f.buffer[f.start + 1].version = "unknown"
           /\ f.buffer[f.start + 1].version \in {"NormalNone", "HeartBeatNone"} => p.kind = "plain"
           /\ f.buffer[f.start + 1].version = "NormalZlib" => p.kind = "zlib"
           /\ f.buffer[f.start + 1].version = "NormalBrotli" => p.kind = "brotli"
           /\ f.buffer[f.start + 1].version = "unknown" => p.kind = "other"
<1>1. p.kind # "heartbeat"
  BY BeforeReply
<1>2. /\ p.kind \in {"plain", "zlib", "brotli", "other"}
      /\ f.buffer[f.start + 1] = HeaderOf(p) /\ f.buffer[f.start + 2] = p /\ Len(Encode(p)) = 2
  BY <1>1, BeforeBody
<1>3. /\ HeaderOf(p).totalSize \in {0, 2} /\ HeaderOf(p).version = VersionOf[p.kind]
      /\ HeaderOf(p).totalSize = 0 => p.kind = "other"
  BY DEF HeaderOf, SizeOf
<1>4. /\ VersionOf["plain"] = "NormalNone" /\ VersionOf["zlib"] = "NormalZlib"
      /\ VersionOf["brotli"] = "NormalBrotli" /\ VersionOf["other"] = "unknown"
  BY DEF VersionOf
<1> QED BY <1>1, <1>2, <1>3, <1>4

LEMMA BodyIs ==
    ASSUME IInv, InLoop, UnpackHeader.operation # "HEARTBEAT_REPLY"
    PROVE  /\ Body \in PacketsOfServer
           /\ UnpackHeader.totalSize \in {0, 2}
           /\ UnpackHeader.totalSize = 0 => UnpackHeader.version = "unknown"
           /\ UnpackHeader.version \in {"NormalNone", "HeartBeatNone"} => Body.kind = "plain"
           /\ UnpackHeader.version = "NormalZlib" => Body.kind = "zlib"
           /\ UnpackHeader.version = "NormalBrotli" => Body.kind = "brotli"
           /\ UnpackHeader.version = "unknown" => Body.kind = "other"
<1> DEFINE f == Innermost
<1>1. PICK packets \in Seq(PacketsOfServer), done \in Seq(PacketsOfServer), rest \in Seq(PacketsOfServer),
           p \in PacketsOfServer : Before(f, packets, done, p, rest)
  BY AtPacketIs
<1>2. f \in FrameRecords
  BY InnermostAt DEF InLoop
<1>3. UnpackHeader = f.buffer[f.start + 1] /\ Body = f.buffer[f.start + 2]
  <2>1. f.start + HeaderSize + 1 = f.start + 2
    BY <1>2 DEF HeaderSize, FrameRecords
  <2> QED BY <2>1 DEF UnpackHeader, Body
<1> HIDE DEF f
<1> QED BY <1>1, <1>2, <1>3, KindOfHeader

\* NextPacket, when the commands it is given are those of the packet.
LEMMA NextPacketStep ==
    ASSUME IInv, InLoop, UnpackHeader.operation # "HEARTBEAT_REPLY", UnpackHeader.totalSize # 0,
           NEW commands \in Seq(Commands), NextPacket(commands),
           KeptOf(commands) = CommandsOf(Body),
           UNCHANGED <<pack, tasks, terminated, sent>>
    PROVE  IInv'
<1> DEFINE f == Innermost
           size == UnpackHeader.totalSize
           g == [buffer |-> f.buffer, start |-> f.start + size, temp |-> f.temp \o commands]
<1>1. frames # <<>> /\ f.start < Len(f.buffer)
  BY DEF InLoop, IsHeader
<1>2. f \in FrameRecords
  BY <1>1, InnermostAt
<1>3. UnpackHeader = f.buffer[f.start + 1] /\ Body = f.buffer[f.start + 2]
  <2>1. f.start + HeaderSize + 1 = f.start + 2
    BY <1>2 DEF HeaderSize, FrameRecords
  <2> QED BY <2>1 DEF UnpackHeader, Body
<1>4. f.buffer \in Seq(Cells) /\ f.start \in Nat /\ f.temp \in Seq(Commands)
  BY <1>2 DEF FrameRecords
<1>5. f.temp \o commands \in Seq(Commands) /\ KeptOf(f.temp \o commands) = KeptOf(f.temp) \o KeptOf(commands)
  <2> HIDE DEF f
  <2>1. f.temp \o commands \in Seq(Commands)
    BY <1>4
  <2> QED BY <1>4, <2>1, KeptOfConcat
<1>6. ASSUME NEW packets \in Seq(PacketsOfServer), At(f, packets)
      PROVE  size \in Nat /\ At(g, packets)
  <2> HIDE DEF f
  <2>1. PICK done \in Seq(PacketsOfServer), rest \in Seq(PacketsOfServer), p \in PacketsOfServer :
           Before(f, packets, done, p, rest)
    <3>1. f.start # Len(f.buffer)
      BY <1>1, <1>4
    <3> QED BY <1>2, <1>6, <3>1, BeforeOrEnd
  <2>2. Body = p /\ size = Len(Encode(p))
    <3>1. Body = p /\ Len(Encode(p)) = 2 /\ size \in {0, 2}
      BY <1>2, <1>3, <2>1, KindOfHeader
    <3> QED BY <3>1
  <2>3. Len(Encode(p)) \in Nat
    BY EncodeType
  <2>4. g \in FrameRecords
    BY <1>4, <1>5, <2>2, <2>3 DEF FrameRecords
  <2>5. g.buffer = f.buffer /\ g.start = f.start + Len(Encode(p))
    BY <2>2
  <2>6. KeptOf(g.temp) = KeptOf(f.temp) \o CommandsOf(p)
    BY <1>5, <2>2
  <2> HIDE DEF g
  <2> QED BY <1>2, <2>1, <2>2, <2>3, <2>4, <2>5, <2>6, BeforeStep
<1>7. g \in FrameRecords
  <2>1. size \in Nat
    BY <1>1, <1>6, InnermostAt
  <2> HIDE DEF f
  <2> QED BY <1>4, <1>5, <2>1 DEF FrameRecords
<1>8. frames' = [frames EXCEPT ![Len(frames)] = g]
  <2>1. f = frames[Len(frames)]
    BY DEF Innermost, Last
  <2>2. f = [buffer |-> f.buffer, start |-> f.start, temp |-> f.temp]
    BY <1>2 DEF FrameRecords
  <2>3. DOMAIN frames = 1..Len(frames) /\ Len(frames) \in 1..Len(frames)
    BY <1>1 DEF IInv, Between, InMessage, InBody
  <2> DEFINE y == frames[Len(frames)].start + size
             u == frames[Len(frames)].temp \o commands
  <2>4. frames' = [frames EXCEPT ![Len(frames)].start = y, ![Len(frames)].temp = u]
    BY DEF NextPacket
  <2>5. g = [buffer |-> f.buffer, start |-> y, temp |-> u]
    BY <2>1
  <2> HIDE DEF f, g, y, u, size
  <2>6. frames[Len(frames)] = [buffer |-> f.buffer, start |-> f.start, temp |-> f.temp]
    BY <2>1, <2>2
  <2> DEFINE n == Len(frames)
             b == f.buffer
             x == f.start
             t == f.temp
  <2>7. n \in DOMAIN frames /\ frames[n] = [buffer |-> b, start |-> x, temp |-> t]
    BY <2>3, <2>6
  <2> HIDE DEF n, b, x, t
  <2>8. [frames EXCEPT ![n].start = y, ![n].temp = u]
           = [frames EXCEPT ![n] = [buffer |-> b, start |-> y, temp |-> u]]
    <3> DEFINE r  == [buffer |-> b, start |-> y, temp |-> t]
               s1 == [frames EXCEPT ![n] = r]
    <3>1. [frames[n] EXCEPT !.start = y] = r
      BY <2>7
    <3>2. [frames EXCEPT ![n].start = y] = s1
      BY <3>1
    <3>3. s1[n] = r
      BY <2>7
    <3>4. [s1[n] EXCEPT !.temp = u] = [buffer |-> b, start |-> y, temp |-> u]
      BY <3>3
    <3>5. [s1 EXCEPT ![n].temp = u] = [s1 EXCEPT ![n] = [buffer |-> b, start |-> y, temp |-> u]]
      BY <3>4
    <3>6. [s1 EXCEPT ![n] = [buffer |-> b, start |-> y, temp |-> u]]
             = [frames EXCEPT ![n] = [buffer |-> b, start |-> y, temp |-> u]]
      OBVIOUS
    <3> QED BY <3>2, <3>5, <3>6
  <2> QED BY <2>4, <2>5, <2>8 DEF n, b
<1>9. terminated' \in BOOLEAN
  BY DEF IInv, Typing
<1> HIDE DEF g
<1> QED BY <1>1, <1>6, <1>7, <1>8, <1>9, InnermostStep

LEMMA NoneCompressStep ==
    ASSUME IInv, UnpackBodyNoneCompress
    PROVE  IInv'
<1>1. /\ InLoop /\ UnpackHeader.operation # "HEARTBEAT_REPLY"
      /\ UnpackHeader.version \in {"NormalNone", "HeartBeatNone"}
      /\ NextPacket(<<GetLiveCommand(Body.cmd)>>)
      /\ UNCHANGED <<pack, tasks, terminated, sent>>
  BY DEF UnpackBodyNoneCompress, AtPacket
<1>2. Body \in PacketsOfServer /\ Body.kind = "plain" /\ UnpackHeader.totalSize # 0
  BY <1>1, BodyIs
<1>3. /\ <<GetLiveCommand(Body.cmd)>> \in Seq(Commands)
      /\ KeptOf(<<GetLiveCommand(Body.cmd)>>) = CommandsOf(Body)
  BY <1>2, KeptOfPlain
<1> QED BY <1>1, <1>2, <1>3, NextPacketStep

LEMMA NothingInPacket ==
    ASSUME IInv, InLoop, UnpackHeader.operation # "HEARTBEAT_REPLY", UnpackHeader.totalSize # 0,
           NextPacket(<<>>), CommandsOf(Body) = <<>>,
           UNCHANGED <<pack, tasks, terminated, sent>>
    PROVE  IInv'
<1>1. <<>> \in Seq(Commands)
  OBVIOUS
<1> QED BY <1>1, KeptOfEmpty, NextPacketStep

\* At a packet of size 0 nothing moves.
LEMMA NextPacketOfNothing ==
    ASSUME IInv, InLoop, UnpackHeader.totalSize = 0, NextPacket(<<>>)
    PROVE  UNCHANGED frames
<1> DEFINE f == Innermost
           n == Len(frames)
<1>1. frames # <<>>
  BY DEF InLoop
<1>2. f \in FrameRecords
  BY <1>1, InnermostAt
<1>3. f = frames[n] /\ f.start \in Nat /\ f.temp \in Seq(Commands)
  BY <1>2 DEF Innermost, Last, FrameRecords
<1>4. \E S : frames \in Seq(S)
  <2>1. \A g, h \in FrameRecords : <<g, h>> \in Seq(FrameRecords) /\ <<g>> \in Seq(FrameRecords)
    OBVIOUS
  <2>2. <<>> \in Seq(FrameRecords)
    OBVIOUS
  <2> QED BY <2>1, <2>2 DEF IInv, Between, InMessage, InBody
<1>5. frames' = [frames EXCEPT ![n].start = f.start + 0, ![n].temp = f.temp \o <<>>]
  BY <1>3 DEF NextPacket
<1>6. f.start + 0 = f.start /\ f.temp \o <<>> = f.temp
  <2> HIDE DEF f
  <2> QED BY <1>3
<1>7. [frames EXCEPT ![n].start = f.start, ![n].temp = f.temp] = frames
  <2> DEFINE b == f.buffer
             x == f.start
             t == f.temp
  <2>1. f = [buffer |-> b, start |-> x, temp |-> t]
    BY <1>2 DEF FrameRecords
  <2> HIDE DEF b, x, t, f, n
  <2>2. frames[n] = [buffer |-> b, start |-> x, temp |-> t]
    BY <1>3, <2>1
  <2>3. [frames[n] EXCEPT !.start = x] = frames[n] /\ [frames[n] EXCEPT !.temp = t] = frames[n]
    BY <2>2
  <2>4. [frames EXCEPT ![n] = frames[n]] = frames
    BY <1>4
  <2>5. [frames EXCEPT ![n].start = x] = frames
    BY <2>3, <2>4
  <2>6. [frames EXCEPT ![n].temp = t] = frames
    BY <2>3, <2>4
  <2> QED BY <2>5, <2>6 DEF x, t
<1> QED BY <1>5, <1>6, <1>7, Zenon

LEMMA BrotliFailsStep ==
    ASSUME IInv, UnpackBodyBrotliFails
    PROVE  IInv'
<1>1. /\ InLoop /\ UnpackHeader.operation # "HEARTBEAT_REPLY"
      /\ UnpackHeader.version = "NormalBrotli" /\ ~Body.intact
      /\ NextPacket(<<>>)
      /\ UNCHANGED <<pack, tasks, terminated, sent>>
  BY DEF UnpackBodyBrotliFails, AtPacket
<1>2. CommandsOf(Body) = <<>> /\ UnpackHeader.totalSize # 0
  BY <1>1, BodyIs DEF CommandsOf
<1> QED BY <1>1, <1>2, NothingInPacket

LEMMA SkipPacketStep ==
    ASSUME IInv, SkipPacket
    PROVE  IInv'
<1>1. /\ InLoop /\ UnpackHeader.operation # "HEARTBEAT_REPLY"
      /\ UnpackHeader.version = "unknown"
      /\ NextPacket(<<>>)
      /\ UNCHANGED <<pack, tasks, terminated, sent>>
  BY DEF SkipPacket, AtPacket
<1>2. CommandsOf(Body) = <<>>
  BY <1>1, BodyIs DEF CommandsOf, KnownIn
<1>3. CASE UnpackHeader.totalSize # 0
  BY <1>1, <1>2, <1>3, NothingInPacket
<1>4. CASE UnpackHeader.totalSize = 0
  <2>1. UNCHANGED frames
    BY <1>1, <1>4, NextPacketOfNothing
  <2> QED BY <1>1, <2>1, Stutter
<1> QED BY <1>3, <1>4

LEMMA ZlibThrowsStep ==
    ASSUME IInv, UnpackBodyZlibThrows
    PROVE  IInv'
<1>1. UNCHANGED <<frames, pack, tasks, sent>> /\ terminated' \in BOOLEAN
  BY DEF UnpackBodyZlibThrows
<1>2. Typing'
  BY <1>1 DEF IInv, Typing
<1>3. Between' <=> Between
  BY <1>1 DEF Between, Expected
<1>4. InMessage' <=> InMessage
  BY <1>1 DEF InMessage, LastIs
<1>5. InBody' <=> InBody
  BY <1>1 DEF InBody, LastIs
<1> QED BY <1>2, <1>3, <1>4, <1>5 DEF IInv

LEMMA SkipHeartbeatStep ==
    ASSUME IInv, SkipHeartbeat
    PROVE  IInv'
<1> DEFINE f == Innermost
           braces == BracesFrom(f.start)
           g == [buffer |-> f.buffer, start |-> Min(braces) + 2, temp |-> f.temp]
<1>1. /\ InLoop /\ UnpackHeader.operation = "HEARTBEAT_REPLY"
      /\ UNCHANGED <<pack, tasks, terminated, sent>>
  BY DEF SkipHeartbeat
<1>2. frames # <<>> /\ f.start < Len(f.buffer)
  BY <1>1 DEF InLoop, IsHeader
<1>3. f \in FrameRecords
  BY <1>2, InnermostAt
<1>4. f.buffer \in Seq(Cells) /\ f.start \in Nat /\ f.temp \in Seq(Commands)
  BY <1>3 DEF FrameRecords
<1>5. UnpackHeader = f.buffer[f.start + 1] /\ braces = BracesIn(f.buffer, f.start)
  BY DEF UnpackHeader, BracesFrom, BracesIn
<1>a. CASE braces = {}
  BY <1>1, <1>a, Stutter DEF SkipHeartbeat
<1>b. SUFFICES ASSUME braces # {} PROVE IInv'
  BY <1>a
<1>6. ASSUME NEW packets \in Seq(PacketsOfServer), At(f, packets)
      PROVE  braces # {} /\ g \in FrameRecords /\ At(g, packets)
  <2> HIDE DEF f
  <2>1. PICK done \in Seq(PacketsOfServer), rest \in Seq(PacketsOfServer), p \in PacketsOfServer :
           Before(f, packets, done, p, rest)
    <3>1. f.start # Len(f.buffer)
      BY <1>2, <1>4
    <3> QED BY <1>3, <1>6, <3>1, BeforeOrEnd
  <2>2. p.kind = "heartbeat"
    <3> SUFFICES ASSUME p.kind # "heartbeat" PROVE FALSE
      OBVIOUS
    <3>1. UnpackHeader = HeaderOf(p)
      BY <1>3, <1>5, <2>1, BeforeBody
    <3>2. HeaderOf(p).operation = "SEND_MSG_REPLY"
      BY DEF HeaderOf
    <3> QED BY <1>1, <3>1, <3>2
  <2>3. braces # {} /\ Min(braces) + 2 = f.start + Len(Encode(p))
    <3>1. p.echo
      BY <1>3, <1>5, <1>b, <2>1, <2>2, BeforeMute
    <3> QED BY <1>3, <1>5, <2>1, <2>2, <3>1, BeforeHeartbeat
  <2>4. f.start + Len(Encode(p)) \in Nat
    BY <1>4, EncodeType
  <2>5. g \in FrameRecords
    BY <1>4, <2>3, <2>4 DEF FrameRecords
  <2>6. g.buffer = f.buffer /\ g.start = f.start + Len(Encode(p)) /\ g.temp = f.temp
    BY <2>3
  <2>7. CommandsOf(p) = <<>>
    BY <2>2 DEF CommandsOf, KnownIn
  <2>8. KeptOf(g.temp) = KeptOf(f.temp) \o CommandsOf(p)
    <3>1. KeptOf(f.temp) \in Seq(Known)
      BY <1>4, KeptOfType
    <3> HIDE DEF g
    <3> QED BY <2>6, <2>7, <3>1
  <2> HIDE DEF g
  <2> QED BY <1>3, <2>1, <2>3, <2>5, <2>6, <2>8, BeforeStep
<1>7. braces # {} /\ g \in FrameRecords
  <2> HIDE DEF f, g, braces
  <2> QED BY <1>2, <1>6, InnermostAt DEF f
<1>8. frames' = [frames EXCEPT ![Len(frames)] = g]
  <2>1. f = frames[Len(frames)] /\ f = [buffer |-> f.buffer, start |-> f.start, temp |-> f.temp]
    BY <1>3 DEF Innermost, Last, FrameRecords
  <2>2. frames' = [frames EXCEPT ![Len(frames)].start = Min(braces) + 2]
    BY <1>7 DEF SkipHeartbeat
  <2> DEFINE y == Min(braces) + 2
             b == f.buffer
             x == f.start
             t == f.temp
  <2> HIDE DEF y, b, x, t, f
  <2>3. frames[Len(frames)] = [buffer |-> b, start |-> x, temp |-> t]
    BY <2>1 DEF b, x, t
  <2>4. [frames[Len(frames)] EXCEPT !.start = y] = [buffer |-> b, start |-> y, temp |-> t]
    BY <2>3
  <2> QED BY <2>2, <2>4 DEF y, b, t
<1>9. terminated' \in BOOLEAN
  BY <1>1 DEF IInv, Typing
<1> HIDE DEF g
<1> QED BY <1>1, <1>2, <1>6, <1>7, <1>8, <1>9, InnermostStep

LEMMA UnpackBodyStep ==
    ASSUME IInv, UnpackBody
    PROVE  IInv'
<1> DEFINE g == Frame(Buffer(Body.packets))
<1>1. /\ InLoop /\ UnpackHeader.operation # "HEARTBEAT_REPLY"
      /\ UnpackHeader.version \in {"NormalZlib", "NormalBrotli"} /\ Body.intact
      /\ frames' = Append(frames, g)
      /\ UNCHANGED <<pack, tasks, terminated, sent>>
  BY DEF UnpackBody, AtPacket
<1>2. Body \in PacketsOfServer /\ Body.kind \in {"zlib", "brotli"}
  BY <1>1, BodyIs
<1>3. Body.packets \in Seq(PacketsOfServer) /\ MuteOnlyLast(Body.packets)
  BY <1>1, <1>2, CommandsOfCompressed
<1>4. g \in FrameRecords /\ At(g, Body.packets)
  BY <1>3, AtStart
<1> HIDE DEF g
<1>5. frames # <<>> /\ Innermost.start < Len(Innermost.buffer)
  BY <1>1 DEF InLoop, IsHeader
<1>6. Innermost \in FrameRecords
  BY <1>5, InnermostAt
<1>7. ASSUME NEW packets \in Seq(PacketsOfServer), At(Innermost, packets)
      PROVE  \E done, rest \in Seq(PacketsOfServer) : Before(Innermost, packets, done, Body, rest)
  <2>1. Innermost.start \in Nat
    BY <1>6 DEF FrameRecords
  <2>2. PICK done \in Seq(PacketsOfServer), rest \in Seq(PacketsOfServer), p \in PacketsOfServer :
           Before(Innermost, packets, done, p, rest)
    <3>1. Innermost.start # Len(Innermost.buffer)
      BY <1>5, <2>1
    <3> QED BY <1>6, <1>7, <3>1, BeforeOrEnd
  <2>3. UnpackHeader = Innermost.buffer[Innermost.start + 1] /\ Body = Innermost.buffer[Innermost.start + 2]
    <3>1. Innermost.start + HeaderSize + 1 = Innermost.start + 2
      BY <2>1 DEF HeaderSize
    <3> QED BY <3>1 DEF UnpackHeader, Body
  <2>4. Body = p
    BY <1>1, <1>6, <2>2, <2>3, KindOfHeader
  <2> QED BY <2>2, <2>4
<1>8. CASE InMessage
  <2>1. PICK earlier \in Seq(Messages), packets \in Messages, f \in FrameRecords :
           LastIs(earlier, packets) /\ frames = <<f>> /\ At(f, packets)
    BY <1>8 DEF InMessage
  <2>2. Innermost = f
    BY <2>1 DEF Innermost, Last
  <2>3. PICK done \in Seq(PacketsOfServer), rest \in Seq(PacketsOfServer) : Before(f, packets, done, Body, rest)
    BY <1>7, <2>1, <2>2, MessageType
  <2>4. frames' = <<f, g>>
    <3>1. <<f>> \in Seq(FrameRecords)
      OBVIOUS
    <3>2. Append(<<f>>, g) = <<f>> \o <<g>>
      BY <1>4, <3>1, AppendIsConcat
    <3>3. frames' = Append(<<f>>, g)
      BY <1>1, <2>1
    <3> QED BY <3>2, <3>3, Pair, Zenon
  <2>5. LastIs(earlier, packets)'
    BY <1>1, <2>1 DEF LastIs
  <2> DEFINE q == Body
  <2>6. q \in PacketsOfServer /\ q.kind \in {"zlib", "brotli"} /\ q.intact /\ At(g, q.packets)
        /\ Before(f, packets, done, q, rest)
    BY <1>1, <1>2, <1>4, <2>3
  <2> HIDE DEF q
  <2>7. InBody'
    <3> SUFFICES \E earlier1 \in Seq(Messages), packets1 \in Messages, f1, g1 \in FrameRecords,
                    done1, rest1 \in Seq(PacketsOfServer), p1 \in PacketsOfServer :
                     /\ LastIs(earlier1, packets1)'
                     /\ frames' = <<f1, g1>>
                     /\ Before(f1, packets1, done1, p1, rest1)
                     /\ p1.kind \in {"zlib", "brotli"} /\ p1.intact
                     /\ At(g1, p1.packets)
      BY DEF InBody
    <3> QED BY <1>4, <2>1, <2>3, <2>4, <2>5, <2>6
  <2>8. Typing'
    BY <1>1 DEF IInv, Typing
  <2> QED BY <2>7, <2>8 DEF IInv
<1>9. ~InBody
  <2> SUFFICES ASSUME InBody PROVE FALSE
    OBVIOUS
  <2>1. PICK f \in FrameRecords, h \in FrameRecords, p \in PacketsOfServer :
           frames = <<f, h>> /\ p.kind \in {"zlib", "brotli"} /\ p.intact /\ At(h, p.packets)
    BY DEF InBody
  <2>2. Innermost = h
    BY <2>1 DEF Innermost, Last
  <2>3. p.packets \in Seq(PacketsOfServer) /\ p.packets \in Seq(InnerPackets)
    BY <2>1, CommandsOfCompressed
  <2>4. PICK done \in Seq(PacketsOfServer), rest \in Seq(PacketsOfServer) : Before(h, p.packets, done, Body, rest)
    BY <1>7, <2>1, <2>2, <2>3
  <2>5. Body \in InnerPackets
    <3> DEFINE s == p.packets
               q == Body
    <3>1. s = (done \o <<q>>) \o rest
      BY <2>4 DEF Before
    <3> HIDE DEF s, q
    <3>2. s[Len(done) + 1] = q /\ Len(done) + 1 \in 1..Len(s)
      BY <3>1
    <3>3. s \in Seq(InnerPackets)
      BY <2>3 DEF s
    <3> QED BY <3>2, <3>3 DEF q
  <2> QED BY <1>2, <2>5 DEF InnerPackets
<1> QED BY <1>5, <1>8, <1>9 DEF IInv, Between

LEMMA ReturnStep ==
    ASSUME IInv, ReturnCommands
    PROVE  IInv'
<1>1. frames # <<>> /\ Innermost.start >= Len(Innermost.buffer) /\ UNCHANGED <<tasks, terminated, sent>>
  BY DEF ReturnCommands
<1>2. Innermost \in FrameRecords
  BY <1>1, InnermostAt
<1>3. Innermost.start \in Nat /\ Innermost.temp \in Seq(Commands) /\ Innermost.buffer \in Seq(Cells)
  BY <1>2 DEF FrameRecords
<1>4. ASSUME NEW packets \in Seq(PacketsOfServer), At(Innermost, packets)
      PROVE  Returned = CommandsIn(packets) /\ Returned \in Seq(Known)
  <2>1. ASSUME NEW done \in Seq(PacketsOfServer), NEW rest \in Seq(PacketsOfServer), NEW p \in PacketsOfServer,
               Before(Innermost, packets, done, p, rest)
        PROVE  FALSE
    <3>1. Len(Encode(p)) \in Nat \ {0} /\ Innermost.start + Len(Encode(p)) <= Len(Innermost.buffer)
      BY <1>2, <2>1, BeforeCells
    <3>2. Len(Innermost.buffer) \in Nat
      BY <1>3
    <3> QED BY <1>1, <1>3, <3>1, <3>2
  <2>2. KeptOf(Innermost.temp) = CommandsIn(packets)
    BY <1>2, <1>4, <2>1, BeforeOrEnd
  <2> QED BY <2>2, CommandsInType DEF Returned
<1>5. CASE InMessage
  <2>1. PICK earlier \in Seq(Messages), packets \in Messages, f \in FrameRecords :
           LastIs(earlier, packets) /\ frames = <<f>> /\ At(f, packets)
    BY <1>5 DEF InMessage
  <2>2. Innermost = f /\ Len(frames) = 1
    BY <2>1 DEF Innermost, Last
  <2>3. frames' = <<>> /\ pack' = Returned
    BY <2>2 DEF ReturnCommands
  <2>4. Returned = CommandsIn(packets) /\ Returned \in Seq(Known)
    BY <1>4, <2>1, <2>2, MessageType
  <2>5. Expected = CommandsIn(FlattenSeq(earlier)) \o CommandsIn(packets)
    BY <2>1, ExpectedNext DEF LastIs, Expected
  <2>6. Expected' = Expected
    BY <1>1 DEF Expected
  <2>7. Between'
    BY <1>1, <2>1, <2>3, <2>4, <2>5, <2>6 DEF Between, LastIs
  <2>8. Typing'
    BY <1>1, <2>3, <2>4 DEF IInv, Typing
  <2> QED BY <2>7, <2>8 DEF IInv
<1>6. CASE InBody
  <2>1. PICK earlier \in Seq(Messages), packets \in Messages, f \in FrameRecords, h \in FrameRecords,
             done \in Seq(PacketsOfServer), rest \in Seq(PacketsOfServer), p \in PacketsOfServer :
           /\ LastIs(earlier, packets) /\ frames = <<f, h>> /\ Before(f, packets, done, p, rest)
           /\ p.kind \in {"zlib", "brotli"} /\ p.intact /\ At(h, p.packets)
    BY <1>6 DEF InBody
  <2>2. Innermost = h /\ Len(frames) = 2 /\ frames[Len(frames) - 1] = f
    BY <2>1 DEF Innermost, Last
  <2> DEFINE g == [f EXCEPT !.start = @ + f.buffer[f.start + 1].totalSize, !.temp = @ \o Returned]
  <2>3. frames' = <<g>> /\ pack' = pack
    <3>1. frames' = Append(SubSeq(frames, 1, 0), g) /\ pack' = pack
      BY <2>2 DEF ReturnCommands
    <3>2. SubSeq(frames, 1, 0) = <<>>
      OBVIOUS
    <3> HIDE DEF g
    <3>3. Append(<<>>, g) = <<g>>
      OBVIOUS
    <3> QED BY <3>1, <3>2, <3>3, Zenon
  <2>4. /\ p.packets \in Seq(PacketsOfServer)
        /\ CommandsOf(p) = CommandsIn(p.packets)
    BY <2>1, CommandsOfCompressed
  <2>5. Returned = CommandsOf(p) /\ Returned \in Seq(Known)
    BY <1>4, <2>1, <2>2, <2>4
  <2>6. f.buffer[f.start + 1].totalSize = Len(Encode(p)) /\ Len(Encode(p)) = 2
    <3>1. f.buffer[f.start + 1] = HeaderOf(p) /\ Len(Encode(p)) = 2
      BY <2>1, MessageType, BeforeBody
    <3>2. HeaderOf(p).totalSize = 2
      BY <2>1 DEF HeaderOf, SizeOf
    <3> QED BY <3>1, <3>2
  <2>7. f.start \in Nat /\ f.temp \in Seq(Commands) /\ f.buffer \in Seq(Cells)
    BY DEF FrameRecords
  <2>8. KeptOf(Returned) = Returned /\ Returned \in Seq(Commands)
    BY <2>5, KeptOfKnown
  <2>9. f.temp \o Returned \in Seq(Commands) /\ KeptOf(f.temp \o Returned) = KeptOf(f.temp) \o CommandsOf(p)
    <3>1. f.temp \o Returned \in Seq(Commands)
      BY <2>7, <2>8
    <3>2. KeptOf(f.temp \o Returned) = KeptOf(f.temp) \o KeptOf(Returned)
      BY <2>7, <2>8, KeptOfConcat
    <3> QED BY <2>5, <2>8, <3>1, <3>2
  <2>10. g = [buffer |-> f.buffer, start |-> f.start + Len(Encode(p)), temp |-> f.temp \o Returned]
    <3> DEFINE n == f.buffer[f.start + 1].totalSize
               y == f.start + n
               u == f.temp \o Returned
               b == f.buffer
               x == f.start
               t == f.temp
    <3>1. g = [f EXCEPT !.start = y, !.temp = u] /\ y = f.start + Len(Encode(p))
      BY <2>6
    <3> HIDE DEF n, y, u, g
    <3>2. f = [buffer |-> b, start |-> x, temp |-> t]
      BY DEF FrameRecords
    <3> HIDE DEF b, x, t
    <3>3. [f EXCEPT !.start = y, !.temp = u] = [buffer |-> b, start |-> y, temp |-> u]
      <4> DEFINE f1 == [buffer |-> b, start |-> y, temp |-> t]
      <4>1. [f EXCEPT !.start = y] = f1
        BY <3>2
      <4>2. [f1 EXCEPT !.temp = u] = [buffer |-> b, start |-> y, temp |-> u]
        OBVIOUS
      <4> QED BY <4>1, <4>2
    <3> QED BY <3>1, <3>3 DEF u, b
  <2>11. g \in FrameRecords
    <3> HIDE DEF g
    <3>1. f.start + Len(Encode(p)) \in Nat
      BY <2>6, <2>7
    <3> QED BY <2>7, <2>9, <2>10, <3>1 DEF FrameRecords
  <2> HIDE DEF g
  <2>12. At(g, packets)
    <3>1. g.buffer = f.buffer /\ g.start = f.start + Len(Encode(p)) /\ g.temp = f.temp \o Returned
      BY <2>10
    <3> QED BY <2>1, <2>9, <2>11, <3>1, MessageType, BeforeStep
  <2>13. LastIs(earlier, packets)'
    BY <1>1, <2>1, <2>3 DEF LastIs
  <2>14. InMessage'
    BY <2>1, <2>3, <2>11, <2>12, <2>13 DEF InMessage
  <2>15. Typing'
    BY <1>1, <2>3 DEF IInv, Typing
  <2> QED BY <2>14, <2>15 DEF IInv
<1> QED BY <1>1, <1>5, <1>6 DEF IInv, Between

LEMMA AddTaskStep ==
    ASSUME IInv, AddTask
    PROVE  IInv'
<1>1. /\ frames = <<>> /\ pack # <<>> /\ tasks' = Append(tasks, Head(pack)) /\ pack' = Tail(pack)
      /\ UNCHANGED <<frames, terminated, sent>>
  BY DEF AddTask
<1>2. tasks \in Seq(Known) /\ pack \in Seq(Known)
  BY DEF IInv, Typing
<1>3. tasks \o pack = Expected
  BY <1>1 DEF IInv, Between, InMessage, InBody
<1>4. Head(pack) \in Known /\ Tail(pack) \in Seq(Known) /\ pack = <<Head(pack)>> \o Tail(pack)
  BY <1>1, <1>2, FirstAndRest
<1> DEFINE h == Head(pack)
           t == Tail(pack)
<1> HIDE DEF h, t
<1>5. Append(tasks, h) \o t = tasks \o (<<h>> \o t)
  BY <1>2, <1>4 DEF h, t
<1>6. tasks' \o pack' = Expected'
  BY <1>1, <1>3, <1>4, <1>5 DEF Expected, h, t
<1>7. Between'
  BY <1>1, <1>6 DEF Between
<1>8. Typing'
  BY <1>1, <1>2, <1>4 DEF IInv, Typing
<1> QED BY <1>7, <1>8 DEF IInv

LEMMA IInvNext == IInv /\ [Next]_vars => IInv'
<1> SUFFICES ASSUME IInv, [Next]_vars PROVE IInv'
  OBVIOUS
<1>1. ASSUME NEW packets \in Messages, OnRead(packets) PROVE IInv'
  BY <1>1, OnReadStep
<1>2. CASE UnpackBodyNoneCompress
  BY <1>2, NoneCompressStep
<1>3. CASE UnpackBody
  BY <1>3, UnpackBodyStep
<1>4. CASE UnpackBodyZlibThrows
  BY <1>4, ZlibThrowsStep
<1>5. CASE UnpackBodyBrotliFails
  BY <1>5, BrotliFailsStep
<1>6. CASE SkipPacket
  BY <1>6, SkipPacketStep
<1>7. CASE SkipHeartbeat
  BY <1>7, SkipHeartbeatStep
<1>8. CASE ReturnCommands
  BY <1>8, ReturnStep
<1>9. CASE AddTask
  BY <1>9, AddTaskStep
<1>10. CASE UNCHANGED vars
  BY <1>10, Stutter DEF vars
<1> QED BY <1>1, <1>2, <1>3, <1>4, <1>5, <1>6, <1>7, <1>8, <1>9, <1>10 DEF Next, UnpackSteps

-----------------------------------------------------------------------------
(* What follows for every call under way                                   *)

\* A call that stands at a packet stands at a header within its buffer.
LEMMA PlaceOfCall ==
    ASSUME NEW packets \in Seq(PacketsOfServer), NEW f \in FrameRecords, At(f, packets)
    PROVE  /\ f.start <= Len(f.buffer)
           /\ IsHeader(f.buffer, f.start) \/ f.start = Len(f.buffer)
           /\ f.buffer = Buffer(packets)
<1>1. f.start \in Nat /\ Len(f.buffer) \in Nat
  <2>1. f.buffer \in Seq(Cells) /\ f.start \in Nat
    BY DEF FrameRecords
  <2> QED BY <2>1
<1>2. f.buffer = Buffer(packets)
  BY DEF At
<1>3. CASE f.start = Len(f.buffer)
  BY <1>1, <1>2, <1>3
<1>4. ASSUME NEW done \in Seq(PacketsOfServer), NEW rest \in Seq(PacketsOfServer), NEW p \in PacketsOfServer,
             Before(f, packets, done, p, rest)
      PROVE  f.start <= Len(f.buffer) /\ IsHeader(f.buffer, f.start)
  <2>1. /\ Len(Encode(p)) \in Nat \ {0} /\ f.start + Len(Encode(p)) <= Len(f.buffer)
        /\ IsHeader(f.buffer, f.start)
    BY <1>4, BeforeCells
  <2> QED BY <1>1, <2>1
<1> QED BY <1>2, <1>3, <1>4, BeforeOrEnd

LEMMA PlaceOfOuter ==
    ASSUME NEW packets \in Seq(PacketsOfServer), NEW f \in FrameRecords,
           NEW done \in Seq(PacketsOfServer), NEW p \in PacketsOfServer, NEW rest \in Seq(PacketsOfServer),
           Before(f, packets, done, p, rest)
    PROVE  At(f, packets)
<1> DEFINE todo == <<p>> \o rest
<1>1. todo \in Seq(PacketsOfServer) /\ (done \o <<p>>) \o rest = done \o todo
  OBVIOUS
<1> HIDE DEF todo
<1> QED BY <1>1 DEF At, Before

\* The buffers are those of messages and of what is compressed in them.
LEMMA FramesAre ==
    ASSUME IInv
    PROVE  \A i \in DOMAIN frames :
              /\ frames[i] \in FrameRecords
              /\ \E packets \in Seq(PacketsOfServer) :
                    packets \in Messages \cup Payloads /\ At(frames[i], packets)
<1>1. CASE Between
  BY <1>1 DEF Between
<1>2. CASE InMessage
  <2>1. PICK packets \in Messages, f \in FrameRecords : frames = <<f>> /\ At(f, packets)
    BY <1>2 DEF InMessage
  <2>2. \A i \in DOMAIN frames : frames[i] = f
    BY <2>1
  <2> QED BY <2>1, <2>2, MessageType
<1>3. CASE InBody
  <2>1. PICK packets \in Messages, f \in FrameRecords, h \in FrameRecords,
             done \in Seq(PacketsOfServer), rest \in Seq(PacketsOfServer), p \in PacketsOfServer :
           /\ frames = <<f, h>> /\ Before(f, packets, done, p, rest)
           /\ p.kind \in {"zlib", "brotli"} /\ p.intact /\ At(h, p.packets)
    BY <1>3 DEF InBody
  <2>2. At(f, packets) /\ packets \in Seq(PacketsOfServer)
    BY <2>1, MessageType, PlaceOfOuter
  <2>3. p.packets \in Seq(PacketsOfServer)
    BY <2>1, CommandsOfCompressed
  <2>4. p.packets \in Payloads
    <3>3. p \in ToSet(packets)
      BY <2>1, MessageType, AmongPackets
    <3> QED BY <2>1, <3>3 DEF Payloads
  <2>5. \A i \in DOMAIN frames : frames[i] = f \/ frames[i] = h
    BY <2>1
  <2> QED BY <2>1, <2>2, <2>3, <2>4, <2>5
<1> QED BY <1>1, <1>2, <1>3 DEF IInv

LEMMA IInvAlways == Spec => []IInv
BY IInvInit, IInvNext, PTL DEF Spec

-----------------------------------------------------------------------------
(* Theorems                                                                *)

\* The variables keep their types, and no call moves past the end of its
\* buffer.
THEOREM TypeCorrect == Spec => []TypeOK
<1>1. IInv => TypeOK
  <2> SUFFICES ASSUME IInv PROVE TypeOK
    OBVIOUS
  <2> DEFINE Records == [buffer : Buffers, start : Nat, temp : Seq(Commands)]
  <2>1. ASSUME NEW i \in DOMAIN frames
        PROVE  frames[i] \in Records /\ frames[i].start <= Len(frames[i].buffer)
    <3>1. PICK packets \in Seq(PacketsOfServer) :
             packets \in Messages \cup Payloads /\ At(frames[i], packets)
      BY FramesAre
    <3>2. frames[i] \in FrameRecords
      BY FramesAre
    <3>3. frames[i].buffer = Buffer(packets) /\ frames[i].start <= Len(frames[i].buffer)
      BY <3>1, <3>2, PlaceOfCall
    <3>4. frames[i].buffer \in Buffers
      BY <3>1, <3>3 DEF Buffers
    <3> QED BY <3>2, <3>3, <3>4 DEF FrameRecords
  <2>2. frames \in Seq(FrameRecords)
    <3>1. \A f, g \in FrameRecords : <<f, g>> \in Seq(FrameRecords) /\ <<f>> \in Seq(FrameRecords)
      OBVIOUS
    <3>2. <<>> \in Seq(FrameRecords)
      OBVIOUS
    <3> QED BY <3>1, <3>2 DEF IInv, Between, InMessage, InBody
  <2>3. frames \in Seq(Records)
    <3> HIDE DEF Records
    <3>1. Len(frames) \in Nat /\ DOMAIN frames = 1..Len(frames) /\ frames \in [1..Len(frames) -> FrameRecords]
      BY <2>2, LenProperties
    <3>2. frames \in [1..Len(frames) -> Records]
      BY <2>1, <3>1
    <3> QED BY <3>1, <3>2, FunctionIsSeq
  <2> QED BY <2>1, <2>3 DEF TypeOK, IInv, Typing
<1> QED BY <1>1, IInvAlways, PTL

\* What Unpack takes for a header is one: every call stands at the header of a
\* packet or at the end of its buffer.  This is so for messages as
\* MessagesAssumption has them, of any packets but a reply whose popularity has
\* { next to } and a reply without its echo before other packets; behind those the
\* code does take other bytes for a header.
THEOREM HeadersAreHeaders == Spec => []AtHeader
<1>1. IInv => AtHeader
  <2> SUFFICES ASSUME IInv, NEW i \in DOMAIN frames
               PROVE  IsHeader(frames[i].buffer, frames[i].start) \/ frames[i].start = Len(frames[i].buffer)
    BY DEF AtHeader
  <2>1. PICK packets \in Seq(PacketsOfServer) : At(frames[i], packets)
    BY FramesAre
  <2>2. frames[i] \in FrameRecords
    BY FramesAre
  <2> QED BY <2>1, <2>2, PlaceOfCall
<1> QED BY <1>1, IInvAlways, PTL

\* The pool gets the commands of all packets, once each and in the order of
\* the server, for every list of messages and whatever is compressed in them.
THEOREM InOrder == Spec => []CommandsInOrder
<1>1. ASSUME NEW s \in Seq(Known), NEW t \in Seq(Known)
      PROVE  IsPrefix(s, s \o t)
  <2>1. Len(s) <= Len(s \o t) /\ Len(s) \in Nat
    OBVIOUS
  <2>2. SubSeq(s, 1, Len(s)) = s
    BY SubSeqFull
  <2>3. SubSeq(s \o t, 1, Len(s)) = s
    OBVIOUS
  <2> QED BY <2>1, <2>2, <2>3 DEF IsPrefix
<1>2. IInv => CommandsInOrder
  <2> SUFFICES ASSUME IInv PROVE CommandsInOrder
    OBVIOUS
  <2>1. tasks \in Seq(Known) /\ pack \in Seq(Known)
    BY DEF IInv, Typing
  <2>2. CASE Between
    <3>1. IsPrefix(tasks, Expected)
      BY <1>1, <2>1, <2>2 DEF Between
    <3>2. pack = <<>> => tasks = Expected
      BY <2>1, <2>2 DEF Between
    <3> QED BY <3>1, <3>2 DEF CommandsInOrder
  <2>3. ASSUME NEW earlier \in Seq(Messages), NEW packets \in Messages, LastIs(earlier, packets)
        PROVE  IsPrefix(tasks, Expected)
    <3>1. Expected = tasks \o CommandsIn(packets)
      BY <2>3, ExpectedNext DEF LastIs, Expected
    <3>2. CommandsIn(packets) \in Seq(Known)
      BY MessageType, CommandsInType
    <3> QED BY <1>1, <2>1, <3>1, <3>2
  <2>4. CASE InMessage
    BY <2>3, <2>4 DEF InMessage, CommandsInOrder
  <2>5. CASE InBody
    BY <2>3, <2>5 DEF InBody, CommandsInOrder
  <2> QED BY <2>2, <2>4, <2>5 DEF IInv
<1> QED BY <1>2, IInvAlways, PTL

\* At the reply to a heartbeat there is a {} to go behind, unless the message
\* holds a packet with no way on.
EchoFound ==
    InLoop /\ UnpackHeader.operation = "HEARTBEAT_REPLY" =>
        BracesFrom(Innermost.start) # {} \/ Endless(Last(sent))

\* The loop of Unpack finds the echo of every reply that has one, whatever the
\* popularity before it and the packets behind it: only a message in which a
\* packet has no way on can keep it at a reply for ever.  This is the part of
\* UnpackEnds that is about replies.
THEOREM EchoIsFound == Spec => []EchoFound
<1>1. IInv => EchoFound
  <2> SUFFICES ASSUME IInv, InLoop, UnpackHeader.operation = "HEARTBEAT_REPLY",
                      BracesFrom(Innermost.start) = {}
               PROVE  Endless(Last(sent))
    BY DEF EchoFound
  <2>1. Innermost \in FrameRecords /\ frames # <<>> /\ Innermost.start < Len(Innermost.buffer)
    BY InnermostAt DEF InLoop, IsHeader
  <2>2. BracesIn(Innermost.buffer, Innermost.start) = {}
    BY DEF BracesFrom, BracesIn
  <2>3. ASSUME NEW packets \in Seq(PacketsOfServer), At(Innermost, packets)
        PROVE  \E p \in ToSet(packets) : NoWayOn(p)
    <3>1. PICK done \in Seq(PacketsOfServer), rest \in Seq(PacketsOfServer), p \in PacketsOfServer :
             Before(Innermost, packets, done, p, rest)
      <4>1. Innermost.start \in Nat
        BY <2>1 DEF FrameRecords
      <4>2. Innermost.start # Len(Innermost.buffer)
        BY <2>1, <4>1
      <4> QED BY <2>1, <2>3, <4>2, BeforeOrEnd
    <3>2. p.kind = "heartbeat"
      <4> SUFFICES ASSUME p.kind # "heartbeat" PROVE FALSE
        OBVIOUS
      <4>1. Innermost.buffer[Innermost.start + 1] = HeaderOf(p)
        BY <2>1, <3>1, BeforeBody
      <4>2. HeaderOf(p).operation = "SEND_MSG_REPLY"
        BY DEF HeaderOf
      <4> QED BY <4>1, <4>2 DEF UnpackHeader
    <3>3. NoWayOn(p)
      BY <2>1, <2>2, <3>1, <3>2, BeforeHeartbeat DEF NoWayOn
    <3> QED BY <3>1, <3>3, AmongPackets
  <2>4. ASSUME NEW earlier \in Seq(Messages), NEW packets \in Messages, LastIs(earlier, packets)
        PROVE  Last(sent) = packets
    BY <2>4 DEF LastIs, Last
  <2>5. CASE InMessage
    <3>1. PICK earlier \in Seq(Messages), packets \in Messages, f \in FrameRecords :
             LastIs(earlier, packets) /\ frames = <<f>> /\ At(f, packets)
      BY <2>5 DEF InMessage
    <3>2. Innermost = f
      BY <3>1 DEF Innermost, Last
    <3>3. \E p \in ToSet(packets) : NoWayOn(p)
      BY <2>3, <3>1, <3>2, MessageType
    <3> QED BY <2>4, <3>1, <3>3 DEF Endless
  <2>6. CASE InBody
    <3>1. PICK earlier \in Seq(Messages), packets \in Messages, f \in FrameRecords, h \in FrameRecords,
               done \in Seq(PacketsOfServer), rest \in Seq(PacketsOfServer), p \in PacketsOfServer :
             /\ LastIs(earlier, packets) /\ frames = <<f, h>> /\ Before(f, packets, done, p, rest)
             /\ p.kind \in {"zlib", "brotli"} /\ p.intact /\ At(h, p.packets)
      BY <2>6 DEF InBody
    <3>2. Innermost = h
      BY <3>1 DEF Innermost, Last
    <3>3. \E q \in ToSet(p.packets) : NoWayOn(q)
      BY <2>3, <3>1, <3>2, CommandsOfCompressed
    <3>4. p \in ToSet(packets)
      BY <3>1, MessageType, AmongPackets
    <3> QED BY <2>4, <3>1, <3>3, <3>4 DEF Endless
  <2> QED BY <2>1, <2>5, <2>6 DEF IInv, Between
<1> QED BY <1>1, IInvAlways, PTL
=============================================================================
