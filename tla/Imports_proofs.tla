--------------------------- MODULE Imports_proofs ---------------------------
(***************************************************************************)
(* What share links, Xray JSON and the contents of a subscription or of a  *)
(* local file become, whatever they hold: a list of profiles, each with    *)
(* the identity that its fields give it and a name that no other has.      *)
(***************************************************************************)
EXTENDS Imports, FiniteSetTheorems, WellFoundedInduction, TLAPS

-----------------------------------------------------------------------------
(* Lists.                                                                  *)

LEMMA LeastNatural ==
  ASSUME NEW T, T \subseteq Nat, T # {}
  PROVE  \E n \in T : \A m \in T : n <= m
<1> DEFINE Less == {pair \in Nat \X Nat : pair[1] < pair[2]}
<1>1. Less = OpToRel(<, Nat)
  BY Zenon DEF OpToRel
<1>3. \A i, j \in Nat : i < j => <<i, j>> \in Less
  OBVIOUS
<1>5. IsWellFoundedOn(Less, Nat)
  BY <1>1, NatLessThanWellFounded, Zenon
<1> HIDE DEF Less
<1>2. PICK n \in T : \A m \in T : ~(<<m, n>> \in Less)
  BY <1>5, WFMin, Zenon
<1>4. ASSUME NEW m \in T PROVE n <= m
  <2>1. n \in Nat /\ m \in Nat
    OBVIOUS
  <2>2. ~(m < n)
    BY <1>2, <1>3, <2>1
  <2> QED
    BY <2>1, <2>2
<1> QED
  BY <1>4

LEMMA ListRange ==
  ASSUME NEW s, IsList(s)
  PROVE  Len(s) \in Nat /\ DOMAIN s = 1..Len(s)
BY DEF IsList

LEMMA FunctionIsList ==
  ASSUME NEW n \in Nat, NEW s, s = [i \in 1..n |-> s[i]]
  PROVE  IsList(s)
<1>1. DOMAIN s = 1..n
  OBVIOUS
<1>2. s \in [1..n -> {s[i] : i \in DOMAIN s}]
  BY <1>1
<1> QED BY <1>2 DEF IsList

LEMMA MappedIsList ==
  ASSUME NEW s, IsList(s), NEW t, t = [i \in DOMAIN s |-> t[i]]
  PROVE  IsList(t) /\ DOMAIN t = DOMAIN s
BY ListRange, FunctionIsList

LEMMA EmptyIsList == IsList(<<>>)
BY DEF IsList
LEMMA OneIsList == ASSUME NEW x PROVE IsList(<<x>>)
BY DEF IsList

LEMMA ConcatIsList ==
  ASSUME NEW s, NEW t, IsList(s), IsList(t)
  PROVE  /\ IsList(s \o t)
         /\ \A k \in DOMAIN (s \o t) : \/ \E i \in DOMAIN s : (s \o t)[k] = s[i]
                                       \/ \E i \in DOMAIN t : (s \o t)[k] = t[i]
<1> DEFINE U == {s[i] : i \in DOMAIN s} \cup {t[i] : i \in DOMAIN t}
<1>1. s \in Seq(U) /\ t \in Seq(U)
  BY DEF IsList
<1> HIDE DEF U
<1>2. s \o t \in Seq(U) /\ Len(s \o t) = Len(s) + Len(t)
  BY <1>1
<1>3. \A k \in DOMAIN (s \o t) : \/ \E i \in DOMAIN s : (s \o t)[k] = s[i]
                                 \/ \E i \in DOMAIN t : (s \o t)[k] = t[i]
  BY <1>1
<1>4. IsList(s \o t)
  <2> DEFINE r == s \o t
  <2>1. r \in Seq(U)
    BY <1>2
  <2> HIDE DEF r
  <2>4. Len(r) \in Nat /\ r \in [1..Len(r) -> U]
    BY <2>1
  <2>2. r = [k \in 1..Len(r) |-> r[k]]
    BY <2>4
  <2>3. IsList(r)
    BY <2>4, <2>2, FunctionIsList
  <2> QED BY <2>3 DEF r
<1> QED BY <1>3, <1>4

\* What FlattenSeq computes, step by step.
Flat(ss, n, f) == f = [i \in 1..n |-> IF i = 1 THEN ss[i] ELSE f[i - 1] \o ss[i]]

LEMMA FlatExists ==
  ASSUME NEW ss, NEW N \in Nat
  PROVE  \E f : Flat(ss, N, f)
<1> DEFINE T == {n \in Nat : ~ \E f : Flat(ss, n, f)}
<1>1. SUFFICES ASSUME T # {} PROVE FALSE
  OBVIOUS
<1>2. PICK n \in T : \A m \in T : n <= m
  BY <1>1, LeastNatural
<1>3. CASE n = 0
  <2>1. Flat(ss, 0, [i \in 1..0 |-> ss[i]])
    BY DEF Flat
  <2> QED BY <1>3, <2>1
<1>4. CASE n # 0
  <2>1. n \in Nat /\ n - 1 \in Nat /\ n - 1 \notin T
    BY <1>2, <1>4
  <2>2. PICK g : Flat(ss, n - 1, g)
    BY <2>1
  <2> DEFINE last == IF n = 1 THEN ss[n] ELSE g[n - 1] \o ss[n]
             h == [i \in 1..n |-> IF i = n THEN last ELSE g[i]]
  <2>3. \A i \in 1..(n - 1) : g[i] = IF i = 1 THEN ss[i] ELSE g[i - 1] \o ss[i]
    BY <2>2 DEF Flat
  <2>4. ASSUME NEW i \in 1..n
        PROVE  h[i] = IF i = 1 THEN ss[i] ELSE h[i - 1] \o ss[i]
    <3>1. CASE i = n
      BY <2>1, <3>1
    <3>2. CASE i # n
      <4>1. i \in 1..(n - 1) /\ h[i] = g[i] /\ (i # 1 => h[i - 1] = g[i - 1])
        BY <2>1, <3>2
      <4> QED BY <2>3, <4>1
    <3> QED BY <3>1, <3>2
  <2>5. h = [i \in 1..n |-> h[i]]
    OBVIOUS
  <2> HIDE DEF h
  <2>6. Flat(ss, n, h)
    BY <2>4, <2>5 DEF Flat
  <2> QED BY <2>6
<1> QED BY <1>3, <1>4

LEMMA FlatHolds ==
  ASSUME NEW ss, IsList(ss), \A i \in DOMAIN ss : IsList(ss[i]), NEW f,
         Flat(ss, Len(ss), f), NEW last \in DOMAIN ss
  PROVE  /\ IsList(f[last])
         /\ \A k \in DOMAIN f[last] :
              \E i \in DOMAIN ss : \E j \in DOMAIN ss[i] : f[last][k] = ss[i][j]
<1> DEFINE Holds(n) ==
             /\ IsList(f[n])
             /\ \A k \in DOMAIN f[n] :
                  \E i \in DOMAIN ss : \E j \in DOMAIN ss[i] : f[n][k] = ss[i][j]
           T == {n \in DOMAIN ss : ~Holds(n)}
<1>0. DOMAIN ss = 1..Len(ss) /\ Len(ss) \in Nat
  BY ListRange
<1>1. SUFFICES ASSUME T # {} PROVE FALSE
  OBVIOUS
<1>2. PICK n \in T : \A m \in T : n <= m
  <2>1. T \subseteq Nat
    BY <1>0
  <2> QED BY <1>1, <2>1, LeastNatural
<1>3. CASE n = 1
  <2>1. f[n] = ss[n]
    BY <1>0, <1>3 DEF Flat
  <2> QED BY <1>2, <2>1
<1>4. CASE n # 1
  <2>1. /\ n \in DOMAIN ss /\ n - 1 \in DOMAIN ss
        /\ f[n] = f[n - 1] \o ss[n]
    <3>1. n \in DOMAIN ss /\ n - 1 \in DOMAIN ss
      BY <1>0, <1>2, <1>4
    <3> QED BY <1>0, <1>4, <3>1 DEF Flat
  <2>2. Holds(n - 1)
    BY <1>0, <1>2, <2>1
  <2>3. /\ IsList(f[n])
        /\ \A k \in DOMAIN f[n] : \/ \E i \in DOMAIN f[n - 1] : f[n][k] = f[n - 1][i]
                                  \/ \E i \in DOMAIN ss[n] : f[n][k] = ss[n][i]
    <3>1. IsList(f[n - 1]) /\ IsList(ss[n])
      BY <2>1, <2>2
    <3> DEFINE s == f[n - 1]
               t == ss[n]
    <3>2. f[n] = s \o t /\ IsList(s) /\ IsList(t)
      BY <2>1, <3>1
    <3> HIDE DEF s, t
    <3>3. /\ IsList(s \o t)
          /\ \A k \in DOMAIN (s \o t) :
               \/ \E i \in DOMAIN s : (s \o t)[k] = s[i]
               \/ \E i \in DOMAIN t : (s \o t)[k] = t[i]
      BY <3>2, ConcatIsList
    <3> QED BY <3>2, <3>3, Zenon DEF s, t
  <2>4. Holds(n)
    BY <2>1, <2>2, <2>3
  <2> QED BY <2>4
<1> QED BY <1>3, <1>4

LEMMA FlattenIsList ==
  ASSUME NEW ss, IsList(ss), \A i \in DOMAIN ss : IsList(ss[i])
  PROVE  /\ IsList(FlattenSeq(ss))
         /\ \A k \in DOMAIN FlattenSeq(ss) :
              \E i \in DOMAIN ss : \E j \in DOMAIN ss[i] : FlattenSeq(ss)[k] = ss[i][j]
<1> DEFINE f == CHOOSE g : Flat(ss, Len(ss), g)
<1>1. Len(ss) \in Nat /\ DOMAIN ss = 1..Len(ss)
  BY ListRange
<1>2. CASE Len(ss) = 0
  <2>1. FlattenSeq(ss) = ss /\ DOMAIN ss = {}
    BY <1>1, <1>2 DEF FlattenSeq
  <2> QED BY <2>1
<1>3. CASE Len(ss) # 0
  <2>1. Flat(ss, Len(ss), f)
    BY <1>1, FlatExists
  <2>2. FlattenSeq(ss) = f[Len(ss)]
    BY <1>3, Zenon DEF FlattenSeq, Flat
  <2>3. Len(ss) \in DOMAIN ss
    BY <1>1, <1>3
  <2> HIDE DEF f
  <2> QED BY <2>1, <2>2, <2>3, FlatHolds
<1> QED BY <1>2, <1>3

-----------------------------------------------------------------------------
(* Names made distinct.  Whatever names are taken, one of the numbers that *)
(* are tried is free, because there are more of them than names: for that  *)
(* different numbers must be written as different words, as strconv.Itoa   *)
(* writes them.                                                            *)

Numbered == \A m, n \in Nat : lower(ToString(m)) = lower(ToString(n)) => m = n
NamesApart(ps) ==
  Numbered => \A i, j \in DOMAIN ps : i # j => NameKey(ps[i].name) # NameKey(ps[j].name)

NumberedName(name, n) == Append(name, ToString(n))

LEMMA NumberedNames ==
  ASSUME Numbered, NEW name, IsList(name), NEW m \in Nat, NEW n \in Nat,
         NameKey(NumberedName(name, m)) = NameKey(NumberedName(name, n))
  PROVE  m = n
<1>1. \A w : LET s == Append(name, w)
             IN  DOMAIN s = 1..(Len(name) + 1) /\ s[Len(name) + 1] = w
  BY DEF IsList
<1>2. \A k \in Nat : NameKey(NumberedName(name, k))[Len(name) + 1] = lower(ToString(k))
  <2> TAKE k \in Nat
  <2> DEFINE s == NumberedName(name, k)
  <2>1. DOMAIN s = 1..(Len(name) + 1) /\ s[Len(name) + 1] = ToString(k)
    BY <1>1 DEF NumberedName
  <2>2. Len(name) + 1 \in DOMAIN s
    BY <2>1, ListRange
  <2> HIDE DEF s
  <2> QED BY <2>1, <2>2 DEF NameKey, s
<1> QED BY <1>2 DEF Numbered

LEMMA AppendIsList ==
  ASSUME NEW s, IsList(s), NEW x
  PROVE  IsList(Append(s, x))
<1>1. Append(s, x) = s \o <<x>>
  BY DEF IsList
<1> QED BY <1>1, ConcatIsList, OneIsList

\* The name that a name becomes when used are taken and n numbers are tried.
FreeName(used, name, n) ==
  IF NameKey(name) \notin used THEN name
  ELSE LET k == CHOOSE k \in 2..(n + 1) :
                  /\ NameKey(NumberedName(name, k)) \notin used
                  /\ \A m \in 2..(k - 1) : NameKey(NumberedName(name, m)) \in used
       IN  NumberedName(name, k)

LEMMA FreeNameIsList ==
  ASSUME NEW used, NEW name, IsList(name), NEW n
  PROVE  IsList(FreeName(used, name, n))
BY AppendIsList DEF FreeName, NumberedName

LEMMA FreeNameIsFree ==
  ASSUME Numbered, NEW used, IsFiniteSet(used), NEW n \in Nat, Cardinality(used) < n,
         NEW name, IsList(name)
  PROVE  NameKey(FreeName(used, name, n)) \notin used
<1> DEFINE numbers == 2..(n + 1)
           free    == {k \in numbers : NameKey(NumberedName(name, k)) \notin used}
<1>1. free # {}
  <2> SUFFICES ASSUME \A k \in numbers : NameKey(NumberedName(name, k)) \in used
               PROVE  FALSE
    OBVIOUS
  <2> DEFINE f == [k \in numbers |-> NameKey(NumberedName(name, k))]
  <2>1. IsFiniteSet(numbers) /\ Cardinality(numbers) = n
    BY FS_Interval
  <2>2. f \in [numbers -> used]
    OBVIOUS
  <2>3. \A k \in numbers : f[k] = NameKey(NumberedName(name, k)) /\ k \in Nat
    OBVIOUS
  <2> HIDE DEF f, numbers
  <2>4. PICK j \in numbers, k \in numbers : j # k /\ f[j] = f[k]
    BY <2>1, <2>2, FS_PigeonHole
  <2> QED BY <2>3, <2>4, NumberedNames
<1>2. PICK k \in free : \A m \in free : k <= m
  <2>1. free \subseteq Nat
    OBVIOUS
  <2> HIDE DEF free
  <2> QED BY <1>1, <2>1, LeastNatural
<1>3. /\ k \in numbers /\ NameKey(NumberedName(name, k)) \notin used
      /\ \A m \in 2..(k - 1) : NameKey(NumberedName(name, m)) \in used
  <2>1. \A m \in 2..(k - 1) : m \in numbers /\ m < k
    BY <1>2
  <2> QED BY <1>2, <2>1
<1> HIDE DEF free
<1> DEFINE Fits(l) == /\ NameKey(NumberedName(name, l)) \notin used
                      /\ \A m \in 2..(l - 1) : NameKey(NumberedName(name, m)) \in used
           first == CHOOSE l \in 2..(n + 1) : Fits(l)
<1>4. Fits(first)
  <2>1. k \in 2..(n + 1) /\ Fits(k)
    BY <1>3
  <2> HIDE DEF Fits
  <2> QED BY <2>1
<1>5. FreeName(used, name, n) = IF NameKey(name) \notin used THEN name
                                ELSE NumberedName(name, first)
  BY Zenon DEF FreeName
<1> QED BY <1>4, <1>5

\* The names that a list of profiles gets, one after another.
Naming(ps, D, f) ==
  f = [i \in D |-> FreeName({NameKey(f[j]) : j \in 1..(i - 1)}, ps[i].name, Len(ps))]

LEMMA NamingExists ==
  ASSUME NEW ps, NEW N \in Nat
  PROVE  \E f : Naming(ps, 1..N, f)
<1> DEFINE T == {n \in Nat : ~ \E f : Naming(ps, 1..n, f)}
<1>1. SUFFICES ASSUME T # {} PROVE FALSE
  OBVIOUS
<1>2. PICK n \in T : \A m \in T : n <= m
  BY <1>1, LeastNatural
<1>3. CASE n = 0
  <2>1. Naming(ps, 1..0, [i \in 1..0 |-> i])
    BY DEF Naming
  <2> QED BY <1>3, <2>1
<1>4. CASE n # 0
  <2>1. n \in Nat /\ n - 1 \in Nat /\ n - 1 \notin T
    BY <1>2, <1>4
  <2>2. PICK g : Naming(ps, 1..(n - 1), g)
    BY <2>1
  <2> DEFINE Taken(h, i) == {NameKey(h[j]) : j \in 1..(i - 1)}
             New(h, i)   == FreeName(Taken(h, i), ps[i].name, Len(ps))
             h == [i \in 1..n |-> IF i = n THEN New(g, n) ELSE g[i]]
  <2>3. \A i \in 1..(n - 1) : g[i] = New(g, i)
    <3> HIDE DEF New
    <3>1. g = [i \in 1..(n - 1) |-> New(g, i)]
      BY <2>2, Zenon DEF Naming, New
    <3> QED BY <3>1
  <2>4. ASSUME NEW i \in 1..n
        PROVE  h[i] = New(h, i)
    <3>1. \A j \in 1..(i - 1) : h[j] = g[j]
      BY <2>1
    <3>2. h[i] = IF i = n THEN New(g, n) ELSE g[i]
      OBVIOUS
    <3> HIDE DEF h
    <3>3. Taken(h, i) = Taken(g, i)
      BY <3>1
    <3>4. New(h, i) = New(g, i)
      BY <3>3
    <3>5. i # n => i \in 1..(n - 1)
      BY <2>1
    <3>6. i # n => g[i] = New(g, i)
      <4> HIDE DEF New
      <4> QED BY <2>3, <3>5
    <3> HIDE DEF New
    <3> QED BY <3>2, <3>4, <3>6
  <2>5. h = [i \in 1..n |-> h[i]]
    <3> HIDE DEF New
    <3> QED OBVIOUS
  <2> HIDE DEF h
  <2>6. h = [i \in 1..n |-> New(h, i)]
    <3> HIDE DEF New
    <3> QED BY <2>4, <2>5
  <2>7. Naming(ps, 1..n, h)
    BY <2>6, Zenon DEF Naming
  <2> QED BY <2>7
<1> QED BY <1>3, <1>4

\* What deduplicateDisplayNames makes of the names.
LEMMA DeduplicationNames ==
  ASSUME NEW ps, IsList(ps), \A i \in DOMAIN ps : IsList(ps[i].name)
  PROVE  \E f : /\ DeduplicateDisplayNames(ps) = [i \in DOMAIN ps |-> [ps[i] EXCEPT !.name = f[i]]]
                /\ \A i \in DOMAIN ps : IsList(f[i])
                /\ Numbered => \A i, j \in DOMAIN ps : i # j => NameKey(f[i]) # NameKey(f[j])
<1> DEFINE f == CHOOSE f : Naming(ps, DOMAIN ps, f)
           used(i) == {NameKey(f[j]) : j \in 1..(i - 1)}
<1>1. DOMAIN ps = 1..Len(ps) /\ Len(ps) \in Nat
  BY ListRange
<1>2. Naming(ps, DOMAIN ps, f)
  BY <1>1, NamingExists
<1>3. DeduplicateDisplayNames(ps) = [i \in DOMAIN ps |-> [ps[i] EXCEPT !.name = f[i]]]
  BY Zenon DEF DeduplicateDisplayNames, Naming, FreeName, NumberedName
<1> HIDE DEF f
<1>4. \A i \in DOMAIN ps : f[i] = FreeName(used(i), ps[i].name, Len(ps))
  <2> DEFINE New(i) == FreeName(used(i), ps[i].name, Len(ps))
  <2> HIDE DEF New
  <2>1. f = [i \in DOMAIN ps |-> New(i)]
    BY <1>2, Zenon DEF Naming, New
  <2>2. \A i \in DOMAIN ps : f[i] = New(i)
    BY <2>1
  <2> QED BY <2>2 DEF New
<1>5. \A i \in DOMAIN ps : IsList(f[i])
  BY <1>4, FreeNameIsList
<1>6. ASSUME Numbered, NEW i \in DOMAIN ps
      PROVE  NameKey(f[i]) \notin used(i)
  <2>1. IsFiniteSet(1..(i - 1)) /\ Cardinality(1..(i - 1)) = i - 1
    <3> DEFINE k == i - 1
    <3>1. k \in Nat
      BY <1>1
    <3> HIDE DEF k
    <3>2. IsFiniteSet(1..k) /\ Cardinality(1..k) = IF 1 > k THEN 0 ELSE k - 1 + 1
      BY <3>1, FS_Interval
    <3>3. IsFiniteSet(1..k) /\ Cardinality(1..k) = k
      BY <3>1, <3>2
    <3> QED BY <3>3 DEF k
  <2>2. IsFiniteSet(used(i)) /\ Cardinality(used(i)) <= i - 1
    <3> DEFINE g == [j \in 1..(i - 1) |-> NameKey(f[j])]
    <3>1. g \in Surjection(1..(i - 1), used(i))
      BY DEF Surjection
    <3> HIDE DEF g
    <3>2. IsFiniteSet(used(i)) /\ Cardinality(used(i)) <= Cardinality(1..(i - 1))
      BY <2>1, <3>1, FS_Surjection
    <3> QED BY <2>1, <3>2
  <2>3. Cardinality(used(i)) \in Nat
    BY <2>2, FS_CardinalityType
  <2>4. Cardinality(used(i)) < Len(ps)
    BY <1>1, <2>2, <2>3
  <2>5. f[i] = FreeName(used(i), ps[i].name, Len(ps))
    BY <1>4
  <2> HIDE DEF used
  <2> QED BY <1>1, <1>6, <2>2, <2>4, <2>5, FreeNameIsFree
<1>7. ASSUME Numbered, NEW i \in DOMAIN ps, NEW j \in DOMAIN ps, i # j
      PROVE  NameKey(f[i]) # NameKey(f[j])
  <2>1. NameKey(f[i]) \notin used(i) /\ NameKey(f[j]) \notin used(j)
    BY <1>6, <1>7
  <2>2. CASE i < j
    BY <1>1, <2>1, <2>2
  <2>3. CASE j < i
    BY <1>1, <2>1, <2>3
  <2> QED BY <1>1, <1>7, <2>2, <2>3
<1> QED BY <1>3, <1>5, <1>7

-----------------------------------------------------------------------------
(* Profiles.  The id of a profile that was imported says what it connects  *)
(* to; the one that a user has added is known by its name alone.           *)

Identity(p) ==
  IF p.source = "manual" THEN p.id.of = <<>>
  ELSE IF p.protocol = "vless" THEN p.id = importedVLESSProfileID(p)
  ELSE IF p.protocol = "xray-json" THEN p.id.of = <<p.opt.spx>>
  ELSE p.id = importedShareProfileID(p)
IsProfile(p) ==
  /\ p = [id |-> p.id, name |-> p.name, source |-> p.source, protocol |-> p.protocol,
          server |-> p.server, port |-> p.port, user |-> p.user, opt |-> p.opt]
  /\ Identity(p)
  /\ p.source # "manual" => IsList(p.name)

Good(ps, sources) ==
  IsList(ps) /\ \A i \in DOMAIN ps : IsProfile(ps[i]) /\ ps[i].source \in sources

LEMMA SourceChanges ==
  ASSUME NEW p, IsProfile(p), p.source # "manual", NEW source, source # "manual"
  PROVE  /\ IsProfile([p EXCEPT !.source = source])
         /\ [p EXCEPT !.source = source].source = source
<1> DEFINE q == [p EXCEPT !.source = source]
<1>1. q = [id |-> p.id, name |-> p.name, source |-> source, protocol |-> p.protocol,
           server |-> p.server, port |-> p.port, user |-> p.user, opt |-> p.opt]
  <2>1. p = [id |-> p.id, name |-> p.name, source |-> p.source, protocol |-> p.protocol,
             server |-> p.server, port |-> p.port, user |-> p.user, opt |-> p.opt]
    BY DEF IsProfile
  <2> QED BY <2>1
<1> HIDE DEF q
<1>2. /\ q.id = p.id /\ q.name = p.name /\ q.source = source /\ q.protocol = p.protocol
      /\ q.server = p.server /\ q.port = p.port /\ q.user = p.user /\ q.opt = p.opt
  BY <1>1
<1>3. Identity(q)
  BY <1>2 DEF IsProfile, Identity, importedVLESSProfileID, importedShareProfileID, StableBase
<1>4. IsProfile(q)
  BY <1>1, <1>2, <1>3 DEF IsProfile
<1> QED BY <1>2, <1>4 DEF q

LEMMA NameChanges ==
  ASSUME NEW p, IsProfile(p), NEW name, IsList(name)
  PROVE  /\ IsProfile([p EXCEPT !.name = name])
         /\ [p EXCEPT !.name = name].source = p.source
<1> DEFINE q == [p EXCEPT !.name = name]
<1>1. q = [id |-> p.id, name |-> name, source |-> p.source, protocol |-> p.protocol,
           server |-> p.server, port |-> p.port, user |-> p.user, opt |-> p.opt]
  <2>1. p = [id |-> p.id, name |-> p.name, source |-> p.source, protocol |-> p.protocol,
             server |-> p.server, port |-> p.port, user |-> p.user, opt |-> p.opt]
    BY DEF IsProfile
  <2> QED BY <2>1
<1> HIDE DEF q
<1>2. /\ q.id = p.id /\ q.name = name /\ q.source = p.source /\ q.protocol = p.protocol
      /\ q.server = p.server /\ q.port = p.port /\ q.user = p.user /\ q.opt = p.opt
  BY <1>1
<1>3. Identity(q)
  BY <1>2 DEF IsProfile, Identity, importedVLESSProfileID, importedShareProfileID, StableBase
<1>4. IsProfile(q)
  BY <1>1, <1>2, <1>3 DEF IsProfile
<1> QED BY <1>2, <1>4 DEF q

LEMMA NoneIsGood == ASSUME NEW sources PROVE Good(<<>>, sources)
BY EmptyIsList DEF Good

LEMMA OneIsGood ==
  ASSUME NEW p, IsProfile(p), NEW sources, p.source \in sources
  PROVE  Good(<<p>>, sources)
BY OneIsList DEF Good

LEMMA FlattenIsGood ==
  ASSUME NEW ss, IsList(ss), NEW sources, \A i \in DOMAIN ss : Good(ss[i], sources)
  PROVE  Good(FlattenSeq(ss), sources)
<1>1. \A i \in DOMAIN ss : IsList(ss[i])
  BY DEF Good
<1>2. /\ IsList(FlattenSeq(ss))
      /\ \A k \in DOMAIN FlattenSeq(ss) :
           \E i \in DOMAIN ss : \E j \in DOMAIN ss[i] : FlattenSeq(ss)[k] = ss[i][j]
  BY <1>1, FlattenIsList
<1> QED BY <1>2 DEF Good

LEMMA RenamedIsGood ==
  ASSUME NEW ps, NEW sources, Good(ps, sources), NEW f, \A i \in DOMAIN ps : IsList(f[i])
  PROVE  Good([i \in DOMAIN ps |-> [ps[i] EXCEPT !.name = f[i]]], sources)
<1> DEFINE qs == [i \in DOMAIN ps |-> [ps[i] EXCEPT !.name = f[i]]]
<1>1. IsList(qs) /\ DOMAIN qs = DOMAIN ps
  <2>1. IsList(ps)
    BY DEF Good
  <2>2. qs = [i \in DOMAIN ps |-> qs[i]]
    OBVIOUS
  <2> HIDE DEF qs
  <2> QED BY <2>1, <2>2, MappedIsList
<1>2. \A i \in DOMAIN qs : IsProfile(qs[i]) /\ qs[i].source \in sources
  BY NameChanges DEF Good
<1> HIDE DEF qs
<1>3. Good(qs, sources)
  BY <1>1, <1>2 DEF Good
<1> QED BY <1>3 DEF qs

LEMMA DeduplicatedIsGood ==
  ASSUME NEW ps, NEW sources, Good(ps, sources), "manual" \notin sources
  PROVE  Good(DeduplicateDisplayNames(ps), sources) /\ NamesApart(DeduplicateDisplayNames(ps))
<1> DEFINE qs(f) == [i \in DOMAIN ps |-> [ps[i] EXCEPT !.name = f[i]]]
<1>1. IsList(ps) /\ \A i \in DOMAIN ps : IsList(ps[i].name) /\ IsProfile(ps[i])
  BY DEF Good, IsProfile
<1>2. PICK f : /\ DeduplicateDisplayNames(ps) = qs(f)
               /\ \A i \in DOMAIN ps : IsList(f[i])
               /\ Numbered => \A i, j \in DOMAIN ps : i # j => NameKey(f[i]) # NameKey(f[j])
  BY <1>1, DeduplicationNames
<1>3. Good(qs(f), sources)
  BY <1>2, RenamedIsGood
<1>4. DOMAIN qs(f) = DOMAIN ps /\ \A i \in DOMAIN ps : qs(f)[i].name = f[i]
  BY <1>1, NameChanges DEF IsProfile
<1> HIDE DEF qs
<1>5. NamesApart(qs(f))
  BY <1>2, <1>4 DEF NamesApart
<1> QED BY <1>2, <1>3, <1>5

LEMMA OneIsApart == ASSUME NEW p PROVE NamesApart(<<p>>)
<1>1. DOMAIN <<p>> = {1}
  OBVIOUS
<1> QED BY <1>1 DEF NamesApart

LEMMA ResourcedIsGood ==
  ASSUME NEW ps, NEW sources, Good(ps, sources), "manual" \notin sources,
         NEW source, source # "manual"
  PROVE  /\ Good(WithSource(ps, source), {source})
         /\ NamesApart(ps) => NamesApart(WithSource(ps, source))
<1> DEFINE qs == WithSource(ps, source)
<1>1. IsList(ps) /\ \A i \in DOMAIN ps : IsProfile(ps[i]) /\ ps[i].source # "manual"
  BY DEF Good
<1>2. /\ qs = [i \in DOMAIN ps |-> qs[i]]
      /\ \A i \in DOMAIN ps : qs[i] = [ps[i] EXCEPT !.source = source]
  BY DEF WithSource
<1> HIDE DEF qs
<1>3. IsList(qs) /\ DOMAIN qs = DOMAIN ps
  BY <1>1, <1>2, MappedIsList
<1>4. ASSUME NEW i \in DOMAIN qs
      PROVE  IsProfile(qs[i]) /\ qs[i].source = source
  <2>1. /\ IsProfile([ps[i] EXCEPT !.source = source])
        /\ [ps[i] EXCEPT !.source = source].source = source
    BY <1>1, <1>3, SourceChanges
  <2> QED BY <1>2, <1>3, <2>1
<1>5. Good(qs, {source})
  BY <1>3, <1>4 DEF Good
<1>6. \A i \in DOMAIN qs : qs[i].name = ps[i].name
  <2>1. \A i \in DOMAIN ps : [ps[i] EXCEPT !.source = source].name = ps[i].name
    BY <1>1 DEF IsProfile
  <2> QED BY <1>2, <1>3, <2>1
<1>7. NamesApart(ps) => NamesApart(qs)
  BY <1>3, <1>6 DEF NamesApart
<1> QED BY <1>5, <1>7 DEF qs

-----------------------------------------------------------------------------
(* Links.                                                                  *)

LEMMA IdentifiedIsProfile ==
  ASSUME NEW p, NEW id,
         p = [id |-> p.id, name |-> p.name, source |-> p.source, protocol |-> p.protocol,
              server |-> p.server, port |-> p.port, user |-> p.user, opt |-> p.opt],
         p.source # "manual", p.protocol # "xray-json", IsList(p.name),
         id = IF p.protocol = "vless" THEN importedVLESSProfileID(p)
              ELSE importedShareProfileID(p)
  PROVE  IsProfile(Identified(p, id)) /\ Identified(p, id).source = p.source
<1> DEFINE q == Identified(p, id)
<1>1. q = [id |-> id, name |-> p.name, source |-> p.source, protocol |-> p.protocol,
           server |-> p.server, port |-> p.port, user |-> p.user, opt |-> p.opt]
  BY DEF Identified
<1> HIDE DEF q
<1>2. /\ q.id = id /\ q.name = p.name /\ q.source = p.source /\ q.protocol = p.protocol
      /\ q.server = p.server /\ q.port = p.port /\ q.user = p.user /\ q.opt = p.opt
  BY <1>1
<1>3. Identity(q)
  BY <1>2 DEF Identity, importedVLESSProfileID, importedShareProfileID, StableBase
<1>4. IsProfile(q)
  BY <1>1, <1>2, <1>3 DEF IsProfile
<1> QED BY <1>2, <1>4 DEF q

LEMMA ProviderNameIsList ==
  ASSUME NEW raw, IsList(raw), NEW protocol, NEW server, NEW port
  PROVE  IsList(ProviderName(raw, protocol, server, port))
<1>1. \A x, y : IsList(<<x, y>>)
  BY DEF IsList
<1>2. \A x, y, z : IsList(<<x, y, z>>)
  BY DEF IsList
<1> QED BY <1>1, <1>2 DEF ProviderName, FallbackName

LEMMA FromLinkMakes ==
  ASSUME NEW link, IsLink(link), NEW protocol, NEW user, NEW opt
  PROVE  LET p == FromLink(link, protocol, user, opt)
         IN  /\ p = [id |-> p.id, name |-> p.name, source |-> p.source,
                     protocol |-> p.protocol, server |-> p.server, port |-> p.port,
                     user |-> p.user, opt |-> p.opt]
             /\ p.source = "imported_uri" /\ p.protocol = protocol /\ IsList(p.name)
<1> DEFINE p == FromLink(link, protocol, user, opt)
           name == ProviderName(link.name, protocol, link.host, link.port)
<1>1. p = [id |-> NoId, name |-> name, source |-> "imported_uri",
           protocol |-> protocol, server |-> link.host, port |-> link.port,
           user |-> user, opt |-> opt]
  BY DEF FromLink
<1>3. IsList(name)
  BY ProviderNameIsList DEF IsLink
<1> HIDE DEF p, name
<1>2. /\ p = [id |-> p.id, name |-> p.name, source |-> p.source,
              protocol |-> p.protocol, server |-> p.server, port |-> p.port,
              user |-> p.user, opt |-> p.opt]
      /\ p.source = "imported_uri" /\ p.protocol = protocol /\ IsList(p.name)
  BY <1>1, <1>3
<1> QED BY <1>2 DEF p

LEMMA LinkIsGood ==
  ASSUME NEW link, IsLink(link), NEW user, NEW opt, NEW protocol, protocol # "xray-json"
  PROVE  LET p0 == FromLink(link, protocol, user, opt)
             p  == Identified(p0, IF protocol = "vless" THEN importedVLESSProfileID(p0)
                                  ELSE importedShareProfileID(p0))
         IN  Good(<<p>>, {"imported_uri"})
<1> DEFINE p0 == FromLink(link, protocol, user, opt)
           id == IF protocol = "vless" THEN importedVLESSProfileID(p0)
                 ELSE importedShareProfileID(p0)
<1>1. /\ p0 = [id |-> p0.id, name |-> p0.name, source |-> p0.source,
               protocol |-> p0.protocol, server |-> p0.server, port |-> p0.port,
               user |-> p0.user, opt |-> p0.opt]
      /\ p0.source = "imported_uri" /\ p0.protocol = protocol /\ IsList(p0.name)
  BY FromLinkMakes
<1> HIDE DEF p0
<1>2. id = IF p0.protocol = "vless" THEN importedVLESSProfileID(p0)
           ELSE importedShareProfileID(p0)
  BY <1>1
<1> HIDE DEF id
<1>3. IsProfile(Identified(p0, id)) /\ Identified(p0, id).source = "imported_uri"
  BY <1>1, <1>2, IdentifiedIsProfile
<1>4. Good(<<Identified(p0, id)>>, {"imported_uri"})
  BY <1>3, OneIsGood
<1> QED BY <1>4 DEF p0, id

LEMMA ImportVlessIsGood ==
  ASSUME NEW link, IsLink(link) PROVE Good(importVLESSURI(link), {"imported_uri"})
<1> DEFINE Made(opt) == Identified(FromLink(link, "vless", link.user, opt),
                          importedVLESSProfileID(FromLink(link, "vless", link.user, opt)))
<1>1. importVLESSURI(link) = <<>> \/ \E opt : importVLESSURI(link) = <<Made(opt)>>
  BY Zenon DEF importVLESSURI
<1>2. \A opt : Good(<<Made(opt)>>, {"imported_uri"})
  BY LinkIsGood
<1> HIDE DEF Made
<1> QED BY <1>1, <1>2, NoneIsGood

LEMMA ImportShareIsGood ==
  ASSUME NEW link, IsLink(link)
  PROVE  /\ Good(ImportVMessURI(link), {"imported_uri"})
         /\ Good(ImportTrojanURI(link), {"imported_uri"})
         /\ Good(ImportShadowsocksURI(link), {"imported_uri"})
<1> DEFINE Made(protocol, opt) ==
             Identified(FromLink(link, protocol, link.user, opt),
               importedShareProfileID(FromLink(link, protocol, link.user, opt)))
<1>1. ImportVMessURI(link) = <<>> \/ \E opt : ImportVMessURI(link) = <<Made("vmess", opt)>>
  BY Zenon DEF ImportVMessURI
<1>2. ImportTrojanURI(link) = <<>> \/ \E opt : ImportTrojanURI(link) = <<Made("trojan", opt)>>
  BY Zenon DEF ImportTrojanURI
<1>3. \/ ImportShadowsocksURI(link) = <<>>
      \/ \E opt : ImportShadowsocksURI(link) = <<Made("shadowsocks", opt)>>
  BY Zenon DEF ImportShadowsocksURI
<1>4. \A protocol \in {"vmess", "trojan", "shadowsocks"} : \A opt :
        Good(<<Made(protocol, opt)>>, {"imported_uri"})
  BY LinkIsGood
<1> HIDE DEF Made
<1> QED BY <1>1, <1>2, <1>3, <1>4, NoneIsGood

LEMMA ImportIsGood ==
  ASSUME NEW link, IsLink(link) PROVE Good(ImportShareURI(link), {"imported_uri"})
BY ImportVlessIsGood, ImportShareIsGood, NoneIsGood DEF ImportShareURI

LEMMA EntryIsGood ==
  ASSUME NEW link, IsLink(link), NEW source, source # "manual"
  PROVE  Good(importEntry(link, source), {source})
<1> DEFINE ps == ImportShareURI(link)
           of(i) == OnlyValid([ps[i] EXCEPT !.source = source])
           ss == [i \in DOMAIN ps |-> of(i)]
<1>1. Good(ps, {"imported_uri"})
  BY ImportIsGood
<1> HIDE DEF ps
<1>2. ASSUME NEW i \in DOMAIN ps
      PROVE  Good(of(i), {source})
  <2>1. /\ IsProfile([ps[i] EXCEPT !.source = source])
        /\ [ps[i] EXCEPT !.source = source].source = source
    BY <1>1, SourceChanges DEF Good
  <2> QED BY <2>1, OneIsGood, NoneIsGood DEF OnlyValid
<1>3. IsList(ss) /\ DOMAIN ss = DOMAIN ps
  <2>1. IsList(ps)
    BY <1>1 DEF Good
  <2>2. ss = [i \in DOMAIN ps |-> ss[i]]
    OBVIOUS
  <2> HIDE DEF ss
  <2> QED BY <2>1, <2>2, MappedIsList
<1>4. \A i \in DOMAIN ss : Good(ss[i], {source})
  BY <1>2
<1>5. importEntry(link, source) = FlattenSeq(ss)
  BY Zenon DEF importEntry, ps
<1> HIDE DEF ss
<1> QED BY <1>3, <1>4, <1>5, FlattenIsGood

LEMMA EntriesAreGood ==
  ASSUME NEW lines, IsList(lines), \A i \in DOMAIN lines : IsLink(lines[i]),
         NEW source, source # "manual"
  PROVE  Good(Entries(lines, source), {source})
<1> DEFINE ss == [i \in DOMAIN lines |-> importEntry(lines[i], source)]
<1>1. ss = [i \in DOMAIN lines |-> ss[i]] /\ \A i \in DOMAIN lines : Good(ss[i], {source})
  BY EntryIsGood
<1>2. Entries(lines, source) = FlattenSeq(ss)
  BY DEF Entries
<1> HIDE DEF ss
<1> QED BY <1>1, <1>2, MappedIsList, FlattenIsGood

-----------------------------------------------------------------------------
(* Xray JSON, and the contents of a file or a subscription.                *)

LEMMA OutboundIsGood ==
  ASSUME NEW ob, IsOutbound(ob)
  PROVE  Good(profilesFromOutbound(ob), {"imported_file"})
<1>1. CASE ob.protocol # "vless"
  BY <1>1, NoneIsGood DEF profilesFromOutbound
<1>2. CASE ob.protocol = "vless"
  <2> DEFINE Made(name, srv, user, opt) ==
        [id |-> NoId, name |-> name, source |-> "imported_file", protocol |-> "vless",
         server |-> srv.address, port |-> srv.port, user |-> user.id, opt |-> opt]
             Of(p) == Identified(p, importedVLESSProfileID(p))
             Users(ss) == \A i \in DOMAIN ob.servers : \A j \in DOMAIN ob.servers[i].users :
               \E name, opt : IsList(name) /\
                 ss[i][j] = Of(Made(name, ob.servers[i], ob.servers[i].users[j], opt))
  <2>1. \A name, srv, user, opt : IsList(name) =>
          /\ IsProfile(Of(Made(name, srv, user, opt)))
          /\ Of(Made(name, srv, user, opt)).source = "imported_file"
    <3> TAKE name, srv, user, opt
    <3> HAVE IsList(name)
    <3> DEFINE p == Made(name, srv, user, opt)
    <3>1. /\ p = [id |-> p.id, name |-> p.name, source |-> p.source,
                  protocol |-> p.protocol, server |-> p.server, port |-> p.port,
                  user |-> p.user, opt |-> p.opt]
          /\ p.source = "imported_file" /\ p.protocol = "vless" /\ IsList(p.name)
      OBVIOUS
    <3> HIDE DEF p
    <3>2. IsProfile(Of(p)) /\ Of(p).source = "imported_file"
      BY <3>1, IdentifiedIsProfile
    <3> QED BY <3>2 DEF p
  <2>2. \/ profilesFromXrayVLESSOutbound(ob) = <<>>
        \/ \E ss : /\ profilesFromXrayVLESSOutbound(ob) = FlattenSeq(ss)
                   /\ ss = [i \in DOMAIN ob.servers |->
                              [j \in DOMAIN ob.servers[i].users |-> ss[i][j]]]
                   /\ Users(ss)
    <3> DEFINE type == IF lower(ob.network) = "raw" THEN "tcp" ELSE lower(ob.network)
               sec  == lower(ob.security)
               opt(user) == [k \in Options |->
                 CASE k = "type"       -> type
                   [] k = "security"   -> sec
                   [] k = "encryption" -> WithDefault(user.encryption, "none")
                   [] k = "flow"       -> user.flow
                   [] OTHER -> IF k \in StreamKeys(sec, type) THEN ob.stream[k] ELSE ""]
               name(srv) == ProviderName(ob.tag, "vless", srv.address, srv.port)
               profile(srv, user) == Of(Made(name(srv), srv, user, opt(user)))
               all == [i \in DOMAIN ob.servers |-> [j \in DOMAIN ob.servers[i].users |->
                         profile(ob.servers[i], ob.servers[i].users[j])]]
    <3>1. \/ profilesFromXrayVLESSOutbound(ob) = <<>>
          \/ profilesFromXrayVLESSOutbound(ob) = FlattenSeq(all)
      BY Zenon DEF profilesFromXrayVLESSOutbound
    <3>6. \A srv : IsList(name(srv))
      BY <1>2, ProviderNameIsList DEF IsOutbound
    <3> HIDE DEF type, sec, opt, name
    <3>2. ASSUME NEW i \in DOMAIN ob.servers, NEW j \in DOMAIN ob.servers[i].users
          PROVE  all[i][j] = profile(ob.servers[i], ob.servers[i].users[j])
      <4> HIDE DEF profile
      <4> QED OBVIOUS
    <3>3. Users(all)
      BY <3>2, <3>6
    <3>4. all = [i \in DOMAIN ob.servers |->
                   [j \in DOMAIN ob.servers[i].users |-> all[i][j]]]
      <4> HIDE DEF profile
      <4> QED OBVIOUS
    <3> HIDE DEF all, Users
    <3>5. CASE profilesFromXrayVLESSOutbound(ob) = FlattenSeq(all)
      BY <3>3, <3>4, <3>5, Zenon
    <3> QED BY <3>1, <3>5
  <2>3. ASSUME NEW ss, Users(ss),
               ss = [i \in DOMAIN ob.servers |->
                       [j \in DOMAIN ob.servers[i].users |-> ss[i][j]]]
        PROVE  Good(FlattenSeq(ss), {"imported_file"})
    <3>1. IsList(ob.servers) /\ \A i \in DOMAIN ob.servers : IsList(ob.servers[i].users)
      BY <1>2 DEF IsOutbound
    <3>2. IsList(ss) /\ DOMAIN ss = DOMAIN ob.servers
      <4>1. ss = [i \in DOMAIN ob.servers |-> ss[i]]
        BY <2>3
      <4> QED BY <3>1, <4>1, MappedIsList
    <3>3. ASSUME NEW i \in DOMAIN ss
          PROVE  Good(ss[i], {"imported_file"})
      <4>1. IsList(ss[i]) /\ DOMAIN ss[i] = DOMAIN ob.servers[i].users
        <5> DEFINE us == ob.servers[i].users
                   si == ss[i]
        <5>1. IsList(us) /\ si = [j \in DOMAIN us |-> si[j]]
          BY <2>3, <3>1, <3>2
        <5> HIDE DEF us, si
        <5>2. IsList(si) /\ DOMAIN si = DOMAIN us
          BY <5>1, MappedIsList
        <5> QED BY <5>2 DEF us, si
      <4>2. \A j \in DOMAIN ss[i] : IsProfile(ss[i][j]) /\ ss[i][j].source = "imported_file"
        <5> HIDE DEF Made, Of
        <5> QED BY <2>1, <2>3, <3>2, <4>1
      <4> QED BY <4>1, <4>2 DEF Good
    <3> QED BY <3>2, <3>3, FlattenIsGood
  <2> QED BY <1>2, <2>2, <2>3, NoneIsGood DEF profilesFromOutbound
<1> QED BY <1>1, <1>2

\* What a content is parsed to, or nothing.
GoodParse(parsed, sources) ==
  /\ parsed = [ok |-> parsed.ok, profiles |-> parsed.profiles]
  /\ Good(parsed.profiles, sources) /\ NamesApart(parsed.profiles)

LEMMA FailedIsGood == ASSUME NEW sources PROVE GoodParse(Failed, sources)
BY NoneIsGood DEF GoodParse, Failed, NamesApart

LEMMA ParsedIsGood ==
  ASSUME NEW ps, NEW sources, Good(ps, sources), "manual" \notin sources
  PROVE  GoodParse(Parsed(ps), sources)
<1> DEFINE qs == DeduplicateDisplayNames(ps)
<1>1. Good(qs, sources) /\ NamesApart(qs)
  BY DeduplicatedIsGood
<1> HIDE DEF qs
<1>2. GoodParse([ok |-> TRUE, profiles |-> qs], sources)
  BY <1>1 DEF GoodParse
<1> QED BY <1>2, FailedIsGood DEF Parsed, qs

LEMMA ListImportIsGood ==
  ASSUME NEW lines, IsList(lines), \A i \in DOMAIN lines : IsLink(lines[i])
  PROVE  GoodParse(importURIList(lines), {"imported_file"})
BY EntriesAreGood, ParsedIsGood, FailedIsGood DEF importURIList

LEMMA XrayImportIsGood ==
  ASSUME NEW object, IsObject(object)
  PROVE  GoodParse(importXrayJSON(object), {"imported_file"})
<1> DEFINE ss == [i \in DOMAIN object.outbounds |-> profilesFromOutbound(object.outbounds[i])]
<1>1. IsList(object.outbounds) /\ \A i \in DOMAIN object.outbounds : IsOutbound(object.outbounds[i])
  BY DEF IsObject
<1>2. ss = [i \in DOMAIN object.outbounds |-> ss[i]]
  OBVIOUS
<1>3. \A i \in DOMAIN object.outbounds : Good(ss[i], {"imported_file"})
  BY <1>1, OutboundIsGood
<1>4. importXrayJSON(object) = IF Distinct(FlattenSeq(ss)) THEN Parsed(FlattenSeq(ss)) ELSE Failed
  BY DEF importXrayJSON
<1> HIDE DEF ss
<1>5. Good(FlattenSeq(ss), {"imported_file"})
  BY <1>1, <1>2, <1>3, MappedIsList, FlattenIsGood
<1> QED BY <1>4, <1>5, ParsedIsGood, FailedIsGood

LEMMA LocalContentIsGood ==
  ASSUME NEW content, IsContent(content)
  PROVE  GoodParse(ImportLocalContent(content), {"imported_file"})
BY ListImportIsGood, XrayImportIsGood, FailedIsGood DEF ImportLocalContent, IsContent

LEMMA FirstOfEachIsGood ==
  ASSUME NEW ps, NEW sources, Good(ps, sources)
  PROVE  Good(FirstOfEach(ps), sources)
<1> DEFINE ss == [i \in DOMAIN ps |->
                    IF \E j \in 1..(i - 1) : ps[j].id = ps[i].id THEN <<>> ELSE <<ps[i]>>]
<1>1. \A i \in DOMAIN ps : ss[i] \in {<<>>, <<ps[i]>>}
  OBVIOUS
<1>2. ss = [i \in DOMAIN ps |-> ss[i]] /\ FirstOfEach(ps) = FlattenSeq(ss)
  BY DEF FirstOfEach
<1> HIDE DEF ss
<1>3. \A i \in DOMAIN ps : Good(ss[i], sources)
  BY <1>1, OneIsGood, NoneIsGood DEF Good
<1>4. IsList(ss) /\ DOMAIN ss = DOMAIN ps
  BY <1>2, MappedIsList DEF Good
<1> QED BY <1>2, <1>3, <1>4, FlattenIsGood

LEMMA ProviderConfigIsGood ==
  ASSUME NEW name, IsList(name), NEW label
  PROVE  Good(<<NewSubscriptionProviderXrayConfig(name, label)>>, {"subscription"})
<1> DEFINE p == NewSubscriptionProviderXrayConfig(name, label)
           opt == [NoOptions EXCEPT !.spx = label]
<1>1. PICK n : p = [id |-> [base |-> <<"xray-json">>, of |-> <<label>>], name |-> n,
                    source |-> "subscription", protocol |-> "xray-json", server |-> "",
                    port |-> 0, user |-> "", opt |-> opt] /\ IsList(n)
  <2>1. IsList(<<"grouped", "profile">>)
    BY DEF IsList
  <2> QED BY <2>1 DEF NewSubscriptionProviderXrayConfig
<1>2. opt.spx = label
  BY DEF NoOptions, Options
<1> HIDE DEF p, opt
<1>3. /\ p = [id |-> p.id, name |-> p.name, source |-> p.source, protocol |-> p.protocol,
              server |-> p.server, port |-> p.port, user |-> p.user, opt |-> p.opt]
      /\ p.source = "subscription" /\ p.protocol = "xray-json"
      /\ p.id.of = <<label>> /\ p.opt.spx = label /\ IsList(p.name)
  BY <1>1, <1>2
<1>4. IsProfile(p)
  BY <1>3 DEF IsProfile, Identity
<1>5. Good(<<p>>, {"subscription"})
  BY <1>3, <1>4, OneIsGood
<1> QED BY <1>5 DEF p

LEMMA WrapperIsGood ==
  ASSUME NEW ps, NEW sources, Good(ps, sources), NamesApart(ps), "manual" \notin sources,
         NEW name, IsList(name)
  PROVE  Good(applyWrapperName(ps, name), sources) /\ NamesApart(applyWrapperName(ps, name))
<1> DEFINE f == [i \in DOMAIN ps |-> ProviderName(name, ps[i].protocol, ps[i].server, ps[i].port)]
           qs == [i \in DOMAIN ps |-> [ps[i] EXCEPT !.name = f[i]]]
<1>1. [i \in DOMAIN ps |-> [ps[i] EXCEPT !.name =
            ProviderName(name, ps[i].protocol, ps[i].server, ps[i].port)]] = qs
  OBVIOUS
<1>2. applyWrapperName(ps, name) = IF name = <<>> THEN ps ELSE DeduplicateDisplayNames(qs)
  BY <1>1, Zenon DEF applyWrapperName
<1>4. \A i \in DOMAIN ps : IsList(f[i])
  BY ProviderNameIsList
<1> HIDE DEF f
<1>3. Good(qs, sources)
  BY <1>4, RenamedIsGood
<1> HIDE DEF qs
<1> QED BY <1>2, <1>3, DeduplicatedIsGood

LEMMA ObjectIsGood ==
  ASSUME NEW object, IsObject(object)
  PROVE  GoodParse(parseXrayJSONObjectSubscription(object), {"subscription"})
<1> DEFINE local == importXrayJSON(object)
           ps == applyWrapperName(WithSource(local.profiles, "subscription"), object.name)
<1>1. GoodParse(local, {"imported_file"})
  BY XrayImportIsGood
<1>2. Good(ps, {"subscription"}) /\ NamesApart(ps)
  <2>1. /\ Good(WithSource(local.profiles, "subscription"), {"subscription"})
        /\ NamesApart(WithSource(local.profiles, "subscription"))
    BY <1>1, ResourcedIsGood DEF GoodParse
  <2>2. IsList(object.name)
    BY DEF IsObject
  <2> QED BY <2>1, <2>2, WrapperIsGood
<1>3. GoodParse([local EXCEPT !.profiles = ps], {"subscription"})
  <2> HIDE DEF ps, local
  <2>1. [local EXCEPT !.profiles = ps] = [ok |-> local.ok, profiles |-> ps]
    BY <1>1 DEF GoodParse
  <2> QED BY <1>2, <2>1 DEF GoodParse
<1>4. GoodParse(parseGroupedProviderXrayProfile(object), {"subscription"})
  BY ProviderConfigIsGood, OneIsApart
     DEF GoodParse, parseGroupedProviderXrayProfile, IsObject
<1>5. \/ parseXrayJSONObjectSubscription(object) = Failed
      \/ parseXrayJSONObjectSubscription(object) = parseGroupedProviderXrayProfile(object)
      \/ parseXrayJSONObjectSubscription(object) = [local EXCEPT !.profiles = ps]
  BY Zenon DEF parseXrayJSONObjectSubscription
<1> HIDE DEF ps, local
<1> QED BY <1>3, <1>4, <1>5, FailedIsGood

LEMMA ArrayIsGood ==
  ASSUME NEW content, content.shape = "array", IsContent(content)
  PROVE  GoodParse(parseXrayJSONArraySubscription(content), {"subscription"})
<1> DEFINE of(item) == IF item.shape = "object"
                       THEN parseXrayJSONObjectSubscription(item).profiles ELSE <<>>
           ss == [i \in DOMAIN content.items |-> of(content.items[i])]
<1>1. IsList(content.items)
  BY DEF IsContent
<1>2. ASSUME NEW i \in DOMAIN content.items
      PROVE  Good(of(content.items[i]), {"subscription"})
  <2>1. CASE content.items[i].shape = "object"
    <3>1. IsObject(content.items[i])
      BY <2>1 DEF IsContent
    <3> QED BY <2>1, <3>1, ObjectIsGood DEF GoodParse
  <2>2. CASE content.items[i].shape # "object"
    BY <2>2, NoneIsGood
  <2> QED BY <2>1, <2>2
<1> HIDE DEF of
<1>3. \A i \in DOMAIN content.items : Good(ss[i], {"subscription"})
  BY <1>2
<1>4. ss = [i \in DOMAIN content.items |-> ss[i]]
  OBVIOUS
<1>5. \/ parseXrayJSONArraySubscription(content) = Parsed(FlattenSeq(ss))
      \/ parseXrayJSONArraySubscription(content) = Failed
  BY Zenon DEF parseXrayJSONArraySubscription, of
<1> HIDE DEF ss
<1>6. Good(FlattenSeq(ss), {"subscription"})
  BY <1>1, <1>3, <1>4, MappedIsList, FlattenIsGood
<1> QED BY <1>5, <1>6, ParsedIsGood, FailedIsGood

LEMMA SubscriptionIsGood ==
  ASSUME NEW content, IsContent(content)
  PROVE  GoodParse(ParseSubscriptionContent(content), {"subscription"})
<1>1. CASE content.shape = "base64"
  <2>1. Good(FirstOfEach(Entries(content.lines, "subscription")), {"subscription"})
    BY <1>1, EntriesAreGood, FirstOfEachIsGood DEF IsContent
  <2> QED BY <1>1, <2>1, ParsedIsGood DEF ParseSubscriptionContent, ParseBase64Subscription
<1> QED BY <1>1, ObjectIsGood, ArrayIsGood, FailedIsGood DEF ParseSubscriptionContent, IsContent

\* What a user adds has no other identity than its name.
LEMMA ManualIsGood ==
  ASSUME NEW name, NEW server, NEW port, NEW protocol
  PROVE  Good(OnlyValid(NewManual(name, server, port, protocol)), {"manual"})
<1> DEFINE p == NewManual(name, server, port, protocol)
           id == NormalizeID(name)
<1>1. p = [id |-> id, name |-> name, source |-> "manual", protocol |-> protocol,
           server |-> server, port |-> port, user |-> "", opt |-> NoOptions]
  BY DEF NewManual
<1>2. id.of = <<>>
  BY Zenon DEF NormalizeID
<1> HIDE DEF p, id
<1>3. IsProfile(p) /\ p.source = "manual"
  BY <1>1, <1>2 DEF IsProfile, Identity
<1>4. Good(OnlyValid(p), {"manual"})
  BY <1>3, OneIsGood, NoneIsGood DEF OnlyValid
<1> QED BY <1>4 DEF p

-----------------------------------------------------------------------------
(* What Xray is made to connect to.                                        *)

LEMMA SameIdMeansSameOutbound ==
  ASSUME NEW p, NEW q, IsProfile(p), IsProfile(q), p.id = q.id,
         p.protocol = "vless", p.source # "manual"
  PROVE  Outbound(p) = Outbound(q)
<1>1. p.id = importedVLESSProfileID(p)
  BY DEF IsProfile, Identity
<1>2. q.source # "manual" /\ q.protocol = "vless"
  <2>1. p.id.of = <<p.protocol, lower(p.server), p.port, lower(p.user),
                    [k \in VlessKeys |-> Key(p.opt, k)]>>
    BY <1>1 DEF importedVLESSProfileID
  <2>2. q.id.of # <<>>
    BY <2>1
  <2>3. q.id.of # <<q.opt.spx>>
    BY <2>1
  <2>4. (q.id = importedShareProfileID(q)) => q.protocol = "vless"
    BY <2>1 DEF importedShareProfileID
  <2> QED BY <2>2, <2>3, <2>4 DEF IsProfile, Identity
<1>3. q.id = importedVLESSProfileID(q)
  BY <1>2 DEF IsProfile, Identity
<1>4. /\ lower(p.server) = lower(q.server) /\ p.port = q.port /\ lower(p.user) = lower(q.user)
      /\ [k \in Options |-> Key(p.opt, k)] = [k \in Options |-> Key(q.opt, k)]
  <2> DEFINE f(r) == [k \in VlessKeys |-> Key(r.opt, k)]
             of(r) == <<r.protocol, lower(r.server), r.port, lower(r.user), f(r)>>
  <2>1. p.id.of = of(p) /\ q.id.of = of(q)
    <3>1. /\ importedVLESSProfileID(p).of = of(p)
          /\ importedVLESSProfileID(q).of = of(q)
      BY DEF importedVLESSProfileID
    <3> QED BY <1>1, <1>3, <3>1, Zenon
  <2> HIDE DEF f
  <2>2. f(p) = f(q)
    BY <2>1
  <2>3. lower(p.server) = lower(q.server) /\ p.port = q.port /\ lower(p.user) = lower(q.user)
    BY <2>1
  <2> QED BY <2>2, <2>3, Zenon DEF f, VlessKeys
<1>5. \A k \in Options : Key(p.opt, k) = Key(q.opt, k)
  <2> DEFINE f == [k \in Options |-> Key(p.opt, k)]
             g == [k \in Options |-> Key(q.opt, k)]
  <2>1. f = g
    BY <1>4
  <2>2. \A k \in Options : f[k] = Key(p.opt, k) /\ g[k] = Key(q.opt, k)
    OBVIOUS
  <2> HIDE DEF f, g
  <2> QED BY <2>1, <2>2
<1>6. \A k \in {"flow", "type", "security"} : k \in Options /\ k \in Folded
  BY DEF Options, Folded
<1>7. /\ lower(p.opt.flow) = lower(q.opt.flow) /\ lower(p.opt.type) = lower(q.opt.type)
      /\ lower(p.opt.security) = lower(q.opt.security)
  BY <1>5, <1>6 DEF Key
<1>8. \A text : lower(text) = "" <=> text = ""
  <2>1. /\ DOMAIN UpperCase = {"WS", "Home", "Pass", "UUID1", "Sni"}
        /\ UpperCase["WS"] = "ws" /\ UpperCase["Home"] = "home" /\ UpperCase["Pass"] = "pass"
        /\ UpperCase["UUID1"] = "uuid1" /\ UpperCase["Sni"] = "sni"
    BY DEF UpperCase
  <2> QED BY <2>1 DEF lower
<1>9. network(p) = network(q) /\ security(p) = security(q)
  BY <1>7, <1>8 DEF network, security
<1>10. TransportKeys(network(p)) \subseteq Options /\ SecurityKeys(security(p)) \subseteq Options
  BY DEF TransportKeys, SecurityKeys, Options
<1>11. /\ [k \in TransportKeys(network(p)) |-> Key(p.opt, k)]
            = [k \in TransportKeys(network(q)) |-> Key(q.opt, k)]
       /\ [k \in SecurityKeys(security(p)) |-> Key(p.opt, k)]
            = [k \in SecurityKeys(security(q)) |-> Key(q.opt, k)]
  BY <1>5, <1>9, <1>10
<1> QED BY <1>4, <1>7, <1>9, <1>11 DEF Outbound

LEMMA TunMeansProxyOnly ==
  ASSUME NEW p, ValidateXrayConnectProfile(p, "tun")
  PROVE  ValidateXrayConnectProfile(p, "proxy-only")
<1>1. Networks("tun") \subseteq Networks("proxy-only")
  BY DEF Networks
<1> QED BY <1>1 DEF ValidateXrayConnectProfile, validateXrayVLESSProfile
=============================================================================
