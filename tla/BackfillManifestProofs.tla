------------------------ MODULE BackfillManifestProofs ------------------------
(***************************************************************************)
(* Proofs about BackfillManifest for any versions of the input, any tars   *)
(* and any number of kills and replacements.                               *)
(***************************************************************************)
EXTENDS BackfillManifest, FiniteSetTheorems, SequenceTheorems, TLAPS

(***************************************************************************)
(* Induction over the numbers, stated for a set and not for a predicate:   *)
(* the successor would map the members up to a missing number one-to-one   *)
(* into themselves and not onto 0, which no finite set allows.             *)
(***************************************************************************)
LEMMA NumbersInduction ==
  ASSUME NEW S \in SUBSET Nat, 0 \in S, \A n \in S : n + 1 \in S
  PROVE  S = Nat
<1> SUFFICES ASSUME NEW k \in Nat, k \notin S PROVE FALSE
  OBVIOUS
<1> DEFINE T == {n \in S : n <= k}
           f == [n \in T |-> n + 1]
<1>1. IsFiniteSet(T)
  <2>1. 0 \in Int /\ k \in Int
    OBVIOUS
  <2>2. IsFiniteSet(0 .. k)
    BY <2>1, FS_Interval
  <2>3. \A n \in T : n \in 0 .. k
    OBVIOUS
  <2> HIDE DEF T
  <2> QED BY <2>2, <2>3, FS_Subset
<1>2. \A n \in T : n + 1 \in T
  OBVIOUS
<1>3. f \in Injection(T, T)
  <2>1. f \in [T -> T]
    BY <1>2
  <2>2. \A a, b \in T : f[a] = f[b] => a = b
    OBVIOUS
  <2>3. DOMAIN f = T
    OBVIOUS
  <2> HIDE DEF T, f
  <2> QED BY <2>1, <2>2, <2>3 DEF Injection, IsInjective
<1>4. f \in Surjection(T, T)
  <2> HIDE DEF T, f
  <2> QED BY <1>1, <1>3, FS_Injection
<1>5. 0 \in T
  OBVIOUS
<1>6. PICK n \in T : f[n] = 0
  <2> HIDE DEF T, f
  <2> QED BY <1>4, <1>5 DEF Surjection
<1>7. n \in Nat /\ f[n] = n + 1
  OBVIOUS
<1> QED
  BY <1>6, <1>7

\* Induction up to a bound.
LEMMA IntervalInduction ==
  ASSUME NEW n \in Nat, NEW S, 0 \in S,
         \A i \in 0 .. n : i \in S /\ i < n => i + 1 \in S
  PROVE  \A i \in 0 .. n : i \in S
<1> DEFINE T == {i \in Nat : i <= n => i \in S}
<1>1. 0 \in T
  OBVIOUS
<1>2. \A i \in T : i + 1 \in T
  OBVIOUS
<1>3. T = Nat
  <2>1. T \in SUBSET Nat
    OBVIOUS
  <2> HIDE DEF T
  <2> QED BY <1>1, <1>2, <2>1, NumbersInduction
<1> QED
  BY <1>3

(***************************************************************************)
(* The digest of the rows that are not admitted, as it is after each row.  *)
(***************************************************************************)
IsDigest(g, m, n) ==
  g = [i \in 0 .. n |-> IF i = 0 THEN <<>>
                        ELSE IF Admitted(m[i]) THEN g[i - 1]
                        ELSE Append(g[i - 1], m[i])]

DigestOf(m) == CHOOSE g : IsDigest(g, m, Len(m))

\* It says of every row what the digest is after it.
LEMMA IsDigestAt ==
  ASSUME NEW g, NEW m, NEW n \in Nat, IsDigest(g, m, n), NEW i \in 0 .. n
  PROVE  g[i] = IF i = 0 THEN <<>>
                ELSE IF Admitted(m[i]) THEN g[i - 1]
                ELSE Append(g[i - 1], m[i])
<1> DEFINE after(j) == IF j = 0 THEN <<>>
                       ELSE IF Admitted(m[j]) THEN g[j - 1]
                       ELSE Append(g[j - 1], m[j])
           f == [j \in 0 .. n |-> after(j)]
<1>1. g = f
  BY DEF IsDigest
<1>2. f[i] = after(i)
  <2> HIDE DEF after
  <2> QED OBVIOUS
<1>3. g[i] = after(i)
  <2> HIDE DEF f, after
  <2> QED BY <1>1, <1>2
<1> QED BY <1>3

\* There is such a function for the first n rows, for every n.
LEMMA DigestExists ==
  ASSUME NEW m, NEW N \in Nat
  PROVE  \E g : IsDigest(g, m, N)
<1> DEFINE S == {n \in Nat : \E g : IsDigest(g, m, n)}
<1>1. 0 \in S
  <2>1. IsDigest([i \in 0 .. 0 |-> <<>>], m, 0)
    BY DEF IsDigest
  <2> QED BY <2>1
<1>2. ASSUME NEW n \in S PROVE n + 1 \in S
  <2>1. n \in Nat
    OBVIOUS
  <2>2. PICK g : IsDigest(g, m, n)
    OBVIOUS
  <2> DEFINE last == IF Admitted(m[n + 1]) THEN g[n] ELSE Append(g[n], m[n + 1])
             h == [i \in 0 .. n + 1 |-> IF i = n + 1 THEN last ELSE g[i]]
  <2>3. \A i \in 0 .. n : /\ h[i] = g[i]
                          /\ g[i] = IF i = 0 THEN <<>>
                                    ELSE IF Admitted(m[i]) THEN g[i - 1]
                                    ELSE Append(g[i - 1], m[i])
    <3>1. \A i \in 0 .. n : h[i] = g[i]
      BY <2>1
    <3> HIDE DEF h
    <3> QED BY <2>1, <2>2, <3>1, IsDigestAt
  <2>4. ASSUME NEW i \in 0 .. n + 1
        PROVE  h[i] = IF i = 0 THEN <<>>
                      ELSE IF Admitted(m[i]) THEN h[i - 1]
                      ELSE Append(h[i - 1], m[i])
    <3>1. CASE i = n + 1
      <4>1. h[i] = last /\ h[i - 1] = g[n] /\ i # 0
        BY <2>1, <3>1
      <4> QED BY <3>1, <4>1
    <3>2. CASE i # n + 1
      <4>1. i \in 0 .. n /\ (i # 0 => i - 1 \in 0 .. n)
        BY <2>1, <3>2
      <4>2. h[i] = g[i] /\ (i # 0 => h[i - 1] = g[i - 1])
        BY <2>3, <4>1
      <4> QED BY <2>3, <4>1, <4>2
    <3> QED BY <3>1, <3>2
  <2>5. h = [i \in 0 .. n + 1 |-> h[i]]
    OBVIOUS
  <2>6. IsDigest(h, m, n + 1)
    <3> HIDE DEF h
    <3> QED BY <2>4, <2>5 DEF IsDigest
  <2> QED
    BY <2>1, <2>6
<1>3. S = Nat
  <2>1. S \in SUBSET Nat
    OBVIOUS
  <2> HIDE DEF S
  <2> QED BY <1>1, <1>2, <2>1, NumbersInduction
<1> QED
  BY <1>3

\* What the running digest is, and that it is a sequence of rows.
LEMMA DigestFacts ==
  ASSUME NEW m \in Seq(ManifestRow)
  PROVE  /\ DigestOf(m)[0] = <<>>
         /\ \A i \in 1 .. Len(m) :
              DigestOf(m)[i] = IF Admitted(m[i]) THEN DigestOf(m)[i - 1]
                               ELSE Append(DigestOf(m)[i - 1], m[i])
         /\ \A i \in 0 .. Len(m) : DigestOf(m)[i] \in Seq(ManifestRow)
         /\ Nonadmitted(m) = DigestOf(m)[Len(m)]
<1> DEFINE g == DigestOf(m)
           n == Len(m)
<1>1. n \in Nat /\ \A i \in 1 .. n : m[i] \in ManifestRow
  OBVIOUS
<1>2. IsDigest(g, m, n)
  BY <1>1, DigestExists DEF DigestOf
<1>3. /\ g[0] = <<>>
      /\ \A i \in 1 .. n : g[i] = IF Admitted(m[i]) THEN g[i - 1]
                                  ELSE Append(g[i - 1], m[i])
  <2> HIDE DEF g, n
  <2>1. g[0] = <<>>
    BY <1>1, <1>2, IsDigestAt
  <2>2. ASSUME NEW i \in 1 .. n
        PROVE  g[i] = IF Admitted(m[i]) THEN g[i - 1] ELSE Append(g[i - 1], m[i])
    <3>1. i \in 0 .. n /\ i # 0
      BY <1>1
    <3> QED BY <1>1, <1>2, <3>1, IsDigestAt
  <2> QED BY <2>1, <2>2
<1>4. \A i \in 0 .. n : g[i] \in Seq(ManifestRow)
  <2> DEFINE S == {i \in 0 .. n : g[i] \in Seq(ManifestRow)}
  <2>1. 0 \in S
    <3>1. <<>> \in Seq(ManifestRow) /\ 0 \in 0 .. n
      BY <1>1
    <3> HIDE DEF g, n
    <3> QED BY <1>3, <3>1
  <2>2. ASSUME NEW i \in 0 .. n, i \in S, i < n PROVE i + 1 \in S
    <3>1. i + 1 \in 1 .. n /\ (i + 1) - 1 = i
      BY <1>1, <2>2
    <3>2. g[i + 1] = IF Admitted(m[i + 1]) THEN g[i] ELSE Append(g[i], m[i + 1])
      BY <1>3, <3>1
    <3>3. g[i] \in Seq(ManifestRow) /\ m[i + 1] \in ManifestRow
      BY <1>1, <2>2, <3>1
    <3>4. g[i + 1] \in Seq(ManifestRow)
      <4> HIDE DEF g
      <4> QED BY <3>2, <3>3
    <3> QED BY <3>1, <3>4
  <2>3. \A i \in 0 .. n : i \in S
    <3> HIDE DEF S, n
    <3> QED BY <1>1, <2>1, <2>2, IntervalInduction
  <2> QED BY <2>3
<1>5. Nonadmitted(m) = g[n]
  BY DEF Nonadmitted, DigestOf, IsDigest
<1> QED
  BY <1>3, <1>4, <1>5

\* What was appended can be told from the result.
LEMMA SameAppended ==
  ASSUME NEW a \in Seq(ManifestRow), NEW b \in Seq(ManifestRow),
         NEW x \in ManifestRow, NEW y \in ManifestRow, Append(a, x) = Append(b, y)
  PROVE  a = b /\ x = y
<1>1. Append(a, x) = Append(b, y) <=> a = b /\ x = y
  BY AppendInjective
<1> QED BY <1>1

\* Rows that are not admitted are in it as they are: where the same rows are
\* admitted, equal digests mean equal rows otherwise.
LEMMA SameNonadmitted ==
  ASSUME NEW s \in Seq(ManifestRow), NEW t \in Seq(ManifestRow), Len(s) = Len(t),
         \A i \in 1 .. Len(s) : Admitted(s[i]) <=> Admitted(t[i]),
         Nonadmitted(s) = Nonadmitted(t)
  PROVE  \A i \in 1 .. Len(s) : ~Admitted(s[i]) => s[i] = t[i]
<1> DEFINE n == Len(s)
           f == DigestOf(s)
           g == DigestOf(t)
<1>1. /\ n \in Nat /\ n = Len(t)
      /\ \A i \in 1 .. n : s[i] \in ManifestRow /\ t[i] \in ManifestRow
  OBVIOUS
<1>2. /\ \A i \in 1 .. n : f[i] = IF Admitted(s[i]) THEN f[i - 1]
                                  ELSE Append(f[i - 1], s[i])
      /\ \A i \in 0 .. n : f[i] \in Seq(ManifestRow)
      /\ Nonadmitted(s) = f[n]
  BY DigestFacts
<1>3. /\ \A i \in 1 .. n : g[i] = IF Admitted(t[i]) THEN g[i - 1]
                                  ELSE Append(g[i - 1], t[i])
      /\ \A i \in 0 .. n : g[i] \in Seq(ManifestRow)
      /\ Nonadmitted(t) = g[n]
  BY <1>1, DigestFacts
<1> HIDE DEF n, f, g
<1>4. ASSUME NEW i \in 1 .. n, f[i] = g[i]
      PROVE  f[i - 1] = g[i - 1] /\ (~Admitted(s[i]) => s[i] = t[i])
  <2>1. i - 1 \in 0 .. n
    BY <1>1
  <2>2. /\ f[i - 1] \in Seq(ManifestRow) /\ g[i - 1] \in Seq(ManifestRow)
        /\ s[i] \in ManifestRow /\ t[i] \in ManifestRow
    BY <1>1, <1>2, <1>3, <2>1
  <2>3. CASE Admitted(s[i])
    BY <1>2, <1>3, <1>4, <2>3 DEF n
  <2>4. CASE ~Admitted(s[i])
    <3>1. f[i] = Append(f[i - 1], s[i]) /\ g[i] = Append(g[i - 1], t[i])
      BY <1>2, <1>3, <2>4 DEF n
    <3>2. Append(f[i - 1], s[i]) = Append(g[i - 1], t[i])
      BY <1>4, <3>1
    <3>3. f[i - 1] = g[i - 1] /\ s[i] = t[i]
      <4> DEFINE a == f[i - 1]
                 b == g[i - 1]
                 x == s[i]
                 y == t[i]
      <4>1. /\ a \in Seq(ManifestRow) /\ b \in Seq(ManifestRow)
            /\ x \in ManifestRow /\ y \in ManifestRow
        BY <2>2
      <4>2. Append(a, x) = Append(b, y)
        BY <3>2
      <4> HIDE DEF a, b, x, y
      <4>3. a = b /\ x = y
        BY <4>1, <4>2, SameAppended
      <4> USE DEF a, b, x, y
      <4> QED BY <4>3
    <3> QED BY <3>3
  <2> QED BY <2>3, <2>4
<1>5. \A i \in 0 .. n : f[i] = g[i]
  <2> DEFINE S == {d \in 0 .. n : f[n - d] = g[n - d]}
  <2>1. 0 \in S
    <3>1. f[n] = g[n]
      BY <1>2, <1>3
    <3>2. n - 0 = n /\ 0 \in 0 .. n
      BY <1>1
    <3> QED BY <3>1, <3>2
  <2>2. ASSUME NEW d \in 0 .. n, d \in S, d < n PROVE d + 1 \in S
    <3>1. n - d \in 1 .. n /\ (n - d) - 1 = n - (d + 1) /\ d + 1 \in 0 .. n
      BY <1>1, <2>2
    <3>2. f[n - d] = g[n - d]
      BY <2>2
    <3> QED BY <1>4, <3>1, <3>2
  <2>3. \A d \in 0 .. n : d \in S
    <3> HIDE DEF S
    <3> QED BY <1>1, <2>1, <2>2, IntervalInduction
  <2>4. ASSUME NEW i \in 0 .. n PROVE f[i] = g[i]
    <3>1. n - i \in 0 .. n /\ n - (n - i) = i
      BY <1>1
    <3> QED BY <2>3, <3>1
  <2> QED BY <2>4
<1>6. \A i \in 1 .. n : i \in 0 .. n
  BY <1>1
<1> QED
  BY <1>4, <1>5, <1>6 DEF n

\* If one admits a part of what the other does, and as many, it is the same.
LEMMA SameAdmitted ==
  ASSUME NEW s \in Seq(ManifestRow), NEW t \in Seq(ManifestRow), Len(s) = Len(t),
         \A i \in 1 .. Len(s) : Admitted(s[i]) => Admitted(t[i]),
         AdmittedCount(s) = AdmittedCount(t)
  PROVE  \A i \in 1 .. Len(s) : Admitted(s[i]) <=> Admitted(t[i])
<1> DEFINE S == {i \in 1 .. Len(s) : Admitted(s[i])}
           T == {i \in 1 .. Len(t) : Admitted(t[i])}
<1>1. IsFiniteSet(1 .. Len(t))
  <2>1. 1 \in Int /\ Len(t) \in Int
    OBVIOUS
  <2> QED BY <2>1, FS_Interval
<1>2. IsFiniteSet(T)
  <2>1. \A i \in T : i \in 1 .. Len(t)
    OBVIOUS
  <2> HIDE DEF T
  <2> QED BY <1>1, <2>1, FS_Subset
<1>3. \A i \in S : i \in T
  OBVIOUS
<1>4. Cardinality(S) = Cardinality(T)
  BY DEF AdmittedCount
<1>5. S = T
  <2> HIDE DEF S, T
  <2> QED BY <1>2, <1>3, <1>4, FS_Subset
<1> QED
  BY <1>5

(***************************************************************************)
(* The hash of a package.                                                  *)
(***************************************************************************)
LEMMA ElementsFacts ==
  ASSUME NEW S, NEW s \in Seq(S)
  PROVE  /\ Elements(s) \subseteq S
         /\ IsFiniteSet(Elements(s))
<1> DEFINE f == [i \in 1 .. Len(s) |-> s[i]]
<1>1. \A i \in 1 .. Len(s) : s[i] \in S
  OBVIOUS
<1>2. f \in Surjection(1 .. Len(s), Elements(s))
  BY DEF Surjection, Elements
<1>3. IsFiniteSet(1 .. Len(s))
  <2>1. 1 \in Int /\ Len(s) \in Int
    OBVIOUS
  <2> QED BY <2>1, FS_Interval
<1>4. IsFiniteSet(Elements(s))
  <2> HIDE DEF f
  <2> QED BY <1>2, <1>3, FS_Surjection
<1> QED
  BY <1>1, <1>4 DEF Elements

\* What is in the tar for a member is a string, and where it is one thing,
\* it is the same for every file of that name.
LEMMA BytesFacts ==
  ASSUME NEW files \in Seq(TarFile), NEW m, Cardinality(Bytes(files, m)) = 1
  PROVE  /\ (CHOOSE d \in Bytes(files, m) : TRUE) \in STRING
         /\ [member |-> m, data |-> CHOOSE d \in Bytes(files, m) : TRUE] \in Elements(files)
         /\ \A f, g \in Elements(files) :
              f.member = m /\ g.member = m => f.data = g.data
<1> DEFINE S == {x \in Elements(files) : x.member = m}
           B == Bytes(files, m)
           data == [x \in S |-> x.data]
           d0 == CHOOSE d \in B : TRUE
<1>1. Elements(files) \subseteq TarFile /\ IsFiniteSet(Elements(files))
  BY ElementsFacts
<1>2. IsFiniteSet(S)
  <2>1. \A x \in S : x \in Elements(files)
    OBVIOUS
  <2> HIDE DEF S
  <2> QED BY <1>1, <2>1, FS_Subset
<1>3. IsFiniteSet(B)
  <2>1. data \in Surjection(S, B)
    BY DEF Surjection, Bytes
  <2> HIDE DEF S, B, data
  <2> QED BY <1>2, <2>1, FS_Surjection
<1>4. PICK x : B = {x}
  <2> HIDE DEF B
  <2>1. Cardinality(B) = 1
    BY DEF B
  <2> QED BY <1>3, <2>1, FS_Singleton
<1>5. d0 \in B
  BY <1>4
<1>6. PICK f \in Elements(files) : f.member = m /\ f.data = d0
  BY <1>5 DEF Bytes
<1>7. f \in TarFile
  BY <1>1
<1>8. f = [member |-> m, data |-> d0] /\ d0 \in STRING
  BY <1>6, <1>7 DEF TarFile
<1>9. \A g, h \in Elements(files) : g.member = m /\ h.member = m => g.data = h.data
  <2> SUFFICES ASSUME NEW g \in Elements(files), NEW h \in Elements(files),
                      g.member = m, h.member = m
               PROVE  g.data = h.data
    OBVIOUS
  <2>1. g.data \in B /\ h.data \in B
    BY DEF Bytes
  <2> QED BY <1>4, <2>1
<1> QED
  BY <1>6, <1>8, <1>9

\* The hash of a package that is there has one part for each member, and
\* what it says of a member is in the tar.
LEMMA DigestOfPackage ==
  ASSUME NEW files \in Seq(TarFile), NEW row \in ManifestRow, MembersThere(files, row)
  PROVE  /\ Digest(files, row) \in Seq((Root \X STRING) \X STRING)
         /\ Len(Digest(files, row)) = Len(row.members)
         /\ \A k \in 1 .. Len(row.members) :
              /\ Digest(files, row)[k][1] = row.members[k]
              /\ [member |-> Digest(files, row)[k][1], data |-> Digest(files, row)[k][2]]
                   \in Elements(files)
         /\ row.members # <<>> => Digest(files, row) # NoHash
<1> DEFINE n == Len(row.members)
           byte(k) == CHOOSE d \in Bytes(files, row.members[k]) : TRUE
           hash == [k \in 1 .. n |-> <<row.members[k], byte(k)>>]
<1>1. /\ row.members \in Seq(Root \X STRING) /\ n \in Nat
      /\ \A k \in 1 .. n : row.members[k] \in Root \X STRING
  BY DEF ManifestRow
<1>2. ASSUME NEW k \in 1 .. n
      PROVE  /\ byte(k) \in STRING
             /\ [member |-> row.members[k], data |-> byte(k)] \in Elements(files)
  <2>1. Cardinality(Bytes(files, row.members[k])) = 1
    BY DEF MembersThere, Elements
  <2> QED BY <2>1, BytesFacts
<1>3. Digest(files, row) = hash
  BY DEF Digest
<1> HIDE DEF byte
<1>4. \A k \in 1 .. n : hash[k] \in (Root \X STRING) \X STRING
  BY <1>1, <1>2
<1>5. hash \in Seq((Root \X STRING) \X STRING) /\ Len(hash) = n
  <2> DEFINE T == (Root \X STRING) \X STRING
  <2>1. n \in Nat /\ \A k \in 1 .. n : hash[k] \in T
    BY <1>1, <1>4
  <2>2. hash = [k \in 1 .. n |-> hash[k]]
    OBVIOUS
  <2> HIDE DEF T, hash, n
  <2>3. hash \in Seq(T) /\ Len(hash) = n
    BY <2>1, <2>2
  <2> QED BY <2>3 DEF T
<1>6. \A k \in 1 .. n : hash[k][1] = row.members[k] /\ hash[k][2] = byte(k)
  OBVIOUS
<1>7. row.members # <<>> => n # 0
  BY <1>1
<1> HIDE DEF hash
<1>8. n # 0 => hash # NoHash
  BY <1>5 DEF NoHash
<1> QED
  BY <1>2, <1>3, <1>5, <1>6, <1>7, <1>8

(***************************************************************************)
(* Settled rows.                                                           *)
(***************************************************************************)
\* A settled row has the identity and the status of the input's, and a hash
\* if it is admitted.
LEMMA SettledFacts ==
  ASSUME NEW files \in Corpora, NEW row \in ManifestRow, NEW r \in ManifestRow,
         NEW c, Settled(files, row, r, c)
  PROVE  /\ row.id = r.id /\ row.tar = r.tar /\ row.members = r.members
         /\ Admitted(row) <=> Admitted(r)
         /\ Admitted(r) /\ r.members # <<>> => row.hash # NoHash
<1>1. CASE ~Admitted(r)
  BY <1>1 DEF Settled
<1>2. CASE Admitted(r)
  <2>1. row = [r EXCEPT !.hash = row.hash, !.sha = c]
    BY <1>2 DEF Settled
  <2>2. /\ row.id = r.id /\ row.tar = r.tar /\ row.members = r.members
        /\ row.status = r.status
    BY <2>1 DEF ManifestRow
  <2>3. CASE Unhashed(r)
    <3>1. /\ files[r.tar] # None /\ MembersThere(files[r.tar], r)
          /\ row.hash = Digest(files[r.tar], r)
      BY <1>2, <2>3 DEF Settled
    <3>2. files[r.tar] \in Seq(TarFile)
      BY <3>1, CorporaAssumption DEF ManifestRow
    <3> QED BY <1>2, <2>2, <3>1, <3>2, DigestOfPackage DEF Admitted
  <2>4. CASE ~Unhashed(r)
    <3>1. row.hash = r.hash
      BY <1>2, <2>4 DEF Settled
    <3> QED BY <1>2, <2>2, <2>4, <3>1 DEF Admitted, Unhashed
  <2> QED BY <2>3, <2>4
<1> QED BY <1>1, <1>2

\* A package that is hashed from its tar is settled by it.
LEMMA HashedIsSettled ==
  ASSUME NEW files \in Corpora, NEW r \in ManifestRow, NEW c \in Nat,
         Unhashed(r), files[r.tar] # None, MembersThere(files[r.tar], r)
  PROVE  LET row == [r EXCEPT !.hash = Digest(files[r.tar], r), !.sha = c]
         IN row \in ManifestRow /\ Settled(files, row, r, c)
<1> DEFINE hash == Digest(files[r.tar], r)
           row == [r EXCEPT !.hash = hash, !.sha = c]
<1>1. files[r.tar] \in Seq(TarFile)
  BY CorporaAssumption DEF ManifestRow
<1>2. hash \in Seq((Root \X STRING) \X STRING)
  BY <1>1, DigestOfPackage
<1>3. Admitted(r)
  BY DEF Unhashed
<1> HIDE DEF hash
<1>4. row \in ManifestRow /\ row.hash = hash
  BY <1>2 DEF ManifestRow
<1>5. row = [r EXCEPT !.hash = row.hash, !.sha = c]
  BY <1>4
<1>6. Settled(files, row, r, c)
  <2> HIDE DEF row
  <2> QED BY <1>3, <1>4, <1>5 DEF Settled, hash
<1> QED BY <1>4, <1>6 DEF hash

\* A row that waits for its tar has not been settled by anything.
LEMMA SettledIsNotWaiting ==
  ASSUME NEW files \in Corpora, NEW row \in ManifestRow, NEW r \in ManifestRow,
         NEW c, Settled(files, row, r, c), r.members # <<>>
  PROVE  ~Unhashed(row)
BY SettledFacts DEF Unhashed

LEMMA VersionFacts ==
  /\ Version \subseteq Nat
  /\ 0 \notin Version
  /\ \A v \in Version : Manifests[v] \in Seq(ManifestRow)
BY ManifestsAssumption DEF Version

(***************************************************************************)
(* The inductive invariant.                                                *)
(***************************************************************************)
LEMMA InitInv == Init => IInv
<1> SUFFICES ASSUME Init PROVE IInv
  OBVIOUS
<1>1. TypeOK
  <2>1. <<>> \in Seq(ManifestRow) /\ Len(<<>>) = 0
    OBVIOUS
  <2> QED BY <2>1 DEF Init, TypeOK, Phase
<1>2. StagedOK /\ WrittenOK /\ SummaryOK
  BY DEF Init, StagedOK, WrittenOK, SummaryOK
<1> QED BY <1>1, <1>2 DEF IInv

\* Nothing is known of a process that has ended.
LEMMA EndInv ==
  ASSUME IInv, ProcessEnds, UNCHANGED <<corpus, complete, summary>>,
         input' \in Version, faults' \in Nat,
         output' \in Seq(ManifestRow) \cup {None},
         summary # None => UNCHANGED output,
         complete => UNCHANGED output
  PROVE  IInv'
<1>1. TypeOK'
  <2>1. <<>> \in Seq(ManifestRow) /\ Len(<<>>) = 0
    OBVIOUS
  <2> QED BY <2>1 DEF IInv, TypeOK, ProcessEnds, Phase
<1>2. StagedOK' /\ WrittenOK'
  BY DEF IInv, StagedOK, WrittenOK, ProcessEnds
<1>3. SummaryOK'
  BY DEF IInv, SummaryOK, ProcessEnds
<1> QED BY <1>1, <1>2, <1>3 DEF IInv

LEMMA StartInv ==
  ASSUME IInv, NEW t \in {"bounded", "whole"}, Start(t)
  PROVE  IInv'
BY DEF IInv, TypeOK, StagedOK, WrittenOK, SummaryOK, Start, Phase, fileVars

LEMMA RemoveOutputInv ==
  ASSUME IInv, RemoveOutput
  PROVE  IInv'
BY DEF IInv, TypeOK, StagedOK, WrittenOK, SummaryOK, RemoveOutput, Phase, procVars

LEMMA HashInputInv ==
  ASSUME IInv, HashInput
  PROVE  IInv'
BY DEF IInv, TypeOK, StagedOK, WrittenOK, SummaryOK, HashInput, Phase, fileVars

LEMMA ReplaceInputInv ==
  ASSUME IInv, NEW v \in Version, ReplaceInput(v)
  PROVE  IInv'
<1>1. faults' \in Nat
  BY MaxFaultsAssumption DEF IInv, TypeOK, ReplaceInput, Fault
<1> QED
  BY <1>1 DEF IInv, TypeOK, StagedOK, WrittenOK, SummaryOK, ReplaceInput,
              fileVars, procVars

LEMMA KillInv ==
  ASSUME IInv, Kill
  PROVE  IInv'
<1>1. faults' \in Nat
  BY DEF IInv, TypeOK, Kill, Fault
<1>2. <<>> \in Seq(ManifestRow)
  OBVIOUS
<1>3. output' \in Seq(ManifestRow) \cup {None}
  BY <1>2 DEF IInv, TypeOK, Kill
<1>4. summary = None
  BY DEF IInv, SummaryOK, Kill
<1>5. complete => UNCHANGED output
  BY DEF IInv, WrittenOK, Kill
<1> QED
  BY <1>1, <1>3, <1>4, <1>5, EndInv DEF Kill, IInv, TypeOK

LEMMA FailsInv ==
  ASSUME IInv,
         \/ StageFails
         \/ \E t \in Tar : EnrichFails(t)
         \/ VerifyFails
  PROVE  IInv'
<1>1. ProcessEnds /\ UNCHANGED <<input, corpus, output, complete, summary, faults>>
  BY DEF StageFails, EnrichFails, VerifyFails, fileVars
<1> QED
  BY <1>1, EndInv DEF IInv, TypeOK

LEMMA WriteFailsInv ==
  ASSUME IInv, WriteFails
  PROVE  IInv'
<1>1. <<>> \in Seq(ManifestRow)
  OBVIOUS
<1>2. output' \in Seq(ManifestRow) \cup {None}
  BY <1>1 DEF WriteFails
<1>3. summary = None /\ complete = FALSE
  BY DEF IInv, TypeOK, SummaryOK, WrittenOK, WriteFails
<1> QED
  BY <1>2, <1>3, EndInv DEF WriteFails, IInv, TypeOK

\* The rows as they are staged: settled, or waiting for their tar.
LEMMA StageInv ==
  ASSUME IInv, Stage
  PROVE  IInv'
<1> DEFINE m == Manifests[input]
           n == Len(m)
<1>1. input \in Version /\ m \in Seq(ManifestRow) /\ n \in Nat
  BY VersionFacts DEF IInv, TypeOK
<1>2. sha \in Version /\ sha \in Nat
  BY VersionFacts DEF IInv, StagedOK, Stage
<1>3. corpus \in Corpora
  BY DEF IInv, TypeOK
<1>4. /\ staged' = m /\ pc' = "enrich" /\ UNCHANGED <<tool, sha, corpus>>
      /\ rows' = [i \in 1 .. n |->
                    IF Admitted(m[i]) /\ ~Unhashed(m[i])
                    THEN [m[i] EXCEPT !.sha = sha] ELSE m[i]]
      /\ tarsLeft' = {r.tar : r \in {x \in Elements(m) : Unhashed(x)}}
      /\ Stageable(m, tool)
  BY DEF Stage, fileVars
<1> HIDE DEF m
<1>5. \A i \in 1 .. n : m[i] \in ManifestRow
  BY <1>1
<1>6. ASSUME NEW i \in 1 .. n
      PROVE  /\ rows'[i] \in ManifestRow
             /\ \/ Settled(corpus, rows'[i], m[i], sha)
                \/ rows'[i] = m[i] /\ Unhashed(m[i]) /\ m[i].tar \in tarsLeft'
  <2>1. m[i] \in ManifestRow
    BY <1>5
  <2>2. rows'[i] = IF Admitted(m[i]) /\ ~Unhashed(m[i])
                   THEN [m[i] EXCEPT !.sha = sha] ELSE m[i]
    BY <1>4
  <2>3. CASE ~Admitted(m[i])
    BY <2>1, <2>2, <2>3 DEF Settled
  <2>4. CASE Admitted(m[i]) /\ ~Unhashed(m[i])
    <3> DEFINE row == [m[i] EXCEPT !.sha = sha]
    <3>1. row \in ManifestRow /\ row.hash = m[i].hash
      BY <1>2, <2>1 DEF ManifestRow
    <3>2. row = [m[i] EXCEPT !.hash = row.hash, !.sha = sha]
      BY <2>1 DEF ManifestRow
    <3>3. Settled(corpus, row, m[i], sha)
      <4> HIDE DEF row
      <4> QED BY <2>4, <3>1, <3>2 DEF Settled
    <3> QED BY <2>2, <2>4, <3>1, <3>3
  <2>5. CASE Unhashed(m[i])
    <3>1. rows'[i] = m[i]
      BY <2>2, <2>5
    <3>2. m[i] \in Elements(m)
      BY DEF Elements
    <3>3. m[i].tar \in tarsLeft'
      BY <1>4, <2>5, <3>2
    <3> QED BY <2>1, <2>5, <3>1, <3>3
  <2> QED BY <2>3, <2>4, <2>5
<1>7. rows' \in Seq(ManifestRow) /\ Len(rows') = n
  <2> HIDE DEF n
  <2>1. rows' = [i \in 1 .. n |-> rows'[i]]
    BY <1>4
  <2>2. \A i \in 1 .. n : rows'[i] \in ManifestRow
    BY <1>6
  <2> QED BY <1>1, <2>1, <2>2
<1>8. tarsLeft' \in SUBSET Tar
  <2>1. \A x \in Elements(m) : x.tar \in Tar
    BY <1>5 DEF Elements, ManifestRow
  <2> QED BY <1>4, <2>1
<1>9. TypeOK'
  BY <1>1, <1>4, <1>7, <1>8 DEF IInv, TypeOK, Stage, Phase, fileVars
<1>10. StagedOK'
  <2>1. \E v \in Version : m = Manifests[v]
    BY <1>1 DEF m
  <2>2. (sha \in Version)' /\ Stageable(staged', tool')
    BY <1>2, <1>4
  <2>3. \A i \in 1 .. Len(staged') :
          \/ Settled(corpus', rows'[i], staged'[i], sha')
          \/ /\ rows'[i] = staged'[i] /\ Unhashed(staged'[i])
             /\ staged'[i].tar \in tarsLeft'
    BY <1>4, <1>6
  <2> QED BY <1>4, <2>1, <2>2, <2>3 DEF StagedOK
<1>11. WrittenOK' /\ SummaryOK'
  BY DEF IInv, WrittenOK, SummaryOK, Stage, fileVars
<1> QED BY <1>9, <1>10, <1>11 DEF IInv

\* The tar settles the rows that waited for it.
LEMMA EnrichTarInv ==
  ASSUME IInv, NEW tar \in Tar, EnrichTar(tar)
  PROVE  IInv'
<1> DEFINE n == Len(rows)
<1>1. /\ rows \in Seq(ManifestRow) /\ staged \in Seq(ManifestRow)
      /\ n \in Nat /\ Len(staged) = n /\ corpus \in Corpora
      /\ \A i \in 1 .. n : rows[i] \in ManifestRow /\ staged[i] \in ManifestRow
  BY DEF IInv, TypeOK
<1>2. sha \in Version /\ sha \in Nat
  BY VersionFacts DEF IInv, StagedOK, EnrichTar
<1>3. /\ pc = "enrich" /\ corpus[tar] # None
      /\ \A i \in Of(tar) : MembersThere(corpus[tar], rows[i])
      /\ tarsLeft' = tarsLeft \ {tar}
      /\ UNCHANGED <<corpus, staged, tool, sha, pc>>
      /\ rows' = [i \in 1 .. n |->
                    IF i \in Of(tar)
                    THEN [rows[i] EXCEPT !.hash = Digest(corpus[tar], rows[i]), !.sha = sha]
                    ELSE rows[i]]
  BY DEF EnrichTar, TarGood, fileVars
<1>4. /\ Stageable(staged, tool)
      /\ \A i \in 1 .. n :
           \/ Settled(corpus, rows[i], staged[i], sha)
           \/ /\ rows[i] = staged[i] /\ Unhashed(staged[i])
              /\ staged[i].tar \in tarsLeft
  BY <1>1, <1>3 DEF IInv, StagedOK
<1>5. \A i \in 1 .. n : Admitted(staged[i]) => staged[i].members # <<>>
  BY <1>1, <1>4 DEF Stageable, Elements
<1>6. ASSUME NEW i \in 1 .. n
      PROVE  /\ rows'[i] \in ManifestRow
             /\ \/ Settled(corpus, rows'[i], staged[i], sha)
                \/ /\ rows'[i] = staged[i] /\ Unhashed(staged[i])
                   /\ staged[i].tar \in tarsLeft'
  <2>1. rows[i] \in ManifestRow /\ staged[i] \in ManifestRow
    BY <1>1
  <2>2. CASE i \in Of(tar)
    <3>1. Unhashed(rows[i]) /\ rows[i].tar = tar
      BY <2>2 DEF Of
    <3>2. rows[i] = staged[i]
      <4>1. SUFFICES ASSUME Settled(corpus, rows[i], staged[i], sha) PROVE FALSE
        BY <1>4
      <4>2. Admitted(staged[i])
        BY <1>1, <2>1, <3>1, <4>1, SettledFacts DEF Unhashed
      <4> QED BY <1>1, <1>5, <2>1, <3>1, <4>1, <4>2, SettledIsNotWaiting
    <3>3. rows'[i] = [rows[i] EXCEPT !.hash = Digest(corpus[tar], rows[i]), !.sha = sha]
      BY <1>3, <2>2
    <3>4. MembersThere(corpus[tar], rows[i])
      BY <1>3, <2>2
    <3> DEFINE row == [rows[i] EXCEPT !.hash = Digest(corpus[rows[i].tar], rows[i]),
                                      !.sha = sha]
    <3>5. corpus[rows[i].tar] # None /\ MembersThere(corpus[rows[i].tar], rows[i])
      BY <1>3, <3>1, <3>4
    <3>6. row \in ManifestRow /\ Settled(corpus, row, rows[i], sha)
      BY <1>1, <1>2, <2>1, <3>1, <3>5, HashedIsSettled
    <3>7. rows'[i] = row
      BY <3>1, <3>3
    <3> HIDE DEF row
    <3> QED BY <3>2, <3>6, <3>7
  <2>3. CASE i \notin Of(tar)
    <3>1. rows'[i] = rows[i]
      BY <1>3, <2>3
    <3>2. CASE Settled(corpus, rows[i], staged[i], sha)
      BY <2>1, <3>1, <3>2
    <3>3. CASE /\ rows[i] = staged[i] /\ Unhashed(staged[i])
               /\ staged[i].tar \in tarsLeft
      <4>1. staged[i].tar # tar
        BY <2>3, <3>3 DEF Of
      <4> QED BY <1>3, <2>1, <3>1, <3>3, <4>1
    <3> QED BY <1>4, <3>2, <3>3
  <2> QED BY <2>2, <2>3
<1>7. rows' \in Seq(ManifestRow) /\ Len(rows') = n
  <2> HIDE DEF n
  <2>1. rows' = [i \in 1 .. n |-> rows'[i]]
    BY <1>3
  <2>2. \A i \in 1 .. n : rows'[i] \in ManifestRow
    BY <1>6
  <2> QED BY <1>1, <2>1, <2>2
<1>8. TypeOK'
  BY <1>1, <1>3, <1>7 DEF IInv, TypeOK, EnrichTar, fileVars
<1>9. StagedOK'
  <2>1. (\E v \in Version : staged = Manifests[v])'
    BY <1>3 DEF IInv, StagedOK
  <2>2. (sha \in Version)' /\ Stageable(staged', tool')
    BY <1>2, <1>3, <1>4
  <2>3. \A i \in 1 .. Len(staged') :
          \/ Settled(corpus', rows'[i], staged'[i], sha')
          \/ /\ rows'[i] = staged'[i] /\ Unhashed(staged'[i])
             /\ staged'[i].tar \in tarsLeft'
    BY <1>1, <1>3, <1>6
  <2> QED BY <1>3, <2>1, <2>2, <2>3 DEF StagedOK
<1>10. WrittenOK' /\ SummaryOK'
  BY <1>3 DEF IInv, WrittenOK, SummaryOK, EnrichTar, fileVars
<1> QED BY <1>8, <1>9, <1>10 DEF IInv

LEMMA EnrichEndsInv ==
  ASSUME IInv, EnrichEnds
  PROVE  IInv'
<1>1. TypeOK'
  BY DEF IInv, TypeOK, EnrichEnds, fileVars, Phase
<1>2. StagedOK'
  BY DEF IInv, StagedOK, EnrichEnds, fileVars
<1>3. WrittenOK' /\ SummaryOK'
  BY DEF IInv, WrittenOK, SummaryOK, EnrichEnds, fileVars
<1> QED BY <1>1, <1>2, <1>3 DEF IInv

\* The admitted rows of what the bounded tool writes are staged ones.
LEMMA WriteInv ==
  ASSUME IInv, Write
  PROVE  IInv'
<1> DEFINE n == Len(Source)
<1>1. /\ output' = Merged /\ pc' = "verify" /\ complete' = TRUE
      /\ UNCHANGED <<input, corpus, summary, tool, sha, staged, rows, tarsLeft, faults>>
      /\ pc = "write" /\ Mergeable
  BY DEF Write
<1>2. rows \in Seq(ManifestRow) /\ tool \in {"bounded", "whole"} /\ summary = None
  BY <1>1 DEF IInv, TypeOK, SummaryOK
<1>3. Source \in Seq(ManifestRow)
  BY <1>2, VersionFacts DEF Source, IInv, TypeOK
<1>4. n \in Nat /\ \A i \in 1 .. n : Source[i] \in ManifestRow
  BY <1>3
<1>5. \A i \in 1 .. Len(rows) : rows[i] \in ManifestRow
  BY <1>2
<1>6. ASSUME NEW i \in 1 .. n
      PROVE  /\ Merged[i] \in ManifestRow
             /\ tool = "bounded" /\ Admitted(Merged[i]) => Merged[i] \in Elements(rows)
  <2>1. Merged[i] = IF tool = "bounded" /\ Admitted(Source[i])
                    THEN CHOOSE r \in StagedRow(Source[i].id) : TRUE
                    ELSE Source[i]
    BY DEF Merged
  <2>2. CASE tool = "bounded" /\ Admitted(Source[i])
    <3>1. StagedRow(Source[i].id) # {}
      BY <1>1, <2>2 DEF Mergeable
    <3>2. Merged[i] \in StagedRow(Source[i].id)
      BY <2>1, <2>2, <3>1
    <3>3. Merged[i] \in Elements(rows)
      BY <3>2 DEF StagedRow
    <3> QED BY <1>5, <3>3 DEF Elements
  <2>3. CASE ~(tool = "bounded" /\ Admitted(Source[i]))
    BY <1>4, <2>1, <2>3
  <2> QED BY <2>2, <2>3
<1>7. Merged = [i \in 1 .. n |-> Merged[i]]
  BY DEF Merged
<1> HIDE DEF n
<1>8. Merged \in Seq(ManifestRow) /\ Len(Merged) = n
  BY <1>4, <1>6, <1>7
<1>9. tool = "whole" => Merged = rows
  <2> SUFFICES ASSUME tool = "whole" PROVE Merged = rows
    OBVIOUS
  <2>1. Source = rows
    BY DEF Source
  <2>2. Merged = [i \in 1 .. Len(rows) |-> rows[i]]
    BY <2>1 DEF Merged
  <2> QED BY <1>2, <2>2
<1>10. tool = "bounded" => \A r \in Elements(Merged) : Admitted(r) => r \in Elements(rows)
  <2> SUFFICES ASSUME tool = "bounded", NEW i \in 1 .. n, Admitted(Merged[i])
               PROVE  Merged[i] \in Elements(rows)
    BY <1>8 DEF Elements
  <2> QED BY <1>6
<1>11. TypeOK'
  BY <1>1, <1>2, <1>8, NoneAssumption DEF IInv, TypeOK, Phase
<1>12. StagedOK'
  BY <1>1 DEF IInv, StagedOK
<1>13. WrittenOK'
  BY <1>1, <1>2, <1>9, <1>10 DEF IInv, WrittenOK, Elements
<1>14. SummaryOK'
  BY <1>1, <1>2 DEF SummaryOK
<1> QED BY <1>11, <1>12, <1>13, <1>14 DEF IInv

\* What the bounded tool verifies is what it staged: by its identity an
\* admitted row of the output is the one at its place; that no fewer are
\* admitted follows from the count, and that the others are the input's from
\* their digest.
LEMMA VerifiedRows ==
  ASSUME IInv, pc = "verify", Verifies
  PROVE  output = rows
<1>1. CASE tool = "whole"
  BY <1>1 DEF IInv, WrittenOK
<1>2. CASE tool # "whole"
  <2> DEFINE n == Len(rows)
  <2>1. /\ rows \in Seq(ManifestRow) /\ staged \in Seq(ManifestRow) /\ Len(staged) = n
        /\ corpus \in Corpora /\ tarsLeft = {} /\ output \in Seq(ManifestRow)
        /\ n \in Nat
    BY DEF IInv, TypeOK, WrittenOK
  <2>2. /\ Identities(output) = Identities(staged)
        /\ AdmittedCount(output) = AdmittedCount(staged)
        /\ Nonadmitted(output) = Nonadmitted(staged)
    BY <1>2 DEF Verifies
  <2>3. \A r \in Elements(output) : Admitted(r) => r \in Elements(rows)
    BY <1>2 DEF IInv, WrittenOK
  <2>4. /\ \A i, j \in 1 .. n : staged[i].id = staged[j].id => i = j
        /\ \A i \in 1 .. n : Settled(corpus, rows[i], staged[i], sha)
    BY <2>1 DEF IInv, StagedOK, Stageable
  <2>5. \A i \in 1 .. n : /\ rows[i].id = staged[i].id
                          /\ Admitted(rows[i]) <=> Admitted(staged[i])
                          /\ ~Admitted(staged[i]) => rows[i] = staged[i]
    <3> SUFFICES ASSUME NEW i \in 1 .. n
                 PROVE  /\ rows[i].id = staged[i].id
                        /\ Admitted(rows[i]) <=> Admitted(staged[i])
                        /\ ~Admitted(staged[i]) => rows[i] = staged[i]
      OBVIOUS
    <3>1. rows[i] \in ManifestRow /\ staged[i] \in ManifestRow
      BY <2>1
    <3>2. Settled(corpus, rows[i], staged[i], sha)
      BY <2>4
    <3>3. ~Admitted(staged[i]) => rows[i] = staged[i]
      BY <3>2 DEF Settled
    <3> QED BY <2>1, <3>1, <3>2, <3>3, SettledFacts
  <2>6. Len(output) = n /\ \A i \in 1 .. n : output[i].id = staged[i].id
    <3>1. Len(output) \in Nat
      BY <2>1
    <3>2. DOMAIN Identities(output) = 1 .. Len(output) /\ DOMAIN Identities(staged) = 1 .. n
      BY <2>1 DEF Identities
    <3>3. Len(output) = n
      BY <2>1, <2>2, <3>1, <3>2
    <3> QED BY <2>1, <2>2, <3>3 DEF Identities
  <2> HIDE DEF n
  <2>7. ASSUME NEW i \in 1 .. n, Admitted(output[i]) PROVE output[i] = rows[i]
    <3>1. output[i] \in Elements(rows)
      BY <2>3, <2>6, <2>7 DEF Elements
    <3>2. PICK j \in 1 .. n : output[i] = rows[j]
      BY <3>1 DEF Elements, n
    <3>3. staged[j].id = staged[i].id
      BY <2>5, <2>6, <3>2
    <3> QED BY <2>4, <3>2, <3>3
  <2>8. ASSUME NEW i \in 1 .. n, Admitted(output[i]) PROVE Admitted(staged[i])
    <3>1. output[i] = rows[i]
      BY <2>7, <2>8
    <3>2. Admitted(rows[i])
      BY <2>8, <3>1
    <3> QED BY <2>5, <3>2
  <2>9. \A i \in 1 .. n : Admitted(output[i]) <=> Admitted(staged[i])
    BY <2>1, <2>2, <2>6, <2>8, SameAdmitted
  <2>10. \A i \in 1 .. n : ~Admitted(output[i]) => output[i] = staged[i]
    BY <2>1, <2>2, <2>6, <2>9, SameNonadmitted
  <2>11. ASSUME NEW i \in 1 .. n PROVE output[i] = rows[i]
    <3>1. CASE Admitted(output[i])
      BY <2>7, <3>1
    <3>2. CASE ~Admitted(output[i])
      <4>1. output[i] = staged[i] /\ ~Admitted(staged[i])
        BY <2>9, <2>10, <3>2
      <4>2. rows[i] = staged[i]
        BY <2>5, <4>1
      <4> QED BY <4>1, <4>2
    <3> QED BY <3>1, <3>2
  <2> QED
    BY <2>1, <2>6, <2>11, SeqEqual DEF n
<1> QED BY <1>1, <1>2

LEMMA VerifyInv ==
  ASSUME IInv, Verify
  PROVE  IInv'
<1>1. output = rows
  BY VerifiedRows DEF Verify
<1>2. TypeOK'
  BY DEF IInv, TypeOK, Verify, fileVars, Phase
<1>3. StagedOK'
  BY DEF IInv, StagedOK, Verify, fileVars
<1>4. WrittenOK' /\ SummaryOK'
  BY <1>1 DEF IInv, WrittenOK, SummaryOK, Verify, fileVars
<1> QED BY <1>2, <1>3, <1>4 DEF IInv

\* The summary is written over rows that are all settled.
LEMMA SummariseInv ==
  ASSUME IInv, Summarise
  PROVE  IInv'
<1>1. /\ pc = "summarise" /\ summary' = sha /\ pc' = "down" /\ ProcessEnds
      /\ UNCHANGED <<input, corpus, output, complete, faults>>
  BY DEF Summarise, ProcessEnds
<1>2. /\ sha \in Version /\ complete /\ output = rows /\ tarsLeft = {}
      /\ Len(rows) = Len(staged)
  BY <1>1 DEF IInv, TypeOK, StagedOK, WrittenOK
<1>3. PICK v \in Version : staged = Manifests[v]
  BY <1>1 DEF IInv, StagedOK
<1>4. \A i \in 1 .. Len(staged) : Settled(corpus, rows[i], staged[i], sha)
  BY <1>1, <1>2 DEF IInv, StagedOK
<1>5. TypeOK'
  <2>1. <<>> \in Seq(ManifestRow) /\ Len(<<>>) = 0
    OBVIOUS
  <2> QED BY <1>1, <1>2, <2>1 DEF IInv, TypeOK, ProcessEnds, Phase
<1>6. StagedOK' /\ WrittenOK'
  BY <1>1 DEF StagedOK, WrittenOK
<1>7. SummaryOK'
  BY <1>1, <1>2, <1>3, <1>4 DEF SummaryOK
<1> QED BY <1>5, <1>6, <1>7 DEF IInv

LEMMA NextInv == IInv /\ [Next]_vars => IInv'
<1> SUFFICES ASSUME IInv, [Next]_vars PROVE IInv'
  OBVIOUS
<1>1. CASE Begin
  BY <1>1, StartInv DEF Begin
<1>2. CASE RemoveOutput
  BY <1>2, RemoveOutputInv
<1>3. CASE Step
  <2>1. CASE HashInput
    BY <2>1, HashInputInv
  <2>2. CASE Stage
    BY <2>2, StageInv
  <2>3. CASE StageFails \/ (\E t \in Tar : EnrichFails(t)) \/ VerifyFails
    BY <2>3, FailsInv
  <2>4. CASE \E t \in Tar : EnrichTar(t)
    BY <2>4, EnrichTarInv
  <2>5. CASE EnrichEnds
    BY <2>5, EnrichEndsInv
  <2>6. CASE Write
    BY <2>6, WriteInv
  <2>7. CASE WriteFails
    BY <2>7, WriteFailsInv
  <2>8. CASE Verify
    BY <2>8, VerifyInv
  <2>9. CASE Summarise
    BY <2>9, SummariseInv
  <2> QED
    BY <1>3, <2>1, <2>2, <2>3, <2>4, <2>5, <2>6, <2>7, <2>8, <2>9 DEF Step
<1>4. CASE \E v \in Version : ReplaceInput(v)
  BY <1>4, ReplaceInputInv
<1>5. CASE Kill
  BY <1>5, KillInv
<1>6. CASE UNCHANGED vars
  BY <1>6 DEF IInv, TypeOK, StagedOK, WrittenOK, SummaryOK, vars, fileVars, procVars
<1> QED
  BY <1>1, <1>2, <1>3, <1>4, <1>5, <1>6 DEF Next

\* The inductive invariant holds of every reachable state.
THEOREM InvCorrect == Spec => []IInv
<1>1. Init => IInv
  BY InitInv
<1>2. IInv /\ [Next]_vars => IInv'
  BY NextInv
<1> QED
  BY <1>1, <1>2, PTL DEF Spec

\* Rows stay rows through staging, enriching and merging, and what is written
\* to its end is there.
THEOREM TypeCorrect == Spec => []TypeOK
<1>1. IInv => TypeOK
  BY DEF IInv
<1> QED
  BY <1>1, InvCorrect, PTL

\* A settled row is what the summary promises of the row.
LEMMA SettledIsBackfilled ==
  ASSUME corpus \in Corpora, NEW row \in ManifestRow, NEW r \in ManifestRow,
         Settled(corpus, row, r, summary)
  PROVE  Backfilled(row, r)
<1>1. CASE ~Admitted(r)
  BY <1>1 DEF Settled, Backfilled
<1>2. CASE Admitted(r) /\ ~Unhashed(r)
  BY <1>2 DEF Settled, Backfilled
<1>3. CASE Admitted(r) /\ Unhashed(r)
  <2>1. /\ row = [r EXCEPT !.hash = row.hash, !.sha = summary]
        /\ corpus[r.tar] # None
        /\ MembersThere(corpus[r.tar], r)
        /\ row.hash = Digest(corpus[r.tar], r)
    BY <1>3 DEF Settled
  <2>2. corpus[r.tar] \in Seq(TarFile)
    BY <2>1, CorporaAssumption DEF ManifestRow
  <2>3. /\ Len(row.hash) = Len(r.members)
        /\ \A k \in 1 .. Len(r.members) :
             /\ row.hash[k][1] = r.members[k]
             /\ [member |-> row.hash[k][1], data |-> row.hash[k][2]]
                  \in Elements(corpus[r.tar])
    BY <2>1, <2>2, DigestOfPackage
  <2> QED BY <1>3, <2>1, <2>3 DEF Backfilled
<1> QED BY <1>1, <1>2, <1>3

\* A summary vouches for one version of the input, row for row: what was
\* replaced while the tool read it twice cannot be mixed into the output.
THEOREM SummaryCorrect == Spec => []SummaryMeansBackfilled
<1>1. IInv => SummaryMeansBackfilled
  <2> SUFFICES ASSUME IInv, summary # None
               PROVE  /\ complete
                      /\ \E v \in Version :
                           /\ Len(output) = Len(Manifests[v])
                           /\ \A i \in 1 .. Len(output) :
                                Backfilled(output[i], Manifests[v][i])
    BY DEF SummaryMeansBackfilled
  <2>1. corpus \in Corpora /\ complete /\ output \in Seq(ManifestRow)
    BY DEF IInv, TypeOK, SummaryOK
  <2>2. PICK v \in Version :
          /\ Len(output) = Len(Manifests[v])
          /\ \A i \in 1 .. Len(output) :
               Settled(corpus, output[i], Manifests[v][i], summary)
    BY DEF IInv, SummaryOK
  <2>3. Manifests[v] \in Seq(ManifestRow)
    BY VersionFacts
  <2>4. ASSUME NEW i \in 1 .. Len(output)
        PROVE  Backfilled(output[i], Manifests[v][i])
    <3>1. output[i] \in ManifestRow
      BY <2>1
    <3>2. Manifests[v][i] \in ManifestRow
      BY <2>2, <2>3
    <3> QED BY <2>1, <2>2, <3>1, <3>2, SettledIsBackfilled
  <2> QED BY <2>1, <2>2, <2>4
<1> QED
  BY <1>1, InvCorrect, PTL

\* What a summary vouches for was hashed from a tar with exactly the members
\* the manifest lists, each of them one thing.
THEOREM ExactPackagesCorrect == Spec => []OnlyExactPackages
<1>1. IInv => OnlyExactPackages
  <2> SUFFICES ASSUME IInv, summary # None, NEW r \in Hashed
               PROVE  /\ corpus[r.tar] # None
                      /\ \A f, g \in {x \in Elements(corpus[r.tar]) :
                                        x.member[1] = PackageRoot(r)} :
                           /\ f.member \in Elements(r.members)
                           /\ f.member = g.member => f.data = g.data
    BY DEF OnlyExactPackages
  <2>1. corpus \in Corpora /\ output \in Seq(ManifestRow)
    BY DEF IInv, TypeOK, SummaryOK
  <2>2. PICK v \in Version :
          /\ Len(output) = Len(Manifests[v])
          /\ \A i \in 1 .. Len(output) :
               Settled(corpus, output[i], Manifests[v][i], summary)
    BY DEF IInv, SummaryOK
  <2>3. PICK i \in 1 .. Len(output) : r = output[i]
    BY DEF Hashed, Elements
  <2> DEFINE q == Manifests[v][i]
  <2>4. q \in ManifestRow /\ r \in ManifestRow /\ q \in Elements(Manifests[v])
    BY <2>1, <2>2, <2>3, VersionFacts DEF Elements
  <2>5. Settled(corpus, r, q, summary)
    BY <2>2, <2>3
  <2>6. Admitted(r) /\ [r EXCEPT !.sha = 0] # [q EXCEPT !.sha = 0]
    BY <2>4 DEF Hashed
  <2> HIDE DEF q
  <2>7. Admitted(q) /\ r.tar = q.tar /\ r.members = q.members
    BY <2>1, <2>4, <2>5, <2>6, SettledFacts
  <2>8. Unhashed(q)
    <3> SUFFICES ASSUME ~Unhashed(q) PROVE FALSE
      OBVIOUS
    <3>1. r = [q EXCEPT !.hash = r.hash, !.sha = summary] /\ r.hash = q.hash
      BY <2>5, <2>7 DEF Settled
    <3>2. [r EXCEPT !.sha = 0] = [q EXCEPT !.sha = 0]
      BY <2>4, <3>1 DEF ManifestRow
    <3> QED BY <2>6, <3>2
  <2>9. corpus[q.tar] # None /\ MembersThere(corpus[q.tar], q)
    BY <2>5, <2>7, <2>8 DEF Settled
  <2>10. corpus[q.tar] \in Seq(TarFile)
    BY <2>1, <2>4, <2>9, CorporaAssumption DEF ManifestRow
  <2>11. ASSUME NEW f \in Elements(corpus[q.tar]), NEW g \in Elements(corpus[q.tar]),
                f.member[1] = PackageRoot(q)
         PROVE  /\ f.member \in Elements(q.members)
                /\ f.member = g.member => f.data = g.data
    <3>1. f.member \in Elements(q.members)
      BY <2>9, <2>11 DEF MembersThere
    <3>2. Cardinality(Bytes(corpus[q.tar], f.member)) = 1
      BY <2>9, <3>1 DEF MembersThere
    <3>3. \A x, y \in Elements(corpus[q.tar]) :
            x.member = f.member /\ y.member = f.member => x.data = y.data
      BY <2>10, <3>2, BytesFacts
    <3> QED BY <3>1, <3>3
  <2> QED
    BY <2>7, <2>9, <2>11 DEF PackageRoot
<1> QED
  BY <1>1, InvCorrect, PTL
===============================================================================
