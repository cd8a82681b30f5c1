-------------------------- MODULE FsrpcMountProofs --------------------------
(***************************************************************************)
(* Proofs about FsrpcMount, for any tree, names, limits and flags: the two *)
(* inode tables stay inverse, handles distinct, a read-only mount is not   *)
(* written through, the inodes of open files stay, and an inode number     *)
(* keeps naming the same file.                                             *)
(***************************************************************************)
EXTENDS FsrpcMount, SequenceTheorems, TLAPS

LEMMA Bounds ==
  /\ Names \subseteq Nat \ {0} /\ MaxDepth \in Nat /\ MaxIno \in Nat \ {0}
  /\ MaxObj \in Nat /\ LastFH \in Nat \ {0} /\ MaxHandles \in Nat
BY MountAssumption, Zenon

-----------------------------------------------------------------------------
(* Paths.                                                                  *)
LEMMA PathsAre ==
  /\ Root \in Paths
  /\ NoPath \notin Paths
  /\ \A p \in Paths : p \in Seq(Names) /\ Len(p) <= MaxDepth
  /\ \A p \in Seq(Names) : Len(p) <= MaxDepth => p \in Paths
<1>1. \A p \in Seq(Names) : Len(p) <= MaxDepth => p \in Paths
  <2> SUFFICES ASSUME NEW p \in Seq(Names), Len(p) <= MaxDepth PROVE p \in Paths
    BY Zenon
  <2>1. p \in [1 .. Len(p) -> Names] /\ Len(p) \in 0 .. MaxDepth
    BY LenProperties, Bounds
  <2> QED BY <2>1, Zenon DEF Paths
<1>2. ASSUME NEW p \in Paths PROVE p \in Seq(Names) /\ Len(p) <= MaxDepth
  <2>1. PICK k \in 0 .. MaxDepth : p \in [1 .. k -> Names]
    BY Zenon DEF Paths
  <2>2. k \in Nat
    BY Bounds
  <2>3. p \in Seq(Names)
    BY <2>1, <2>2, SeqDef, Zenon
  <2>4. Len(p) = k
    BY <2>1, <2>2, <2>3, LenProperties
  <2> QED BY <2>3, <2>4, Bounds
<1>3. Root \in Paths
  <2>1. Root \in Seq(Names) /\ Len(Root) = 0
    BY EmptySeq, Zenon DEF Root
  <2>2. Len(Root) <= MaxDepth
    BY <2>1, Bounds
  <2> QED BY <1>1, <2>1, <2>2, Zenon
<1>4. NoPath \notin Paths
  <2> SUFFICES ASSUME NoPath \in Paths PROVE FALSE
    BY Zenon
  <2>1. NoPath \in Seq(Names) /\ Len(NoPath) = 1
    BY <1>2, Zenon DEF NoPath
  <2>2. NoPath[1] \in Names
    BY <2>1, ElementOfSeq
  <2> QED BY <2>2, Bounds, Zenon DEF NoPath
<1> QED BY <1>1, <1>2, <1>3, <1>4, Zenon

(* Under and Moved, name by name.                                          *)
Path == Seq(Names)

LEMMA UnderIs ==
  ASSUME NEW p \in Path, NEW q \in Path
  PROVE  Under(p, q) <=> Len(p) <= Len(q) /\ \A i \in 1 .. Len(p) : p[i] = q[i]
<1>1. Len(p) \in Nat /\ Len(q) \in Nat
  BY LenProperties, Zenon DEF Path
<1> SUFFICES ASSUME Len(p) <= Len(q)
             PROVE  SubSeq(q, 1, Len(p)) = p <=> \A i \in 1 .. Len(p) : p[i] = q[i]
  BY Zenon DEF Under
<1> DEFINE r == SubSeq(q, 1, Len(p))
<1>2. \A i \in 1 .. Len(p) : q[i] \in Names
  BY <1>1, ElementOfSeq DEF Path
<1>3. r \in Seq(Names) /\ Len(r) = Len(p) /\ \A i \in 1 .. Len(p) : r[i] = q[i]
  BY <1>1, <1>2, SubSeqProperties
<1> HIDE DEF r
<1>4. r = p <=> \A i \in 1 .. Len(p) : p[i] = q[i]
  BY <1>3, SeqEqual, Zenon DEF Path
<1> QED BY <1>4, Zenon DEF r

LEMMA UnderOrder ==
  ASSUME NEW p \in Path, NEW q \in Path, NEW r \in Path
  PROVE  /\ Under(p, p)
         /\ Under(p, q) /\ Under(q, r) => Under(p, r)
         /\ Under(p, r) /\ Under(q, r) => Under(p, q) \/ Under(q, p)
         /\ Under(p, q) /\ Under(q, p) => p = q
<1>1. Len(p) \in Nat /\ Len(q) \in Nat /\ Len(r) \in Nat
  BY LenProperties, Zenon DEF Path
<1>2. Under(p, p)
  BY <1>1, UnderIs
<1>3. Under(p, q) /\ Under(q, r) => Under(p, r)
  BY <1>1, UnderIs
<1>4. Under(p, r) /\ Under(q, r) => Under(p, q) \/ Under(q, p)
  BY <1>1, UnderIs
<1>5. Under(p, q) /\ Under(q, p) => p = q
  <2>1. Under(p, q) /\ Under(q, p) =>
          Len(p) = Len(q) /\ \A i \in 1 .. Len(p) : p[i] = q[i]
    BY <1>1, UnderIs
  <2> QED BY <2>1, SeqEqual, Zenon DEF Path
<1> QED BY <1>2, <1>3, <1>4, <1>5, Zenon

(* What is above a name in a directory is above the directory.             *)
LEMMA AboveChild ==
  ASSUME NEW d \in Path, NEW x \in Names, NEW p \in Path,
         Under(p, Append(d, x)), p # Append(d, x)
  PROVE  Under(p, d)
<1> DEFINE c == Append(d, x)
<1>1. /\ c \in Path /\ Len(c) = Len(d) + 1
      /\ \A i \in 1 .. Len(d) : c[i] = d[i]
  BY AppendProperties DEF Path
<1> HIDE DEF c
<1>2. Len(p) \in Nat /\ Len(d) \in Nat
  BY LenProperties, Zenon DEF Path
<1>3. Len(p) <= Len(c) /\ \A i \in 1 .. Len(p) : p[i] = c[i]
  BY <1>1, UnderIs, Zenon DEF c
<1>4. Len(p) # Len(c)
  <2>1. Len(p) = Len(c) => p = c
    BY <1>1, <1>3, SeqEqual, Zenon DEF Path
  <2> QED BY <2>1, Zenon DEF c
<1> QED BY <1>1, <1>2, <1>3, <1>4, UnderIs

LEMMA MovedIs ==
  ASSUME NEW old \in Path, NEW new \in Path, NEW p \in Path, Under(old, p)
  PROVE  /\ Moved(old, new, p) \in Path
         /\ Len(Moved(old, new, p)) = Len(new) + Len(p) - Len(old)
         /\ \A i \in 1 .. Len(new) : Moved(old, new, p)[i] = new[i]
         /\ \A i \in 1 .. Len(p) - Len(old) :
              Moved(old, new, p)[Len(new) + i] = p[Len(old) + i]
<1> DEFINE rest == SubSeq(p, Len(old) + 1, Len(p))
<1>1. Len(old) \in Nat /\ Len(new) \in Nat /\ Len(p) \in Nat /\ Len(old) <= Len(p)
  BY LenProperties, Zenon DEF Path, Under
<1>2. \A i \in Len(old) + 1 .. Len(p) : p[i] \in Names
  BY <1>1, ElementOfSeq DEF Path
<1>3. /\ rest \in Seq(Names) /\ Len(rest) = Len(p) - Len(old)
      /\ \A i \in 1 .. Len(p) - Len(old) : rest[i] = p[Len(old) + i]
  <2>1. Len(old) + 1 \in Int /\ Len(p) \in Int
    BY <1>1
  <2>2. /\ rest \in Seq(Names)
        /\ Len(rest) = IF Len(old) + 1 <= Len(p) THEN Len(p) - (Len(old) + 1) + 1 ELSE 0
        /\ \A i \in 1 .. Len(p) - (Len(old) + 1) + 1 : rest[i] = p[Len(old) + 1 + i - 1]
    BY <1>2, <2>1, SubSeqProperties
  <2> HIDE DEF rest
  <2>3. \A i \in 1 .. Len(p) - Len(old) : Len(old) + 1 + i - 1 = Len(old) + i
    BY <1>1
  <2>4. Len(p) - (Len(old) + 1) + 1 = Len(p) - Len(old)
    BY <1>1
  <2>5. Len(rest) = Len(p) - Len(old)
    BY <1>1, <2>2
  <2>6. ASSUME NEW i \in 1 .. Len(p) - Len(old) PROVE rest[i] = p[Len(old) + i]
    BY <2>2, <2>3, <2>4, Zenon
  <2> QED BY <2>2, <2>5, <2>6, Zenon
<1>4. Moved(old, new, p) = new \o rest
  BY Zenon DEF Moved
<1> HIDE DEF rest
<1>5. /\ new \o rest \in Seq(Names) /\ Len(new \o rest) = Len(new) + Len(rest)
      /\ \A i \in 1 .. Len(new) + Len(rest) :
           (new \o rest)[i] = IF i <= Len(new) THEN new[i] ELSE rest[i - Len(new)]
  BY <1>3, ConcatProperties, Zenon DEF Path
<1>6. \A i \in 1 .. Len(new) : (new \o rest)[i] = new[i]
  BY <1>1, <1>3, <1>5
<1>7. \A i \in 1 .. Len(p) - Len(old) : (new \o rest)[Len(new) + i] = rest[i]
  <2> SUFFICES ASSUME NEW i \in 1 .. Len(p) - Len(old)
               PROVE  (new \o rest)[Len(new) + i] = rest[i]
    BY Zenon
  <2>1. Len(new) + i \in 1 .. Len(new) + Len(rest) /\ ~(Len(new) + i <= Len(new))
        /\ Len(new) + i - Len(new) = i
    BY <1>1, <1>3
  <2> QED BY <1>5, <2>1
<1> QED BY <1>1, <1>3, <1>4, <1>5, <1>6, <1>7, Zenon DEF Path

LEMMA MovedPaths ==
  ASSUME NEW old \in Path, NEW new \in Path, NEW p \in Path, Under(old, p)
  PROVE  /\ Under(new, Moved(old, new, p))
         /\ Moved(new, old, Moved(old, new, p)) = p
         /\ \A q \in Path : Under(p, q) =>
              Under(old, q) /\ Under(Moved(old, new, p), Moved(old, new, q))
<1> DEFINE m == Moved(old, new, p)
           b == Moved(new, old, m)
<1>1. /\ Len(old) \in Nat /\ Len(new) \in Nat /\ Len(p) \in Nat
      /\ Len(old) <= Len(p) /\ \A i \in 1 .. Len(old) : old[i] = p[i]
  BY LenProperties, UnderIs, Zenon DEF Path
<1>2. /\ m \in Path /\ Len(m) = Len(new) + Len(p) - Len(old)
      /\ \A i \in 1 .. Len(new) : m[i] = new[i]
      /\ \A i \in 1 .. Len(p) - Len(old) : m[Len(new) + i] = p[Len(old) + i]
  BY MovedIs
<1> HIDE DEF m
<1>3. Under(new, m)
  BY <1>1, <1>2, UnderIs
<1>4. /\ b \in Path /\ Len(b) = Len(old) + Len(m) - Len(new)
      /\ \A i \in 1 .. Len(old) : b[i] = old[i]
      /\ \A i \in 1 .. Len(m) - Len(new) : b[Len(old) + i] = m[Len(new) + i]
  BY <1>2, <1>3, MovedIs, ZenonT(30)
<1> HIDE DEF b
<1>5. b = p
  <2>1. Len(b) = Len(p) /\ Len(m) - Len(new) = Len(p) - Len(old)
    BY <1>1, <1>2, <1>4
  <2>2. ASSUME NEW i \in 1 .. Len(p) PROVE b[i] = p[i]
    <3>1. CASE i <= Len(old)
      BY <1>1, <1>4, <3>1
    <3>2. CASE ~(i <= Len(old))
      <4>1. i - Len(old) \in 1 .. Len(p) - Len(old) /\ Len(old) + (i - Len(old)) = i
        BY <1>1, <3>2
      <4> QED BY <1>2, <1>4, <2>1, <4>1
    <3> QED BY <3>1, <3>2, Zenon
  <2> QED BY <1>4, <2>1, <2>2, SeqEqual, Zenon DEF Path
<1>6. ASSUME NEW q \in Path, Under(p, q)
      PROVE  Under(old, q) /\ Under(m, Moved(old, new, q))
  <2> DEFINE n == Moved(old, new, q)
  <2>1. Under(old, q)
    BY <1>6, UnderOrder, Zenon
  <2>2. Len(q) \in Nat /\ Len(p) <= Len(q) /\ \A i \in 1 .. Len(p) : p[i] = q[i]
    BY <1>6, UnderIs, LenProperties, Zenon DEF Path
  <2>3. /\ n \in Path /\ Len(n) = Len(new) + Len(q) - Len(old)
        /\ \A i \in 1 .. Len(new) : n[i] = new[i]
        /\ \A i \in 1 .. Len(q) - Len(old) : n[Len(new) + i] = q[Len(old) + i]
    <3>1. \A r \in Path : Under(old, r) =>
            /\ Moved(old, new, r) \in Path
            /\ Len(Moved(old, new, r)) = Len(new) + Len(r) - Len(old)
            /\ \A i \in 1 .. Len(new) : Moved(old, new, r)[i] = new[i]
            /\ \A i \in 1 .. Len(r) - Len(old) :
                 Moved(old, new, r)[Len(new) + i] = r[Len(old) + i]
      BY MovedIs, Zenon
    <3> QED BY <2>1, <3>1, Zenon
  <2> HIDE DEF n
  <2>4. Len(m) <= Len(n)
    BY <1>1, <1>2, <2>2, <2>3
  <2>5. ASSUME NEW i \in 1 .. Len(m) PROVE m[i] = n[i]
    <3>1. CASE i <= Len(new)
      BY <1>1, <1>2, <2>3, <3>1
    <3>2. CASE ~(i <= Len(new))
      <4> DEFINE j == i - Len(new)
      <4>1. j \in 1 .. Len(p) - Len(old) /\ Len(new) + j = i
        BY <1>1, <1>2, <3>2
      <4>2. j \in 1 .. Len(q) - Len(old) /\ Len(old) + j \in 1 .. Len(p)
        BY <1>1, <2>2, <4>1
      <4> HIDE DEF j
      <4>3. m[i] = p[Len(old) + j] /\ n[i] = q[Len(old) + j]
        BY <1>2, <2>3, <4>1, <4>2, Zenon
      <4> QED BY <2>2, <4>2, <4>3, Zenon
    <3> QED BY <3>1, <3>2, Zenon
  <2>6. Under(m, n)
    BY <1>2, <2>3, <2>4, <2>5, UnderIs, Zenon
  <2> QED BY <2>1, <2>6, Zenon DEF n
<1> QED BY <1>3, <1>5, <1>6, Zenon DEF m, b

LEMMA MovedRoot ==
  ASSUME NEW old \in Path, NEW new \in Path
  PROVE  Moved(old, new, old) = new
<1>1. Under(old, old) /\ Len(old) \in Nat /\ Len(new) \in Nat
  BY UnderOrder, LenProperties, Zenon DEF Path
<1>2. /\ Moved(old, new, old) \in Path
      /\ Len(Moved(old, new, old)) = Len(new) + Len(old) - Len(old)
      /\ \A i \in 1 .. Len(new) : Moved(old, new, old)[i] = new[i]
  BY <1>1, MovedIs, Zenon
<1>3. Len(new) + Len(old) - Len(old) = Len(new)
  BY <1>1
<1> QED BY <1>2, <1>3, SeqEqual, Zenon DEF Path

-----------------------------------------------------------------------------
(* The inode tables.                                                       *)

Agree(m) ==
  /\ \A p \in Paths : Mapped(m, p) => m.inoToPath[m.pathToIno[p]] = p
  /\ \A i \in Inos : m.inoToPath[i] # NoPath => m.pathToIno[m.inoToPath[i]] = i

\* Numbers not yet given out are in neither table.
Given(m) == \A p \in Paths : m.pathToIno[p] < m.nextIno

RootKept(m) == m.pathToIno[Root] = 1

Sound(m) == m \in Mount /\ Agree(m) /\ Given(m) /\ RootKept(m)

LEMMA Entries ==
  ASSUME NEW m, Sound(m)
  PROVE  /\ m.nextIno \in Int
         /\ \A i \in Inos : m.inoToPath[i] # NoPath =>
              /\ m.inoToPath[i] \in Paths /\ m.pathToIno[m.inoToPath[i]] = i
              /\ Mapped(m, m.inoToPath[i]) /\ i < m.nextIno
<1>1. m.nextIno \in Int
  BY Bounds DEF Sound, Mount
<1>2. ASSUME NEW i \in Inos, m.inoToPath[i] # NoPath
      PROVE  /\ m.inoToPath[i] \in Paths /\ m.pathToIno[m.inoToPath[i]] = i
             /\ i < m.nextIno
  BY <1>2, Zenon DEF Sound, Mount, Agree, Given
<1>3. \A i \in Inos : i # 0
  BY DEF Inos
<1> QED BY <1>1, <1>2, <1>3, Zenon DEF Mapped

LEMMA RecordFields ==
  ASSUME NEW A, NEW B, NEW C, NEW D, NEW E,
         NEW m \in [pathToIno : A, inoToPath : B, nextIno : C, handles : D, nextFH : E],
         NEW f \in A, NEW g \in B, NEW c \in C, NEW d \in D, NEW e \in E
  PROVE  /\ [m EXCEPT !.pathToIno = f, !.inoToPath = g] \in
                [pathToIno : A, inoToPath : B, nextIno : C, handles : D, nextFH : E]
         /\ [m EXCEPT !.nextIno = c] \in
                [pathToIno : A, inoToPath : B, nextIno : C, handles : D, nextFH : E]
         /\ [m EXCEPT !.handles = d] \in
                [pathToIno : A, inoToPath : B, nextIno : C, handles : D, nextFH : E]
         /\ [m EXCEPT !.handles = d, !.nextFH = e] \in
                [pathToIno : A, inoToPath : B, nextIno : C, handles : D, nextFH : E]
BY Zenon

LEMMA MountFields ==
  ASSUME NEW m \in Mount
  PROVE  /\ \A f \in [Paths -> 0 .. MaxIno], g \in [Inos -> Paths \cup {NoPath}] :
              [m EXCEPT !.pathToIno = f, !.inoToPath = g] \in Mount
         /\ \A c \in 1 .. MaxIno + 1 : [m EXCEPT !.nextIno = c] \in Mount
         /\ \A d \in Seq(Handle) : [m EXCEPT !.handles = d] \in Mount
         /\ \A d \in Seq(Handle), e \in FHs :
              [m EXCEPT !.handles = d, !.nextFH = e] \in Mount
BY RecordFields, Zenon DEF Mount

LEMMA UnmapSound ==
  ASSUME NEW m, Sound(m), NEW D \in SUBSET Paths, Root \notin D
  PROVE  /\ Sound(Unmap(m, D))
         /\ \A p \in D : ~Mapped(Unmap(m, D), p)
         /\ \A p \in D : Mapped(m, p) => Unmap(m, D).inoToPath[m.pathToIno[p]] = NoPath
         /\ Unmap(m, D).handles = m.handles /\ Unmap(m, D).nextIno = m.nextIno
         /\ \A i \in Inos : Unmap(m, D).inoToPath[i] =
              IF m.inoToPath[i] \in D THEN NoPath ELSE m.inoToPath[i]
<1> DEFINE n == Unmap(m, D)
<1>1. /\ n.pathToIno = [p \in Paths |-> IF p \in D THEN 0 ELSE m.pathToIno[p]]
      /\ n.inoToPath = [i \in Inos |->
           IF m.inoToPath[i] \in D /\ m.pathToIno[m.inoToPath[i]] = i
           THEN NoPath ELSE m.inoToPath[i]]
      /\ n.nextIno = m.nextIno /\ n.handles = m.handles /\ n.nextFH = m.nextFH
  BY Zenon DEF Unmap, Sound, Mount
<1>2. n \in Mount
  <2>1. n.pathToIno \in [Paths -> 0 .. MaxIno]
    BY <1>1, Bounds DEF Sound, Mount
  <2>2. n.inoToPath \in [Inos -> Paths \cup {NoPath}]
    BY <1>1 DEF Sound, Mount
  <2>3. n = [m EXCEPT !.pathToIno = n.pathToIno, !.inoToPath = n.inoToPath]
    BY <1>1, Zenon DEF Unmap
  <2> HIDE DEF n
  <2>4. [m EXCEPT !.pathToIno = n.pathToIno, !.inoToPath = n.inoToPath] \in Mount
    BY <2>1, <2>2, MountFields, Zenon DEF Sound
  <2> QED BY <2>3, <2>4, Zenon
<1>3. Agree(n)
  <2> HIDE DEF n
  <2>1. ASSUME NEW p \in Paths, Mapped(n, p) PROVE n.inoToPath[n.pathToIno[p]] = p
    <3>1. p \notin D /\ n.pathToIno[p] = m.pathToIno[p] /\ Mapped(m, p)
      BY <1>1, <2>1, Zenon DEF Mapped
    <3>2. m.pathToIno[p] \in Inos
      BY <3>1, Bounds DEF Mapped, Sound, Mount, Inos
    <3> QED BY <1>1, <3>1, <3>2 DEF Sound, Agree
  <2>2. ASSUME NEW i \in Inos, n.inoToPath[i] # NoPath
        PROVE  n.pathToIno[n.inoToPath[i]] = i
    BY <1>1, <2>2 DEF Sound, Mount, Agree
  <2> QED BY <2>1, <2>2, Zenon DEF Agree
<1>4. Given(n) /\ RootKept(n)
  BY <1>1, PathsAre DEF Sound, Mount, Given, RootKept
<1>5. \A p \in D : ~Mapped(n, p)
  BY <1>1, Zenon DEF Mapped
<1>6. ASSUME NEW p \in D, Mapped(m, p) PROVE n.inoToPath[m.pathToIno[p]] = NoPath
  <2>1. m.pathToIno[p] \in Inos /\ m.inoToPath[m.pathToIno[p]] = p
    BY <1>6, Bounds DEF Mapped, Sound, Mount, Inos, Agree
  <2> QED BY <1>1, <2>1
<1>7. ASSUME NEW i \in Inos
      PROVE  n.inoToPath[i] = IF m.inoToPath[i] \in D THEN NoPath ELSE m.inoToPath[i]
  <2>1. m.inoToPath[i] \in D => m.pathToIno[m.inoToPath[i]] = i
    BY PathsAre, Zenon DEF Sound, Agree
  <2> QED BY <1>1, <2>1, Zenon
<1> QED BY <1>1, <1>2, <1>3, <1>4, <1>5, <1>6, <1>7, Zenon DEF Sound

(* Install, for numbers and paths that are in neither table.               *)
Fresh(m, u) ==
  /\ DOMAIN u \subseteq Paths
  /\ u \in [DOMAIN u -> Inos]
  /\ \A p, q \in DOMAIN u : u[p] = u[q] => p = q
  /\ \A p \in DOMAIN u : ~Mapped(m, p) /\ m.inoToPath[u[p]] = NoPath

LEMMA InstallSound ==
  ASSUME NEW m, m \in Mount, Agree(m), RootKept(m), NEW u, Fresh(m, u)
  PROVE  /\ Install(m, u) \in Mount /\ Agree(Install(m, u)) /\ RootKept(Install(m, u))
         /\ Install(m, u).handles = m.handles /\ Install(m, u).nextIno = m.nextIno
         /\ \A p \in Paths : Install(m, u).pathToIno[p] =
              IF p \in DOMAIN u THEN u[p] ELSE m.pathToIno[p]
         /\ \A p \in DOMAIN u : Install(m, u).inoToPath[u[p]] = p
         /\ \A i \in Inos : (\A p \in DOMAIN u : u[p] # i)
              => Install(m, u).inoToPath[i] = m.inoToPath[i]
<1> DEFINE n == Install(m, u)
<1>1. /\ n.pathToIno = [p \in Paths |-> IF p \in DOMAIN u THEN u[p] ELSE m.pathToIno[p]]
      /\ n.inoToPath = [i \in Inos |->
           IF \E p \in DOMAIN u : u[p] = i THEN CHOOSE p \in DOMAIN u : u[p] = i
           ELSE m.inoToPath[i]]
      /\ n.nextIno = m.nextIno /\ n.handles = m.handles
  BY Zenon DEF Install, Mount
<1>2. n = [m EXCEPT !.pathToIno = n.pathToIno, !.inoToPath = n.inoToPath]
  BY <1>1, Zenon DEF Install
<1> HIDE DEF n
<1>3. ASSUME NEW p \in DOMAIN u PROVE n.inoToPath[u[p]] = p /\ n.pathToIno[p] = u[p]
  <2>1. u[p] \in Inos /\ p \in Paths
    BY Zenon DEF Fresh
  <2>2. (CHOOSE q \in DOMAIN u : u[q] = u[p]) = p
    BY Zenon DEF Fresh
  <2> QED BY <1>1, <2>1, <2>2, Zenon
<1>4. ASSUME NEW i \in Inos, ~\E p \in DOMAIN u : u[p] = i
      PROVE  n.inoToPath[i] = m.inoToPath[i]
  BY <1>1, <1>4, Zenon
<1>5. ASSUME NEW p \in Paths, p \notin DOMAIN u PROVE n.pathToIno[p] = m.pathToIno[p]
  BY <1>1, <1>5, Zenon
<1>6. n \in Mount
  <2>1. n.pathToIno \in [Paths -> 0 .. MaxIno]
    <3>1. \A p \in DOMAIN u : u[p] \in 0 .. MaxIno
      BY Bounds DEF Fresh, Inos
    <3>2. \A p \in Paths : m.pathToIno[p] \in 0 .. MaxIno
      BY Zenon DEF Mount
    <3> QED BY <1>1, <3>1, <3>2, Zenon
  <2>2. \A i \in Inos : n.inoToPath[i] \in Paths \cup {NoPath}
    <3> SUFFICES ASSUME NEW i \in Inos PROVE n.inoToPath[i] \in Paths \cup {NoPath}
      BY Zenon
    <3>1. CASE \E p \in DOMAIN u : u[p] = i
      BY <1>3, <3>1 DEF Fresh
    <3>2. CASE ~\E p \in DOMAIN u : u[p] = i
      BY <1>4, <3>2, Zenon DEF Mount
    <3> QED BY <3>1, <3>2, Zenon
  <2>3. n.inoToPath \in [Inos -> Paths \cup {NoPath}]
    BY <1>1, <2>2, Zenon
  <2>4. [m EXCEPT !.pathToIno = n.pathToIno, !.inoToPath = n.inoToPath] \in Mount
    BY <2>1, <2>3, MountFields, Zenon
  <2> QED BY <1>2, <2>4, Zenon
<1>7. Agree(n)
  <2>1. ASSUME NEW p \in Paths, Mapped(n, p), p \notin DOMAIN u
        PROVE  n.inoToPath[n.pathToIno[p]] = p
    <3>1. m.inoToPath[m.pathToIno[p]] = p /\ m.pathToIno[p] \in Inos
      BY <1>5, <2>1, Bounds DEF Mapped, Agree, Mount, Inos
    <3>2. ~\E q \in DOMAIN u : u[q] = m.pathToIno[p]
      BY <3>1, PathsAre, Zenon DEF Fresh
    <3> QED BY <1>4, <1>5, <2>1, <3>1, <3>2, Zenon
  <2>2. ASSUME NEW i \in Inos, n.inoToPath[i] # NoPath, ~\E p \in DOMAIN u : u[p] = i
        PROVE  n.pathToIno[n.inoToPath[i]] = i
    <3>1. n.inoToPath[i] = m.inoToPath[i]
      BY <1>4, <2>2, Zenon
    <3>2. m.inoToPath[i] \in Paths /\ m.pathToIno[m.inoToPath[i]] = i
      BY <2>2, <3>1, Zenon DEF Mount, Agree
    <3>3. m.inoToPath[i] \notin DOMAIN u
      BY <3>2 DEF Fresh, Mapped, Inos
    <3> QED BY <1>5, <3>1, <3>2, <3>3, Zenon
  <2> QED BY <1>3, <2>1, <2>2 DEF Agree
<1>8. RootKept(n)
  BY <1>5, PathsAre DEF RootKept, Fresh, Mapped
<1>9. /\ \A p \in DOMAIN u : n.inoToPath[u[p]] = p
      /\ \A i \in Inos : (\A p \in DOMAIN u : u[p] # i) => n.inoToPath[i] = m.inoToPath[i]
  BY <1>3, <1>4, Zenon
<1> QED BY <1>1, <1>6, <1>7, <1>8, <1>9, Zenon DEF n

(* Numbers given out are those from nextIno on, to paths of S.             *)
LEMMA EnsureSound ==
  ASSUME NEW m, Sound(m), NEW S \in SUBSET Paths, NEW n \in EnsureInodes(m, S)
  PROVE  /\ Sound(n) /\ n.handles = m.handles /\ m.nextIno <= n.nextIno
         /\ \A p \in S : n.pathToIno[p] \in Inos
         /\ \A i \in Inos : i < m.nextIno => n.inoToPath[i] = m.inoToPath[i]
         /\ \A i \in Inos : m.nextIno <= i /\ i < n.nextIno =>
              n.inoToPath[i] \in S /\ ~Mapped(m, n.inoToPath[i])
<1> DEFINE new == {p \in S : ~Mapped(m, p)}
<1> DEFINE Numberings(k) ==
             {f \in [new -> m.nextIno .. m.nextIno + k - 1] :
                /\ \A i \in m.nextIno .. m.nextIno + k - 1 : \E p \in new : f[p] = i
                /\ \A p, q \in new : /\ f[p] = f[q] => p = q
                                     /\ ListedBefore(p, q) => f[p] < f[q]}
           Results(k) == {[Install(m, u) EXCEPT !.nextIno = m.nextIno + k] :
                            u \in Numberings(k)}
           Counts == {k \in 0 .. MaxIno : m.nextIno + k <= MaxIno + 1}
<1>a. EnsureInodes(m, S) = UNION {Results(k) : k \in Counts}
  BY Zenon DEF EnsureInodes
<1>b. PICK k \in Counts : n \in Results(k)
  <2> HIDE DEF Results, Counts
  <2> QED BY <1>a, Zenon
<1>0. /\ k \in 0 .. MaxIno /\ m.nextIno + k <= MaxIno + 1
      /\ \E u \in [new -> m.nextIno .. m.nextIno + k - 1] :
             /\ \A i \in m.nextIno .. m.nextIno + k - 1 : \E p \in new : u[p] = i
             /\ \A p, q \in new : u[p] = u[q] => p = q
             /\ n = [Install(m, u) EXCEPT !.nextIno = m.nextIno + k]
  <2>1. k \in 0 .. MaxIno /\ m.nextIno + k <= MaxIno + 1
    BY <1>b, Zenon
  <2>2. PICK u \in Numberings(k) :
          n = [Install(m, u) EXCEPT !.nextIno = m.nextIno + k]
    BY <1>b, Zenon
  <2> QED BY <2>1, <2>2, Zenon
<1>1. PICK u \in [new -> m.nextIno .. m.nextIno + k - 1] :
        /\ m.nextIno + k <= MaxIno + 1
        /\ \A i \in m.nextIno .. m.nextIno + k - 1 : \E p \in new : u[p] = i
        /\ \A p, q \in new : u[p] = u[q] => p = q
        /\ n = [Install(m, u) EXCEPT !.nextIno = m.nextIno + k]
  BY <1>0, Zenon
<1>2. m.nextIno \in 1 .. MaxIno + 1 /\ MaxIno \in Nat /\ k \in Nat
  BY <1>0, Bounds DEF Sound, Mount
<1>3. \A p \in new : u[p] \in Inos /\ u[p] >= m.nextIno /\ u[p] < m.nextIno + k
  BY <1>1, <1>2 DEF Inos
<1>4. Fresh(m, u)
  <2>1. DOMAIN u = new /\ u \in [new -> Inos]
    BY <1>1, <1>3, Zenon
  <2>2. ASSUME NEW p \in new PROVE m.inoToPath[u[p]] = NoPath
    <3>1. u[p] \in Inos /\ ~(u[p] < m.nextIno)
      BY <1>2, <1>3 DEF Inos
    <3>2. m.inoToPath[u[p]] # NoPath => u[p] < m.nextIno
      BY <3>1, Zenon DEF Sound, Mount, Agree, Given
    <3> QED BY <3>1, <3>2, Zenon
  <2> HIDE DEF Mapped
  <2> QED BY <1>1, <2>1, <2>2, Zenon DEF Fresh
<1> DEFINE w == Install(m, u)
<1>5. /\ w \in Mount /\ Agree(w) /\ RootKept(w) /\ w.handles = m.handles
      /\ \A p \in Paths : w.pathToIno[p] = IF p \in DOMAIN u THEN u[p] ELSE m.pathToIno[p]
      /\ \A p \in DOMAIN u : w.inoToPath[u[p]] = p
      /\ \A i \in Inos : (\A p \in DOMAIN u : u[p] # i) => w.inoToPath[i] = m.inoToPath[i]
  BY <1>4, InstallSound, Zenon DEF Sound
<1> HIDE DEF w
<1>6. n = [w EXCEPT !.nextIno = m.nextIno + k]
  BY <1>1, Zenon DEF w
<1>7. n \in Mount
  <2>1. m.nextIno + k \in 1 .. MaxIno + 1
    BY <1>1, <1>2
  <2> QED BY <1>5, <1>6, <2>1, MountFields, Zenon
<1>8. /\ n.pathToIno = w.pathToIno /\ n.inoToPath = w.inoToPath
      /\ n.handles = w.handles /\ n.nextIno = m.nextIno + k
  BY <1>5, <1>6, Zenon DEF Mount
<1>9. Agree(n) /\ RootKept(n)
  BY <1>5, <1>8 DEF Agree, Mapped, RootKept
<1>10. DOMAIN u = new
  BY <1>1, Zenon
<1>11. ASSUME NEW p \in Paths PROVE n.pathToIno[p] < n.nextIno
  <2>1. CASE p \in new
    BY <1>3, <1>5, <1>8, <1>10, <2>1
  <2>2. CASE p \notin new
    <3>1. n.pathToIno[p] = m.pathToIno[p] /\ m.pathToIno[p] \in Int
      BY <1>5, <1>8, <1>10, <2>2 DEF Sound, Mount
    <3> QED BY <1>2, <1>8, <3>1 DEF Sound, Given
  <2> QED BY <2>1, <2>2, Zenon
<1>12. ASSUME NEW p \in S PROVE n.pathToIno[p] \in Inos
  <2>1. CASE p \in new
    BY <1>3, <1>5, <1>8, <1>10, <2>1, Zenon
  <2>2. CASE p \notin new
    BY <1>5, <1>8, <1>10, <2>2, Bounds DEF Sound, Mount, Mapped, Inos
  <2> QED BY <2>1, <2>2, Zenon
<1>13. ASSUME NEW i \in Inos, i < m.nextIno PROVE n.inoToPath[i] = m.inoToPath[i]
  <2>1. \A p \in new : u[p] # i
    BY <1>2, <1>3, <1>13 DEF Inos
  <2> QED BY <1>5, <1>8, <1>10, <2>1, Zenon
<1>14. ASSUME NEW i \in Inos, m.nextIno <= i, i < n.nextIno
       PROVE  n.inoToPath[i] \in S /\ ~Mapped(m, n.inoToPath[i])
  <2>1. i \in m.nextIno .. m.nextIno + k - 1
    BY <1>2, <1>8, <1>14 DEF Inos
  <2>2. PICK p \in new : u[p] = i
    BY <1>1, <2>1, Zenon
  <2>3. n.inoToPath[i] = p
    BY <1>5, <1>8, <1>10, <2>2, Zenon
  <2> QED BY <2>3, Zenon
<1>15. m.nextIno <= n.nextIno
  BY <1>2, <1>8
<1> QED BY <1>5, <1>7, <1>8, <1>9, <1>11, <1>12, <1>13, <1>14, <1>15, Zenon DEF Sound, Given

LEMMA RemapSound ==
  ASSUME NEW m, Sound(m), NEW old \in Paths \ {Root}, NEW new \in Paths \ {Root},
         \A p \in Paths : Under(old, p) /\ Mapped(m, p) => Moved(old, new, p) \in Paths
  PROVE  LET n == RemapPath(m, old, new)
         IN /\ Sound(n) /\ n.handles = m.handles /\ n.nextIno = m.nextIno
            /\ \A i \in Inos : m.inoToPath[i] # NoPath /\ Under(old, m.inoToPath[i])
                 => n.inoToPath[i] = Moved(old, new, m.inoToPath[i])
            /\ \A i \in Inos : m.inoToPath[i] # NoPath /\ ~Under(old, m.inoToPath[i])
                 => \/ /\ n.inoToPath[i] = m.inoToPath[i]
                       /\ Mapped(m, old) => m.inoToPath[i] # new
                    \/ n.inoToPath[i] = NoPath /\ Under(new, m.inoToPath[i])
            /\ \A i \in Inos : m.inoToPath[i] = NoPath => n.inoToPath[i] = NoPath
<1> DEFINE src == {p \in Paths : Under(old, p) /\ Mapped(m, p)}
           dst == {Moved(old, new, p) : p \in src}
           u == [q \in dst |-> m.pathToIno[CHOOSE p \in src : Moved(old, new, p) = q]]
           w == Unmap(m, dst \cup src)
<1>1. RemapPath(m, old, new) = Install(w, u)
  <2>1. DOMAIN u = dst
    BY Zenon
  <2> QED BY <2>1, Zenon DEF RemapPath
<1>2. Len(old) > 0 /\ Len(new) > 0
  BY PathsAre, EmptySeq DEF Root
<1>0. /\ old \in Path /\ new \in Path /\ \A p \in Paths : p \in Path
      /\ \A p \in Path : Under(old, p) =>
           /\ Under(new, Moved(old, new, p))
           /\ Moved(new, old, Moved(old, new, p)) = p
  <2>1. old \in Path /\ new \in Path /\ \A p \in Paths : p \in Path
    BY PathsAre, Zenon DEF Path
  <2> QED BY <2>1, MovedPaths, Zenon
<1>3. \A p \in src : u[Moved(old, new, p)] = m.pathToIno[p]
  <2> SUFFICES ASSUME NEW p \in src PROVE u[Moved(old, new, p)] = m.pathToIno[p]
    BY Zenon
  <2>1. \A q \in src : Moved(old, new, q) = Moved(old, new, p) => q = p
    BY <1>0, Zenon
  <2>2. (CHOOSE q \in src : Moved(old, new, q) = Moved(old, new, p)) = p
    BY <2>1, Zenon
  <2> QED BY <2>2, Zenon
<1>4. dst \subseteq Paths /\ src \subseteq Paths
  BY Zenon
<1>5. Root \notin dst \cup src
  <2>1. ~Under(old, Root) /\ ~Under(new, Root)
    BY <1>0, <1>2, LenProperties, EmptySeq DEF Under, Root, Path
  <2>2. ASSUME NEW p \in src PROVE Moved(old, new, p) # Root
    BY <1>0, <2>1, Zenon
  <2> QED BY <2>1, <2>2, Zenon
<1>6. /\ Sound(w) /\ w.handles = m.handles /\ w.nextIno = m.nextIno
      /\ \A p \in dst \cup src : ~Mapped(w, p)
      /\ \A p \in dst \cup src : Mapped(m, p) => w.inoToPath[m.pathToIno[p]] = NoPath
      /\ \A i \in Inos : w.inoToPath[i] =
           IF m.inoToPath[i] \in dst \cup src THEN NoPath ELSE m.inoToPath[i]
  <2> DEFINE D == dst \cup src
  <2>1. D \in SUBSET Paths /\ Root \notin D
    BY <1>4, <1>5, Zenon
  <2> HIDE DEF D
  <2> QED BY <2>1, UnmapSound DEF w, D
<1>7. \A p \in src : m.pathToIno[p] \in Inos /\ m.pathToIno[p] < m.nextIno
  BY Bounds DEF Sound, Mount, Mapped, Inos, Given
<1>8. \A p, q \in src : m.pathToIno[p] = m.pathToIno[q] => p = q
  BY Zenon DEF Sound, Agree
<1>9. DOMAIN u = dst /\ \A q \in dst : \E p \in src : q = Moved(old, new, p)
  BY Zenon
<1>10. \A q \in dst : u[q] \in Inos /\ u[q] < m.nextIno /\ w.inoToPath[u[q]] = NoPath
  <2> HIDE DEF u, w, dst
  <2> SUFFICES ASSUME NEW q \in dst
               PROVE  u[q] \in Inos /\ u[q] < m.nextIno /\ w.inoToPath[u[q]] = NoPath
    BY Zenon
  <2>1. PICK p \in src : q = Moved(old, new, p)
    BY <1>9, Zenon
  <2>2. u[q] = m.pathToIno[p]
    BY <1>3, <2>1, Zenon
  <2> QED BY <1>6, <1>7, <2>2, Zenon
<1>11. \A p, q \in dst : u[p] = u[q] => p = q
  <2> HIDE DEF u, w, dst, src
  <2> QED BY <1>3, <1>8, <1>9
<1>12. Fresh(w, u)
  <2>1. u \in [dst -> Inos]
    <3>1. ASSUME NEW q \in dst
          PROVE  m.pathToIno[CHOOSE p \in src : Moved(old, new, p) = q] \in Inos
      <4>1. u[q] \in Inos
        BY <1>10, Zenon
      <4>2. u[q] = m.pathToIno[CHOOSE p \in src : Moved(old, new, p) = q]
        BY Zenon
      <4> QED BY <4>1, <4>2, Zenon
    <3> HIDE DEF dst, src
    <3> QED BY <3>1, Zenon
  <2> HIDE DEF u, w, dst, src
  <2> QED BY <1>4, <1>6, <1>9, <1>10, <1>11, <2>1, Zenon DEF Fresh
<1>20. \A p \in src : p \in Paths /\ Under(old, p) /\ m.inoToPath[m.pathToIno[p]] = p
  BY Zenon DEF Sound, Agree
<1>21. ASSUME NEW i \in Inos, m.inoToPath[i] # NoPath
       PROVE  /\ m.inoToPath[i] \in Paths /\ m.pathToIno[m.inoToPath[i]] = i
              /\ m.inoToPath[i] \in src <=> Under(old, m.inoToPath[i])
  <2>1. /\ m.inoToPath[i] \in Paths /\ m.pathToIno[m.inoToPath[i]] = i
        /\ Mapped(m, m.inoToPath[i])
    BY <1>21, Entries, Zenon
  <2> QED BY <2>1, Zenon
<1>22. Mapped(m, old) => new \in dst
  <2>1. Moved(old, new, old) = new /\ Under(old, old)
    BY <1>0, MovedRoot, UnderOrder, Zenon
  <2> QED BY <2>1, Zenon
<1>23. \A q \in dst : Under(new, q)
  BY <1>0, Zenon
<1> HIDE DEF u, w, dst, src
<1>13. Given(Install(w, u))
  <2>1. \A p \in Paths : w.pathToIno[p] < m.nextIno
    BY <1>6, Zenon DEF Sound, Given
  <2> QED BY <1>6, <1>9, <1>10, <1>12, <2>1, InstallSound DEF Sound, Given
<1> DEFINE n == RemapPath(m, old, new)
<1>14. /\ Sound(n) /\ n.handles = m.handles /\ n.nextIno = m.nextIno
       /\ \A q \in dst : n.inoToPath[u[q]] = q
       /\ \A i \in Inos : (\A q \in dst : u[q] # i) => n.inoToPath[i] = w.inoToPath[i]
  BY <1>1, <1>6, <1>9, <1>12, <1>13, InstallSound DEF Sound
<1> HIDE DEF n
<1>15. ASSUME NEW i \in Inos, m.inoToPath[i] # NoPath, Under(old, m.inoToPath[i])
       PROVE  n.inoToPath[i] = Moved(old, new, m.inoToPath[i])
  <2> DEFINE q == Moved(old, new, m.inoToPath[i])
  <2>1. m.inoToPath[i] \in src /\ m.pathToIno[m.inoToPath[i]] = i
    BY <1>15, <1>21, Zenon
  <2>2. q \in dst /\ u[q] = i
    BY <1>3, <2>1, Zenon DEF dst
  <2> HIDE DEF q
  <2>3. n.inoToPath[i] = q
    BY <1>14, <2>2, Zenon
  <2> QED BY <2>3, Zenon DEF q
<1>16. ASSUME NEW i \in Inos, m.inoToPath[i] \notin src
       PROVE  n.inoToPath[i] = IF m.inoToPath[i] \in dst THEN NoPath ELSE m.inoToPath[i]
  <2>1. ASSUME NEW q \in dst PROVE u[q] # i
    <3>1. PICK p \in src : q = Moved(old, new, p)
      BY <1>9, Zenon
    <3>2. u[q] = m.pathToIno[p] /\ m.inoToPath[u[q]] = p
      BY <1>3, <1>20, <3>1, Zenon
    <3> QED BY <1>16, <3>2, Zenon
  <2>2. n.inoToPath[i] = w.inoToPath[i]
    BY <1>14, <2>1, Zenon
  <2> QED BY <1>6, <1>16, <2>2, Zenon
<1>17. NoPath \notin src \cup dst
  BY <1>4, PathsAre, Zenon
<1>18. ASSUME NEW i \in Inos, m.inoToPath[i] # NoPath, ~Under(old, m.inoToPath[i])
       PROVE  \/ /\ n.inoToPath[i] = m.inoToPath[i]
                 /\ Mapped(m, old) => m.inoToPath[i] # new
              \/ n.inoToPath[i] = NoPath /\ Under(new, m.inoToPath[i])
  BY <1>16, <1>18, <1>20, <1>22, <1>23, Zenon
<1>19. ASSUME NEW i \in Inos, m.inoToPath[i] = NoPath PROVE n.inoToPath[i] = NoPath
  BY <1>16, <1>17, <1>19, Zenon
<1> QED BY <1>14, <1>15, <1>18, <1>19, Zenon DEF n

-----------------------------------------------------------------------------
(* The handle table.                                                       *)
Distinct(s) == \A k, l \in 1 .. Len(s) : s[k].fh = s[l].fh => k = l
Held(s) == {s[k] : k \in 1 .. Len(s)}

LEMMA WithoutHandle ==
  ASSUME NEW s \in Seq(Handle), NEW k \in 1 .. Len(s)
  PROVE  /\ Without(s, k) \in Seq(Handle)
         /\ Len(Without(s, k)) = Len(s) - 1
         /\ \A j \in 1 .. Len(s) - 1 : Without(s, k)[j] = IF j < k THEN s[j] ELSE s[j + 1]
<1>1. Len(s) \in Nat /\ Len(s) - 1 \in Nat
  BY LenProperties
<1>2. \A j \in 1 .. Len(s) - 1 : (IF j < k THEN s[j] ELSE s[j + 1]) \in Handle
  BY <1>1, ElementOfSeq
<1>3. Without(s, k) \in [1 .. Len(s) - 1 -> Handle]
  BY <1>2, Zenon DEF Without
<1>4. Without(s, k) \in Seq(Handle)
  BY <1>1, <1>3, SeqDef, Zenon
<1>5. Len(Without(s, k)) = Len(s) - 1
  BY <1>1, <1>3, <1>4, LenProperties
<1> QED BY <1>1, <1>4, <1>5, Zenon DEF Without

LEMMA WithoutKeeps ==
  ASSUME NEW s \in Seq(Handle), NEW k \in 1 .. Len(s), Distinct(s)
  PROVE  /\ Distinct(Without(s, k))
         /\ Held(Without(s, k)) \subseteq Held(s)
         /\ \A j \in 1 .. Len(s) - 1 : Without(s, k)[j].fh # s[k].fh
<1> DEFINE w == Without(s, k)
           at(j) == IF j < k THEN j ELSE j + 1
<1>1. Len(s) \in Nat /\ Len(w) = Len(s) - 1 /\ k \in Nat
  BY WithoutHandle, LenProperties
<1>2. ASSUME NEW j \in 1 .. Len(s) - 1
      PROVE  at(j) \in 1 .. Len(s) /\ at(j) # k /\ w[j] = s[at(j)]
  <2>1. w[j] = IF j < k THEN s[j] ELSE s[j + 1]
    BY WithoutHandle, Zenon
  <2>2. w[j] = s[at(j)]
    BY <2>1, Zenon
  <2> HIDE DEF w
  <2> QED BY <1>1, <2>2
<1>3. \A i, j \in 1 .. Len(s) - 1 : at(i) = at(j) => i = j
  BY <1>1
<1> HIDE DEF w, at
<1>4. Distinct(w)
  <2> SUFFICES ASSUME NEW i \in 1 .. Len(s) - 1, NEW j \in 1 .. Len(s) - 1, w[i].fh = w[j].fh
               PROVE  i = j
    BY <1>1, Zenon DEF Distinct
  <2>1. at(i) = at(j)
    BY <1>2 DEF Distinct
  <2> QED BY <1>3, <2>1, Zenon
<1>5. Held(w) \subseteq Held(s)
  BY <1>1, <1>2, Zenon DEF Held
<1>6. \A j \in 1 .. Len(s) - 1 : w[j].fh # s[k].fh
  BY <1>2, Zenon DEF Distinct
<1> QED BY <1>4, <1>5, <1>6, Zenon DEF w

LEMMA AppendKeeps ==
  ASSUME NEW s \in Seq(Handle), NEW h \in Handle, Distinct(s),
         \A j \in 1 .. Len(s) : s[j].fh # h.fh
  PROVE  /\ Append(s, h) \in Seq(Handle)
         /\ Distinct(Append(s, h))
         /\ Held(Append(s, h)) \subseteq Held(s) \cup {h}
<1>1. /\ Len(s) \in Nat /\ Len(Append(s, h)) = Len(s) + 1
      /\ \A i \in 1 .. Len(s) : Append(s, h)[i] = s[i]
      /\ Append(s, h)[Len(s) + 1] = h
      /\ Append(s, h) \in Seq(Handle)
  BY LenProperties, AppendProperties
<1>2. \A i \in 1 .. Len(s) + 1 : i \in 1 .. Len(s) \/ i = Len(s) + 1
  BY <1>1
<1>3. Distinct(Append(s, h))
  BY <1>1, <1>2, Zenon DEF Distinct
<1>4. Held(Append(s, h)) \subseteq Held(s) \cup {h}
  BY <1>1, <1>2, Zenon DEF Held
<1> QED BY <1>1, <1>3, <1>4, Zenon

(* What collecting, and using or closing a handle, does to the tables:     *)
(* entries may go, but not those of the inodes of open handles.            *)
Keeps(m, n) ==
  /\ Sound(n) /\ Distinct(n.handles) /\ n.nextIno = m.nextIno
  /\ Held(n.handles) \subseteq Held(m.handles)
  /\ \A i \in Inos : n.inoToPath[i] \in {m.inoToPath[i], NoPath}
  /\ \A h \in Held(n.handles) : n.inoToPath[h.ino] = m.inoToPath[h.ino]

LEMMA SameTables ==
  ASSUME NEW m, Sound(m), NEW n \in Mount, n.pathToIno = m.pathToIno,
         n.inoToPath = m.inoToPath, n.nextIno = m.nextIno
  PROVE  Sound(n)
BY Zenon DEF Sound, Agree, Given, RootKept, Mapped

LEMMA FewerHandles ==
  ASSUME NEW m, Sound(m), NEW s \in Seq(Handle), Distinct(s),
         Held(s) \subseteq Held(m.handles), NEW n, n = [m EXCEPT !.handles = s]
  PROVE  Keeps(m, n) /\ n.inoToPath = m.inoToPath
<1>1. m \in Mount
  BY Zenon DEF Sound
<1>2. n \in Mount
  BY <1>1, MountFields, Zenon
<1>3. /\ n.pathToIno = m.pathToIno /\ n.inoToPath = m.inoToPath
      /\ n.nextIno = m.nextIno /\ n.handles = s
  BY <1>1, Zenon DEF Mount
<1>4. Sound(n)
  BY <1>2, <1>3, SameTables, Zenon
<1> QED BY <1>3, <1>4, Zenon DEF Keeps

LEMMA UseKeeps ==
  ASSUME NEW m, Sound(m), Distinct(m.handles), NEW k \in 1 .. Len(m.handles)
  PROVE  /\ Keeps(m, Touch(m, k)) /\ Touch(m, k).inoToPath = m.inoToPath
         /\ Keeps(m, CloseHandle(m, k)) /\ CloseHandle(m, k).inoToPath = m.inoToPath
<1> DEFINE s == m.handles
<1>1. s \in Seq(Handle) /\ k \in 1 .. Len(s) /\ Distinct(s)
  BY Zenon DEF Sound, Mount
<1>2. s[k] \in Handle
  BY <1>1, ElementOfSeq, Zenon
<1> HIDE DEF s
<1>3. /\ Without(s, k) \in Seq(Handle) /\ Distinct(Without(s, k))
      /\ Held(Without(s, k)) \subseteq Held(s)
      /\ \A j \in 1 .. Len(Without(s, k)) : Without(s, k)[j].fh # s[k].fh
  <2>1. Without(s, k) \in Seq(Handle) /\ Len(Without(s, k)) = Len(s) - 1
    BY <1>1, WithoutHandle, Zenon
  <2> QED BY <1>1, <2>1, WithoutKeeps, Zenon
<1>4. s[k] \in Held(s)
  BY <1>1, Zenon DEF Held
<1>5. /\ Append(Without(s, k), s[k]) \in Seq(Handle)
      /\ Distinct(Append(Without(s, k), s[k]))
      /\ Held(Append(Without(s, k), s[k])) \subseteq Held(s)
  BY <1>2, <1>3, <1>4, AppendKeeps
<1>6. /\ Touch(m, k) = [m EXCEPT !.handles = Append(Without(s, k), s[k])]
      /\ CloseHandle(m, k) = [m EXCEPT !.handles = Without(s, k)]
  BY Zenon DEF Touch, CloseHandle, s
<1>7. Keeps(m, Touch(m, k)) /\ Touch(m, k).inoToPath = m.inoToPath
  BY <1>5, <1>6, FewerHandles, Zenon DEF s
<1>8. Keeps(m, CloseHandle(m, k)) /\ CloseHandle(m, k).inoToPath = m.inoToPath
  BY <1>3, <1>6, FewerHandles DEF s
<1> QED BY <1>7, <1>8, Zenon

LEMMA GCHandlesKeeps ==
  ASSUME NEW m, Sound(m), Distinct(m.handles), NEW k \in 0 .. Len(m.handles)
  PROVE  Keeps(m, GCHandles(m, k))
<1> DEFINE s == m.handles
           gone == Larger(k, Len(m.handles) - MaxHandles)
           t == SubSeq(s, gone + 1, Len(s))
<1>1. s \in Seq(Handle) /\ Len(s) \in Nat
  BY LenProperties, Zenon DEF Sound, Mount
<1>2. gone \in 0 .. Len(s)
  BY <1>1, Bounds DEF Larger
<1>3. GCHandles(m, k) = [m EXCEPT !.handles = t]
  BY Zenon DEF GCHandles
<1> HIDE DEF gone
<1>4. \A i \in gone + 1 .. Len(s) : s[i] \in Handle
  BY <1>1, <1>2, ElementOfSeq
<1>5. /\ t \in Seq(Handle) /\ Len(t) = Len(s) - gone
      /\ \A i \in 1 .. Len(s) - gone : t[i] = s[gone + i]
  BY <1>1, <1>2, <1>4, SubSeqProperties
<1> HIDE DEF s, t
<1>6. Distinct(t) /\ Held(t) \subseteq Held(s)
  <2>1. \A i \in 1 .. Len(s) - gone : gone + i \in 1 .. Len(s)
    BY <1>1, <1>2
  <2>2. \A i, j \in 1 .. Len(s) - gone : gone + i = gone + j => i = j
    BY <1>1, <1>2
  <2>3. Distinct(s)
    BY Zenon DEF s
  <2>4. Distinct(t)
    <3> SUFFICES ASSUME NEW i \in 1 .. Len(s) - gone, NEW j \in 1 .. Len(s) - gone,
                        t[i].fh = t[j].fh
                 PROVE  i = j
      BY <1>5, Zenon DEF Distinct
    <3>1. s[gone + i].fh = s[gone + j].fh
      BY <1>5, Zenon
    <3> QED BY <2>1, <2>2, <2>3, <3>1, Zenon DEF Distinct
  <2>5. Held(t) \subseteq Held(s)
    BY <1>5, <2>1, Zenon DEF Held
  <2> QED BY <2>4, <2>5, Zenon
<1> QED BY <1>3, <1>5, <1>6, FewerHandles, Zenon DEF s

LEMMA GCInodesKeeps ==
  ASSUME NEW m, Sound(m), Distinct(m.handles), NEW n \in GCInodes(m)
  PROVE  Keeps(m, n)
<1>1. Root \notin Collectable(m)
  BY Zenon DEF Collectable, Pinned, Sound, RootKept
<1>2. CASE n = m
  BY <1>2, Zenon DEF Keeps
<1>3. CASE \E D \in SUBSET Collectable(m) : n = Unmap(m, D)
  <2>1. PICK D \in SUBSET Collectable(m) : n = Unmap(m, D)
    BY <1>3, Zenon
  <2>2. D \in SUBSET Paths /\ Root \notin D
    BY <1>1, Zenon DEF Collectable
  <2>3. /\ Sound(n) /\ n.handles = m.handles /\ n.nextIno = m.nextIno
        /\ \A i \in Inos : n.inoToPath[i] =
             IF m.inoToPath[i] \in D THEN NoPath ELSE m.inoToPath[i]
    BY <2>1, <2>2, UnmapSound
  <2>4. ASSUME NEW h \in Held(n.handles) PROVE n.inoToPath[h.ino] = m.inoToPath[h.ino]
    <3>1. PICK k \in 1 .. Len(m.handles) : h = m.handles[k]
      BY <2>3, Zenon DEF Held
    <3>2. h.ino \in Inos /\ h.ino \in Pinned(m)
      <4>1. h \in Handle
        BY <3>1, ElementOfSeq, Zenon DEF Sound, Mount
      <4> QED BY <3>1, <4>1, Zenon DEF Handle, Pinned
    <3>3. m.inoToPath[h.ino] \in Paths => m.pathToIno[m.inoToPath[h.ino]] = h.ino
      BY <3>2, PathsAre, Zenon DEF Sound, Agree
    <3>4. m.inoToPath[h.ino] \notin D
      BY <2>2, <3>2, <3>3, Zenon DEF Collectable
    <3> QED BY <2>3, <3>2, <3>4, Zenon
  <2> QED BY <2>3, <2>4, Zenon DEF Keeps
<1> QED BY <1>2, <1>3, Zenon DEF GCInodes

LEMMA MaybeGCKeeps ==
  ASSUME NEW m, Sound(m), Distinct(m.handles), NEW n \in MaybeGC(m)
  PROVE  Keeps(m, n)
<1>1. CASE n = m
  BY <1>1, Zenon DEF Keeps
<1>2. CASE n # m
  <2>1. PICK k \in 0 .. Len(m.handles) : n \in GCInodes(GCHandles(m, k))
    BY <1>2, Zenon DEF MaybeGC
  <2> DEFINE w == GCHandles(m, k)
  <2>2. Keeps(m, w)
    BY GCHandlesKeeps, Zenon
  <2> HIDE DEF w
  <2>3. Keeps(w, n)
    BY <2>1, <2>2, GCInodesKeeps, Zenon DEF Keeps, w
  <2> QED BY <2>2, <2>3 DEF Keeps
<1> QED BY <1>1, <1>2, Zenon

LEMMA AddKeeps ==
  ASSUME NEW m, Sound(m), Distinct(m.handles), NEW ino \in Inos, NEW obj \in 1 .. MaxObj,
         NEW writable \in BOOLEAN, NEW n \in AddHandle(m, ino, obj, writable)
  PROVE  /\ Sound(n) /\ Distinct(n.handles)
         /\ n.nextIno = m.nextIno /\ n.inoToPath = m.inoToPath
         /\ \A h \in Held(n.handles) :
              \/ h \in Held(m.handles)
              \/ h.ino = ino /\ h.obj = obj /\ h.writable = writable
<1>1. PICK d \in FreshFH(m) :
        n = [m EXCEPT !.handles = Append(m.handles,
                                   [fh |-> After(m.nextFH, d), ino |-> ino,
                                    obj |-> obj, writable |-> writable]),
                      !.nextFH = After(m.nextFH, d + 1)]
  BY Zenon DEF AddHandle
<1>2. m.nextFH \in FHs /\ m.handles \in Seq(Handle)
  BY Zenon DEF Sound, Mount
<1>3. ASSUME NEW e \in Nat PROVE After(m.nextFH, e) \in FHs
  <2>1. m.nextFH - 1 + e \in Nat
    BY <1>2 DEF FHs
  <2>2. (m.nextFH - 1 + e) % LastFH \in 0 .. LastFH - 1
    BY <2>1, Bounds
  <2> QED BY <2>2, Bounds DEF After, FHs
<1>4. d \in Nat /\ d + 1 \in Nat /\ HandlesAt(m, After(m.nextFH, d)) = {}
  BY Bounds DEF FreshFH
<1> DEFINE h == [fh |-> After(m.nextFH, d), ino |-> ino, obj |-> obj, writable |-> writable]
<1>5. h \in Handle
  BY <1>3, <1>4, Zenon DEF Handle
<1>6. h.fh = After(m.nextFH, d) /\ h.ino = ino /\ h.obj = obj /\ h.writable = writable
  BY Zenon
<1> HIDE DEF h
<1>7. \A j \in 1 .. Len(m.handles) : m.handles[j].fh # h.fh
  BY <1>4, <1>6, Zenon DEF HandlesAt
<1>8. /\ Append(m.handles, h) \in Seq(Handle) /\ Distinct(Append(m.handles, h))
      /\ Held(Append(m.handles, h)) \subseteq Held(m.handles) \cup {h}
  BY <1>2, <1>5, <1>6, <1>7, AppendKeeps, Zenon
<1>9. n = [m EXCEPT !.handles = Append(m.handles, h), !.nextFH = After(m.nextFH, d + 1)]
  BY <1>1, Zenon DEF h
<1>10. After(m.nextFH, d + 1) \in FHs
  BY <1>3, <1>4, Zenon
<1>11. /\ Sound(n) /\ n.handles = Append(m.handles, h)
       /\ n.nextIno = m.nextIno /\ n.inoToPath = m.inoToPath
  <2>1. m \in Mount
    BY Zenon DEF Sound
  <2>2. n \in Mount
    BY <1>8, <1>9, <1>10, <2>1, MountFields, Zenon
  <2>3. /\ n.pathToIno = m.pathToIno /\ n.inoToPath = m.inoToPath
        /\ n.nextIno = m.nextIno /\ n.handles = Append(m.handles, h)
    BY <1>9, <2>1, Zenon DEF Mount
  <2>4. Sound(n)
    BY <2>2, <2>3, SameTables, Zenon
  <2> QED BY <2>3, <2>4, Zenon
<1>12. ASSUME NEW g \in Held(n.handles)
       PROVE  \/ g \in Held(m.handles)
              \/ g.ino = ino /\ g.obj = obj /\ g.writable = writable
  <2>1. g \in Held(m.handles) \cup {h}
    BY <1>8, <1>11, Zenon
  <2> QED BY <1>6, <2>1, Zenon
<1> QED BY <1>8, <1>11, <1>12, Zenon

-----------------------------------------------------------------------------
(* The host's tree.                                                        *)
WellFormed(t, n) ==
  /\ t \in [Paths -> Node] /\ n \in 1 .. MaxObj + 1
  /\ t[Root].kind = "dir"
  /\ \A p, q \in Paths : t[q] # Absent =>
       /\ Under(p, q) /\ p # q => t[p].kind = "dir"
       /\ t[p].obj = t[q].obj => p = q
  /\ \A p \in Paths : t[p].obj < n

LEMMA Nodes ==
  /\ Absent \in Node /\ Absent.kind = "none" /\ Absent.obj = 0
  /\ \A x \in Node : x # Absent =>
       x.kind \in {"file", "dir", "symlink"} /\ x.obj \in 1 .. MaxObj
  /\ \A x \in Node : x.obj \in 0 .. MaxObj /\ (x.kind \in {"dir", "file"} => x # Absent)
  /\ \A kind \in {"file", "dir", "symlink"}, o \in 1 .. MaxObj :
       [kind |-> kind, obj |-> o] \in Node
BY Bounds DEF Node, Absent

LEMMA PathIs == \A p \in Paths : p \in Path
BY PathsAre, Zenon DEF Path

(* A new file, below directories.                                          *)
LEMMA MadeNode ==
  ASSUME NEW t, NEW n, WellFormed(t, n), n <= MaxObj, NEW c \in Paths, t[c] = Absent,
         \A q \in Paths : Under(q, c) /\ q # c => t[q].kind = "dir",
         NEW kind \in {"file", "dir", "symlink"},
         NEW s, s = [t EXCEPT ![c] = [kind |-> kind, obj |-> n]]
  PROVE  WellFormed(s, n + 1)
<1> DEFINE x == [kind |-> kind, obj |-> n]
<1>1. n \in 1 .. MaxObj /\ n + 1 \in 1 .. MaxObj + 1 /\ MaxObj \in Nat
  BY Bounds DEF WellFormed
<1>2. x \in Node /\ x.kind = kind /\ x.obj = n /\ x # Absent
  BY <1>1, Nodes, Zenon DEF Absent
<1> HIDE DEF x
<1>3. /\ s \in [Paths -> Node] /\ s[c] = x /\ \A q \in Paths : q # c => s[q] = t[q]
  BY <1>2, Zenon DEF WellFormed, x
<1>4. c # Root
  BY Nodes, Zenon DEF WellFormed
<1>5. \A p \in Paths : t[p].obj \in Int /\ t[p].obj < n
  BY Nodes, <1>1 DEF WellFormed
<1>6. ASSUME NEW p \in Paths, NEW q \in Paths, s[q] # Absent, Under(p, q), p # q
      PROVE  s[p].kind = "dir"
  <2>1. CASE q = c
    BY <1>3, <1>6, <2>1, Zenon
  <2>2. CASE q # c
    <3>1. t[p].kind = "dir"
      BY <1>3, <1>6, <2>2, Zenon DEF WellFormed
    <3>2. p # c
      BY <3>1, Nodes, Zenon
    <3> QED BY <1>3, <3>1, <3>2, Zenon
  <2> QED BY <2>1, <2>2, Zenon
<1>7. ASSUME NEW p \in Paths, NEW q \in Paths, s[q] # Absent, s[p].obj = s[q].obj
      PROVE  p = q
  BY <1>1, <1>2, <1>3, <1>5, <1>7 DEF WellFormed
<1>8. \A p \in Paths : s[p].obj < n + 1
  BY <1>1, <1>2, <1>3, <1>5
<1>9. s[Root].kind = "dir"
  BY <1>3, <1>4, PathsAre, Zenon DEF WellFormed
<1> QED BY <1>1, <1>3, <1>6, <1>7, <1>8, <1>9 DEF WellFormed

(* Files go, with all that is below them.                                  *)
LEMMA RemovedNodes ==
  ASSUME NEW t, NEW n, WellFormed(t, n), NEW D \in SUBSET Paths, Root \notin D,
         \A p \in D, q \in Paths : Under(p, q) /\ t[q] # Absent => q \in D,
         NEW s, s = [q \in Paths |-> IF q \in D THEN Absent ELSE t[q]]
  PROVE  WellFormed(s, n)
<1>1. s \in [Paths -> Node] /\ s[Root].kind = "dir"
  BY Nodes, PathsAre, Zenon DEF WellFormed
<1>2. \A p \in Paths : s[p].obj < n
  <2>1. 0 < n
    BY Bounds DEF WellFormed
  <2> QED BY <2>1, Nodes, Zenon DEF WellFormed
<1>3. ASSUME NEW p \in Paths, NEW q \in Paths, s[q] # Absent
      PROVE  /\ Under(p, q) /\ p # q => s[p].kind = "dir"
             /\ s[p].obj = s[q].obj => p = q
  <2>1. q \notin D /\ s[q] = t[q] /\ t[q] # Absent
    BY <1>3, Zenon
  <2>2. Under(p, q) /\ p # q => s[p].kind = "dir"
    BY <2>1, Zenon DEF WellFormed
  <2>3. s[p].obj = s[q].obj => p = q
    <3>1. t[q].obj # 0
      BY <2>1, Nodes, Bounds DEF WellFormed
    <3> QED BY <2>1, <3>1, Nodes, Zenon DEF WellFormed
  <2> QED BY <2>2, <2>3, Zenon
<1> QED BY <1>1, <1>2, <1>3, Zenon DEF WellFormed

LEMMA DirPath ==
  ASSUME NEW p \in Paths, p # Root
  PROVE  /\ Dir(p) \in Paths /\ Under(Dir(p), p) /\ Dir(p) # p
         /\ \A q \in Paths : Under(q, p) /\ q # p => Under(q, Dir(p))
<1> DEFINE d == Dir(p)
<1>1. p \in Path /\ Len(p) \in Nat \ {0} /\ Len(p) <= MaxDepth /\ Len(p) - 1 \in Nat
  BY PathsAre, EmptySeq, LenProperties DEF Root, Path
<1>2. \A i \in 1 .. Len(p) - 1 : p[i] \in Names
  BY <1>1, ElementOfSeq DEF Path
<1>3. /\ d \in Path /\ Len(d) = Len(p) - 1
      /\ \A i \in 1 .. Len(p) - 1 : d[i] = p[i]
  <2>1. 1 \in Int /\ Len(p) - 1 \in Int
    BY <1>1
  <2>2. /\ d \in Seq(Names)
        /\ Len(d) = IF 1 <= Len(p) - 1 THEN Len(p) - 1 - 1 + 1 ELSE 0
        /\ \A i \in 1 .. Len(p) - 1 - 1 + 1 : d[i] = p[1 + i - 1]
    BY <1>2, <2>1, SubSeqProperties DEF Dir
  <2>3. Len(p) - 1 - 1 + 1 = Len(p) - 1 /\ \A i \in 1 .. Len(p) - 1 : 1 + i - 1 = i
    BY <1>1
  <2>4. \A k \in Nat \ {0} : (IF 1 <= k - 1 THEN k - 1 - 1 + 1 ELSE 0) = k - 1
    OBVIOUS
  <2> HIDE DEF d
  <2> QED BY <1>1, <2>2, <2>3, <2>4, Zenon DEF Path
<1> HIDE DEF d
<1>4. Under(d, p) /\ d # p
  BY <1>1, <1>3, UnderIs
<1>5. d \in Paths
  BY <1>1, <1>3, PathsAre, Bounds DEF Path
<1>6. ASSUME NEW q \in Paths, Under(q, p), q # p PROVE Under(q, d)
  <2>1. q \in Path /\ Len(q) \in Nat
    BY PathIs, LenProperties, Zenon DEF Path
  <2>2. Len(q) <= Len(p) /\ \A i \in 1 .. Len(q) : q[i] = p[i]
    BY <1>1, <1>6, <2>1, UnderIs, Zenon
  <2>3. Len(q) # Len(p)
    BY <1>1, <1>6, <2>1, <2>2, SeqEqual, Zenon DEF Path
  <2> QED BY <1>1, <1>3, <2>1, <2>2, <2>3, UnderIs
<1> QED BY <1>4, <1>5, <1>6, Zenon DEF d

(* What is above a name that a handler resolves are directories.           *)
LEMMA AboveTarget ==
  ASSUME NEW t, NEW n, WellFormed(t, n), NEW dir \in Paths, t[dir].kind = "dir",
         NEW name \in ChildNames, NEW target \in Paths, target = Resolve(dir, name)
  PROVE  \A q \in Paths : Under(q, target) /\ q # target => t[q].kind = "dir"
<1> SUFFICES ASSUME NEW q \in Paths, Under(q, target), q # target
             PROVE  t[q].kind = "dir"
  BY Zenon
<1>1. dir \in Path /\ q \in Path /\ target \in Path
  BY PathIs, Zenon
<1>2. SUFFICES Under(q, dir)
  <2>1. t[dir] # Absent
    BY Nodes, Zenon DEF WellFormed
  <2> QED BY <1>2, <2>1, Zenon DEF WellFormed
<1>3. CASE target = dir
  BY <1>3, Zenon
<1>4. CASE name \in Names /\ target = Append(dir, name)
  BY <1>1, <1>4, AboveChild, Zenon
<1>5. CASE target = Dir(dir) /\ dir # Root
  BY <1>1, <1>5, DirPath, UnderOrder
<1> QED BY <1>3, <1>4, <1>5, MountAssumption, Zenon DEF Resolve

(* A rename takes what is at and below old to new, where there was at most *)
(* a file; everything else stays.                                          *)
LEMMA Renamed ==
  ASSUME WellFormed(tree, nextObj), NEW old \in Paths, NEW new \in Paths,
         IsDir(old) \/ IsFile(old), CanRename(old, new),
         \A q \in Paths : Under(q, new) /\ q # new => IsDir(q),
         \A p \in Paths : Under(old, p) /\ Exists(p) => Moved(old, new, p) \in Paths
  PROVE  LET s == RenamedTree(old, new)
         IN /\ old # Root /\ new # Root
            /\ WellFormed(s, nextObj)
            /\ \A p \in Paths : Under(old, p) /\ Moved(old, new, p) \in Paths
                 => s[Moved(old, new, p)] = tree[p]
            /\ \A q \in Paths : ~Under(old, q) /\ ~Under(new, q) => s[q] = tree[q]
            /\ old # new => s[new] # tree[new]
<1> DEFINE s == RenamedTree(old, new)
           from(q) == Moved(new, old, q)
<1>1. old \in Path /\ new \in Path /\ (\A p \in Paths : p \in Path) /\ Root \in Paths
  BY PathIs, PathsAre, Zenon
<1>2. \A p \in Path : Under(p, Root) => p = Root
  <2> SUFFICES ASSUME NEW p \in Path, Under(p, Root) PROVE p = Root
    BY Zenon
  <2>1. Len(p) = 0
    BY EmptySeq, LenProperties DEF Under, Root, Path
  <2> QED BY <2>1, EmptySeq, Zenon DEF Root, Path
<1>3. tree[old] # Absent /\ ~IsDir(new)
  BY Nodes, Zenon DEF WellFormed, IsDir, IsFile, CanRename
<1>4. old # Root /\ new # Root
  <2>1. IsDir(Root)
    BY Zenon DEF WellFormed, IsDir
  <2>2. Under(Root, new)
    BY <1>1, UnderIs, EmptySeq, LenProperties DEF Root, Path
  <2> QED BY <1>3, <2>1, <2>2, Zenon DEF CanRename
<1>5. ASSUME NEW q \in Paths, Under(new, q)
      PROVE  from(q) \in Path /\ Under(old, from(q)) /\ Moved(old, new, from(q)) = q
  BY <1>1, <1>5, MovedIs, MovedPaths, Zenon
<1>6. ASSUME NEW p \in Paths, Under(old, p)
      PROVE  Under(new, Moved(old, new, p)) /\ from(Moved(old, new, p)) = p
  BY <1>1, <1>6, MovedPaths, Zenon
<1>7. s = [q \in Paths |->
             IF Under(new, q) /\ from(q) \in Paths THEN tree[from(q)]
             ELSE IF Under(new, q) \/ Under(old, q) THEN Absent ELSE tree[q]]
  BY Zenon DEF RenamedTree
<1> HIDE DEF s, from
<1>8. /\ \A q \in Paths : Under(new, q) /\ from(q) \in Paths => s[q] = tree[from(q)]
      /\ \A q \in Paths : Under(new, q) /\ from(q) \notin Paths => s[q] = Absent
      /\ \A q \in Paths : ~Under(new, q) /\ Under(old, q) => s[q] = Absent
      /\ \A q \in Paths : ~Under(new, q) /\ ~Under(old, q) => s[q] = tree[q]
  BY <1>7, Zenon
<1>9. \A p \in Paths : Under(old, p) /\ Moved(old, new, p) \in Paths
        => s[Moved(old, new, p)] = tree[p]
  BY <1>6, <1>8, Zenon
<1>10. s \in [Paths -> Node]
  <2>1. \A q \in Paths : s[q] \in Node
    BY <1>8, Nodes DEF WellFormed
  <2>2. s \in [Paths -> {s[q] : q \in Paths}]
    BY <1>7, Zenon
  <2> QED BY <2>1, <2>2, Zenon
<1>11. \A q \in Paths : s[q] # Absent =>
         \/ Under(new, q) /\ from(q) \in Paths /\ s[q] = tree[from(q)]
         \/ ~Under(new, q) /\ ~Under(old, q) /\ s[q] = tree[q]
  BY <1>8, Zenon
<1>12. s[Root].kind = "dir"
  BY <1>1, <1>2, <1>4, <1>8, Zenon DEF WellFormed
<1>13. \A q \in Paths : s[q].obj < nextObj
  <2>1. 0 < nextObj
    BY Bounds DEF WellFormed
  <2> QED BY <1>11, <2>1, Nodes, Zenon DEF WellFormed
<1>14. ASSUME NEW p \in Paths, NEW q \in Paths, s[q] # Absent, s[p].obj = s[q].obj
       PROVE  p = q
  <2>1. s[p] # Absent
    <3>1. s[q].obj # 0
      BY <1>10, <1>14, Nodes, Bounds
    <3> QED BY <1>14, <3>1, Nodes, Zenon
  <2>2. \A a, b \in Paths : tree[b] # Absent /\ tree[a].obj = tree[b].obj => a = b
    BY Zenon DEF WellFormed
  <2>3. CASE Under(new, p) /\ s[p] = tree[from(p)] /\ from(p) \in Paths
    <3>1. Under(old, from(p)) /\ Moved(old, new, from(p)) = p
      BY <1>5, <2>3, Zenon
    <3>2. CASE Under(new, q) /\ s[q] = tree[from(q)] /\ from(q) \in Paths
      <4>1. from(p) = from(q)
        BY <1>14, <2>2, <2>3, <3>2, Zenon
      <4>2. Moved(old, new, from(q)) = q
        BY <1>5, <3>2, Zenon
      <4> QED BY <3>1, <4>1, <4>2, Zenon
    <3>3. CASE ~Under(new, q) /\ ~Under(old, q) /\ s[q] = tree[q]
      BY <1>14, <2>2, <2>3, <3>1, <3>3, Zenon
    <3> QED BY <1>11, <1>14, <3>2, <3>3, Zenon
  <2>4. CASE ~Under(new, p) /\ ~Under(old, p) /\ s[p] = tree[p]
    <3>2. CASE Under(new, q) /\ s[q] = tree[from(q)] /\ from(q) \in Paths
      BY <1>5, <1>14, <2>2, <2>4, <3>2, Zenon
    <3>3. CASE ~Under(new, q) /\ ~Under(old, q) /\ s[q] = tree[q]
      BY <1>14, <2>2, <2>4, <3>3, Zenon
    <3> QED BY <1>11, <1>14, <3>2, <3>3, Zenon
  <2> QED BY <1>11, <2>1, <2>3, <2>4, Zenon
<1>15. ASSUME NEW p \in Paths, NEW q \in Paths, s[q] # Absent, Under(p, q), p # q
       PROVE  s[p].kind = "dir"
  <2>1. p \in Path /\ q \in Path
    BY <1>1, Zenon
  <2>2. \A a, b \in Paths : tree[b] # Absent /\ Under(a, b) /\ a # b => IsDir(a)
    BY Zenon DEF WellFormed, IsDir
  <2>3. CASE ~Under(new, q) /\ ~Under(old, q) /\ s[q] = tree[q]
    <3>1. ~Under(new, p) /\ ~Under(old, p)
      BY <1>1, <1>15, <2>1, <2>3, UnderOrder, Zenon
    <3> QED BY <1>8, <1>15, <2>2, <2>3, <3>1, Zenon DEF IsDir
  <2>4. CASE Under(new, q) /\ from(q) \in Paths /\ s[q] = tree[from(q)] /\ Under(new, p)
    <3>1. Under(from(p), from(q)) /\ from(p) \in Path
      BY <1>1, <1>15, <2>1, <2>4, MovedPaths, MovedIs, Zenon DEF from
    <3>2. from(p) \in Paths
      <4>1. Len(from(p)) <= Len(from(q)) /\ Len(from(q)) <= MaxDepth
        BY <2>4, <3>1, PathsAre, Zenon DEF Under
      <4>2. Len(from(p)) \in Nat /\ Len(from(q)) \in Nat /\ MaxDepth \in Nat
        BY <1>1, <2>4, <3>1, LenProperties, Bounds, Zenon DEF Path
      <4>3. Len(from(p)) <= MaxDepth
        BY <4>1, <4>2
      <4> QED BY <3>1, <4>3, PathsAre, Zenon DEF Path
    <3>3. from(p) # from(q)
      BY <1>5, <1>15, <2>4, Zenon
    <3>4. IsDir(from(p))
      BY <1>15, <2>2, <2>4, <3>1, <3>2, <3>3, Zenon
    <3> QED BY <1>8, <2>4, <3>2, <3>4, Zenon DEF IsDir
  <2>5. CASE Under(new, q) /\ from(q) \in Paths /\ s[q] = tree[from(q)] /\ ~Under(new, p)
    <3>1. Under(p, new) /\ p # new
      BY <1>1, <1>15, <2>1, <2>5, UnderOrder, Zenon
    <3>2. IsDir(p)
      BY <3>1, Zenon
    <3>3. ~Under(old, p)
      <4> SUFFICES ASSUME Under(old, p) PROVE FALSE
        BY Zenon
      <4>1. Under(old, new)
        BY <1>1, <2>1, <3>1, UnderOrder, Zenon
      <4>2. ~IsDir(old)
        BY <4>1, Zenon DEF CanRename
      <4>3. tree[p] # Absent
        BY <3>2, Nodes, Zenon DEF IsDir, WellFormed
      <4> QED BY <2>2, <3>2, <4>2, <4>3, Zenon
    <3> QED BY <1>8, <2>5, <3>2, <3>3, Zenon DEF IsDir
  <2> QED BY <1>11, <1>15, <2>3, <2>4, <2>5, Zenon
<1>16. old # new => s[new] # tree[new]
  <2>1. Under(old, old) /\ Moved(old, new, old) = new
    BY <1>1, UnderOrder, MovedRoot, Zenon
  <2>2. s[new] = tree[old]
    BY <1>9, <2>1, Zenon
  <2> QED BY <1>3, <2>2, Zenon DEF WellFormed
<1>17. WellFormed(s, nextObj)
  BY <1>10, <1>12, <1>13, <1>14, <1>15 DEF WellFormed
<1> QED BY <1>4, <1>8, <1>9, <1>16, <1>17, Zenon DEF s

-----------------------------------------------------------------------------
(* The invariant.  That the root is a directory is what keeps inode 1: no  *)
(* unlink, rename or collection takes its entry away, whatever names the   *)
(* guest sends.                                                            *)
Inv ==
  /\ mode \in {"ro", "rw"} /\ changed \in BOOLEAN
  /\ WellFormed(tree, nextObj)
  /\ Sound(mount) /\ Distinct(mount.handles)
  /\ mode = "ro" => ~changed /\ \A h \in Held(mount.handles) : ~h.writable

LEMMA InitInv == Init => Inv
<1> SUFFICES ASSUME Init PROVE Inv
  BY Zenon
<1>1. mount = NewMount /\ tree = InitTree /\ changed = FALSE /\ mode \in {"ro", "rw"}
      /\ nextObj \in 1 .. MaxObj + 1 /\ InitObjs = 1 .. nextObj - 1
  BY Zenon DEF Init
<1>2. WellFormed(tree, nextObj)
  <2>1. \A p \in Paths : tree[p].obj < nextObj
    BY <1>1, Nodes, Bounds, MountAssumption DEF InitObjs
  <2> QED BY <1>1, <2>1, MountAssumption, TreeAssumption, Zenon DEF WellFormed
<1>3. /\ mount.pathToIno = [p \in Paths |-> IF p = Root THEN 1 ELSE 0]
      /\ mount.inoToPath = [i \in Inos |-> IF i = 1 THEN Root ELSE NoPath]
      /\ mount.nextIno = 2 /\ mount.handles = <<>> /\ mount.nextFH = 1
  BY <1>1, Zenon DEF NewMount
<1>4. mount \in Mount
  <2>1. mount.pathToIno \in [Paths -> 0 .. MaxIno]
    BY <1>3, Bounds
  <2>2. mount.inoToPath \in [Inos -> Paths \cup {NoPath}]
    BY <1>3, PathsAre, Zenon
  <2>3. mount.nextIno \in 1 .. MaxIno + 1 /\ mount.nextFH \in FHs
    BY <1>3, Bounds DEF FHs
  <2>4. mount.handles \in Seq(Handle)
    BY <1>3, EmptySeq, Zenon
  <2>5. mount = [pathToIno |-> mount.pathToIno, inoToPath |-> mount.inoToPath,
                 nextIno |-> mount.nextIno, handles |-> mount.handles,
                 nextFH |-> mount.nextFH]
    BY <1>1, <1>3, Zenon DEF NewMount
  <2> QED BY <2>1, <2>2, <2>3, <2>4, <2>5, Zenon DEF Mount
<1>5. Agree(mount) /\ Given(mount) /\ RootKept(mount)
  BY <1>3, PathsAre, Bounds DEF Agree, Given, RootKept, Mapped, Inos
<1>6. Distinct(mount.handles) /\ Held(mount.handles) = {}
  BY <1>3 DEF Distinct, Held
<1> QED BY <1>1, <1>2, <1>4, <1>5, <1>6, Zenon DEF Inv, Sound

(* What a handler finds, m being the tables after maybeGC, ...             *)
Ready(m) ==
  /\ mode \in {"ro", "rw"} /\ changed \in BOOLEAN
  /\ WellFormed(tree, nextObj)
  /\ Sound(m) /\ Distinct(m.handles)

MappedExist(m) ==
  \A i \in Inos : m.inoToPath[i] # NoPath => Exists(m.inoToPath[i])

(* ... and what it leaves: only a writable mount's handlers change files   *)
(* or open them for writing; a new handle is on the file its inode names;  *)
(* an entry goes only with a change of its path; and, as long as entries   *)
(* name existing files, an inode that is kept keeps its file.              *)
Served(m) ==
  /\ mode' = mode /\ changed' \in BOOLEAN
  /\ WellFormed(tree', nextObj')
  /\ Sound(mount') /\ Distinct(mount'.handles) /\ m.nextIno <= mount'.nextIno
  /\ mode = "ro" => changed' = changed
  /\ \A h \in Held(mount'.handles) : h \notin Held(m.handles) =>
       /\ h.writable => mode = "rw"
       /\ h.ino \in Inos /\ mount'.inoToPath[h.ino] # NoPath
       /\ h.obj = tree'[mount'.inoToPath[h.ino]].obj
  /\ \A i \in Inos : m.inoToPath[i] # NoPath /\ mount'.inoToPath[i] = NoPath
       => \E q \in Paths : Under(q, m.inoToPath[i]) /\ tree'[q] # tree[q]
  /\ orderly /\ MappedExist(m) =>
       \A i \in Inos : mount'.inoToPath[i] # NoPath =>
         IF i < m.nextIno
         THEN m.inoToPath[i] # NoPath /\ tree'[mount'.inoToPath[i]] = tree[m.inoToPath[i]]
         ELSE tree'[mount'.inoToPath[i]] # Absent

(* The path of an inode, and the name resolved below it.                   *)
LEMMA InodePath ==
  ASSUME NEW m, Sound(m), NEW i \in Inos, NEW dir \in PathsOf(m, i)
  PROVE  /\ dir \in Paths /\ m.inoToPath[i] = dir /\ m.pathToIno[dir] = i
         /\ \A name, target : target \in TargetsOf(m, i, name)
              => target \in Paths /\ target = Resolve(dir, name)
<1>1. m.inoToPath[i] = dir /\ dir # NoPath
  BY Zenon DEF PathsOf
<1>2. dir \in Paths /\ m.pathToIno[dir] = i
  BY <1>1, Entries, Zenon
<1>3. \A name, target : target \in TargetsOf(m, i, name)
        => target \in Paths /\ target = Resolve(dir, name)
  BY <1>1, Zenon DEF TargetsOf, PathsOf
<1> QED BY <1>1, <1>2, <1>3, Zenon

(* Calls that neither open nor change the tree or the inode tables.        *)
LEMMA TouchesHandles ==
  ASSUME NEW m, Ready(m), Sound(mount'), Distinct(mount'.handles),
         mount'.inoToPath = m.inoToPath, mount'.nextIno = m.nextIno,
         Held(mount'.handles) \subseteq Held(m.handles),
         UNCHANGED <<mode, tree, nextObj>>, changed' \in BOOLEAN,
         mode = "ro" => changed' = changed
  PROVE  Served(m)
<1>1. m.nextIno \in Int
  BY Entries, Zenon DEF Ready
<1>2. ASSUME NEW i \in Inos, m.inoToPath[i] # NoPath PROVE i < m.nextIno
  BY <1>2, Entries, Zenon DEF Ready
<1> QED BY <1>1, <1>2, SMTT(30) DEF Served, Ready

(* Calls that give inode numbers to names that exist.                      *)
LEMMA GivesInodes ==
  ASSUME NEW m, Ready(m), NEW S \in SUBSET Paths, \A p \in S : Exists(p),
         mount' \in EnsureInodes(m, S), UNCHANGED <<mode, tree, nextObj, changed>>
  PROVE  Served(m)
<1>1. /\ Sound(mount') /\ mount'.handles = m.handles /\ m.nextIno <= mount'.nextIno
      /\ \A i \in Inos : i < m.nextIno => mount'.inoToPath[i] = m.inoToPath[i]
      /\ \A i \in Inos : m.nextIno <= i /\ i < mount'.nextIno => mount'.inoToPath[i] \in S
  BY EnsureSound, Zenon DEF Ready
<1>2. m.nextIno \in Int /\ mount'.nextIno \in Int
  BY <1>1, Entries, Zenon DEF Ready
<1>3. ASSUME NEW i \in Inos
      PROVE  /\ m.inoToPath[i] # NoPath => i < m.nextIno
             /\ mount'.inoToPath[i] # NoPath => i < mount'.nextIno
  BY <1>1, Entries, Zenon DEF Ready
<1>4. \A i \in Inos : m.inoToPath[i] # NoPath => mount'.inoToPath[i] = m.inoToPath[i]
  BY <1>1, <1>3, Zenon
<1>5. ASSUME NEW i \in Inos, mount'.inoToPath[i] # NoPath
      PROVE  IF i < m.nextIno
             THEN m.inoToPath[i] # NoPath /\ tree'[mount'.inoToPath[i]] = tree[m.inoToPath[i]]
             ELSE tree'[mount'.inoToPath[i]] # Absent
  <2>1. CASE i < m.nextIno
    BY <1>1, <1>5, <2>1, Zenon
  <2>2. CASE ~(i < m.nextIno)
    <3>1. mount'.inoToPath[i] \in S
      BY <1>1, <1>2, <1>3, <1>5, <2>2 DEF Inos
    <3> QED BY <2>2, <3>1, Zenon DEF Exists
  <2> QED BY <2>1, <2>2, Zenon
<1>6. /\ mode' = mode /\ changed' \in BOOLEAN /\ WellFormed(tree', nextObj')
      /\ Distinct(mount'.handles)
  BY <1>1, Zenon DEF Ready
<1> QED BY <1>1, <1>4, <1>5, <1>6, Zenon DEF Served

LEMMA LookupServed ==
  ASSUME NEW m, Ready(m), NEW i \in Inos, NEW name \in ChildNames, Lookup(m, i, name)
  PROVE  Served(m)
<1>1. PICK target \in TargetsOf(m, i, name) :
        (IsDir(target) \/ IsFile(target)) /\ mount' \in EnsureInodes(m, {target})
  BY Zenon DEF Lookup
<1>2. target \in Paths
  BY Zenon DEF TargetsOf
<1>3. Exists(target)
  BY <1>1, <1>2, Nodes, Zenon DEF Ready, WellFormed, Exists, IsDir, IsFile
<1>4. {target} \in SUBSET Paths /\ \A p \in {target} : Exists(p)
  BY <1>2, <1>3, Zenon
<1> QED BY <1>1, <1>4, GivesInodes, Zenon DEF Lookup

LEMMA ReaddirServed ==
  ASSUME NEW m, Ready(m), NEW i \in Inos, Readdir(m, i)
  PROVE  Served(m)
<1> DEFINE S(dir) == {p \in Paths : Exists(p) /\ p # Root /\ Dir(p) = dir}
                       \cup (IF dir = Root THEN {} ELSE {Dir(dir)})
<1>1. PICK dir \in PathsOf(m, i) : IsDir(dir) /\ mount' \in EnsureInodes(m, S(dir))
  BY Zenon DEF Readdir
<1>2. dir \in Paths
  BY InodePath, Zenon DEF Ready
<1>3. dir # Root => Dir(dir) \in Paths /\ Exists(Dir(dir))
  <2>1. tree[dir] # Absent
    BY <1>1, <1>2, Nodes, Zenon DEF Ready, WellFormed, IsDir
  <2>2. dir # Root => Dir(dir) \in Paths /\ tree[Dir(dir)].kind = "dir"
    BY <1>2, <2>1, DirPath, Zenon DEF Ready, WellFormed
  <2> QED BY <2>2, Nodes, Zenon DEF Ready, WellFormed, Exists
<1>4. S(dir) \in SUBSET Paths /\ \A p \in S(dir) : Exists(p)
  BY <1>3, Zenon
<1> HIDE DEF S
<1> QED BY <1>1, <1>4, GivesInodes, Zenon DEF Readdir

LEMMA ReadServed ==
  ASSUME NEW m, Ready(m), NEW fh \in FHs, Read(m, fh) \/ Release(m, fh) \/ Write(m, fh)
  PROVE  Served(m)
<1>1. /\ UNCHANGED <<mode, tree, nextObj>> /\ changed' \in BOOLEAN
      /\ mode = "ro" => changed' = changed
  BY Zenon DEF Read, Release, Write, Ready
<1>2. PICK k \in 1 .. Len(m.handles) : mount' = Touch(m, k) \/ mount' = CloseHandle(m, k)
  BY Zenon DEF Read, Release, Write, HandlesAt
<1>3. Keeps(m, mount') /\ mount'.inoToPath = m.inoToPath
  BY <1>2, UseKeeps, Zenon DEF Ready
<1> QED BY <1>1, <1>3, TouchesHandles, Zenon DEF Keeps

LEMMA CollectServed ==
  ASSUME NEW m, Ready(m), CollectOnly(m) \/ \E i \in Inos : Truncate(m, i)
  PROVE  Served(m)
<1>1. /\ mount' = m /\ UNCHANGED <<mode, tree, nextObj>> /\ changed' \in BOOLEAN
      /\ mode = "ro" => changed' = changed
  BY Zenon DEF CollectOnly, Truncate, Ready
<1> QED BY <1>1, TouchesHandles, Zenon DEF Ready

LEMMA OpenServed ==
  ASSUME NEW m, Ready(m), NEW i \in Inos, NEW flags \in FlagSets, Open(m, i, flags)
  PROVE  Served(m)
<1>1. PICK path \in PathsOf(m, i) :
        /\ IsFile(path)
        /\ mount' \in AddHandle(m, i, tree[path].obj, OpensForWrite(flags))
        /\ changed' = (changed \/ "TRUNC" \in flags)
  BY Zenon DEF Open
<1>2. path \in Paths /\ m.inoToPath[i] = path
  BY InodePath DEF Ready
<1>3. tree[path].obj \in 1 .. MaxObj /\ OpensForWrite(flags) \in BOOLEAN
  BY <1>1, <1>2, Nodes, Zenon DEF Ready, WellFormed, IsFile, OpensForWrite
<1>4. /\ Sound(mount') /\ Distinct(mount'.handles)
      /\ mount'.nextIno = m.nextIno /\ mount'.inoToPath = m.inoToPath
      /\ \A h \in Held(mount'.handles) :
           \/ h \in Held(m.handles)
           \/ h.ino = i /\ h.obj = tree[path].obj /\ h.writable = OpensForWrite(flags)
  BY <1>1, <1>3, AddKeeps DEF Ready
<1>5. UNCHANGED <<mode, tree, nextObj>> /\ changed' \in BOOLEAN
  BY <1>1, Zenon DEF Open, Ready
<1>6. /\ mode = "ro" => changed' = changed
      /\ OpensForWrite(flags) => mode = "rw"
  <2>1. mode = "ro" => "TRUNC" \notin flags /\ ~OpensForWrite(flags)
    BY DEF Open, HasWriteIntent, OpensForWrite
  <2> QED BY <1>1, <2>1, Zenon DEF Ready
<1>7. m.nextIno \in Int
  BY Entries, Zenon DEF Ready
<1>8. ASSUME NEW j \in Inos, m.inoToPath[j] # NoPath PROVE j < m.nextIno
  BY <1>8, Entries, Zenon DEF Ready
<1>9. ASSUME NEW h \in Held(mount'.handles), h \notin Held(m.handles)
      PROVE  /\ h.writable => mode = "rw"
             /\ h.ino \in Inos /\ mount'.inoToPath[h.ino] # NoPath
             /\ h.obj = tree'[mount'.inoToPath[h.ino]].obj
  BY <1>2, <1>4, <1>5, <1>6, <1>9, PathsAre, Zenon
<1> QED BY <1>4, <1>5, <1>6, <1>7, <1>8, <1>9, SMTT(60) DEF Served, Ready

(* Calls that make the name they resolve, or find a file there.            *)
LEMMA MakesTarget ==
  ASSUME NEW m, Ready(m), mode = "rw", mode' = mode, changed' \in BOOLEAN,
         NEW target \in Paths, NEW n \in EnsureInodes(m, {target}),
         WellFormed(tree', nextObj'), tree'[target] # Absent,
         \A q \in Paths : q # target \/ Exists(q) => tree'[q] = tree[q],
         Sound(mount'), Distinct(mount'.handles),
         mount'.inoToPath = n.inoToPath, mount'.nextIno = n.nextIno,
         \A h \in Held(mount'.handles) :
           \/ h \in Held(m.handles)
           \/ h.ino = n.pathToIno[target] /\ h.obj = tree'[target].obj
  PROVE  Served(m)
<1>1. /\ Sound(n) /\ m.nextIno <= n.nextIno /\ n.pathToIno[target] \in Inos
      /\ \A i \in Inos : i < m.nextIno => n.inoToPath[i] = m.inoToPath[i]
      /\ \A i \in Inos : m.nextIno <= i /\ i < n.nextIno => n.inoToPath[i] = target
  <2>1. {target} \in SUBSET Paths
    BY Zenon
  <2> QED BY <2>1, EnsureSound DEF Ready
<1>2. m.nextIno \in Int /\ n.nextIno \in Int
  BY <1>1, Entries, Zenon DEF Ready
<1>3. ASSUME NEW i \in Inos
      PROVE  /\ m.inoToPath[i] # NoPath => i < m.nextIno /\ m.inoToPath[i] \in Paths
             /\ n.inoToPath[i] # NoPath => i < n.nextIno
  BY <1>1, Entries, Zenon DEF Ready
<1>4. n.inoToPath[n.pathToIno[target]] = target /\ target # NoPath
  BY <1>1, PathsAre, SMTT(60) DEF Sound, Agree, Mapped, Inos
<1>5. \A h \in Held(mount'.handles) : h \notin Held(m.handles) =>
        /\ h.writable => mode = "rw"
        /\ h.ino \in Inos /\ mount'.inoToPath[h.ino] # NoPath
        /\ h.obj = tree'[mount'.inoToPath[h.ino]].obj
  BY <1>1, <1>4, Zenon
<1>6. ASSUME NEW i \in Inos, mount'.inoToPath[i] # NoPath, MappedExist(m)
      PROVE  IF i < m.nextIno
             THEN m.inoToPath[i] # NoPath /\ tree'[mount'.inoToPath[i]] = tree[m.inoToPath[i]]
             ELSE tree'[mount'.inoToPath[i]] # Absent
  <2>1. CASE i < m.nextIno
    <3>1. mount'.inoToPath[i] = m.inoToPath[i] /\ m.inoToPath[i] \in Paths
          /\ Exists(m.inoToPath[i]) /\ m.inoToPath[i] # NoPath
      BY <1>1, <1>3, <1>6, <2>1, Zenon DEF MappedExist
    <3> QED BY <2>1, <3>1, Zenon
  <2>2. CASE ~(i < m.nextIno)
    <3>1. mount'.inoToPath[i] = target
      BY <1>1, <1>2, <1>3, <1>6, <2>2, SMTT(60) DEF Inos
    <3> QED BY <2>2, <3>1, Zenon
  <2> QED BY <2>1, <2>2, Zenon
<1>7. \A i \in Inos : m.inoToPath[i] # NoPath => mount'.inoToPath[i] # NoPath
  BY <1>1, <1>3, Zenon
<1> QED BY <1>1, <1>5, <1>6, <1>7, Zenon DEF Served

LEMMA MkdirServed ==
  ASSUME NEW m, Ready(m), NEW i \in Inos, NEW name \in ChildNames, Mkdir(m, i, name)
  PROVE  Served(m)
<1>1. PICK dir \in PathsOf(m, i), target \in TargetsOf(m, i, name) :
        /\ IsDir(dir) /\ ~Exists(target)
        /\ mount' \in EnsureInodes(m, {target})
        /\ tree' = [tree EXCEPT ![target] = [kind |-> "dir", obj |-> nextObj]]
  BY Zenon DEF Mkdir
<1>2. mode = "rw" /\ mode' = mode /\ changed' = TRUE /\ nextObj <= MaxObj
      /\ nextObj' = nextObj + 1
  BY Zenon DEF Mkdir
<1>3. dir \in Paths /\ target \in Paths /\ target = Resolve(dir, name)
  BY InodePath DEF Ready
<1>4. \A q \in Paths : Under(q, target) /\ q # target => tree[q].kind = "dir"
  BY <1>1, <1>3, AboveTarget, Zenon DEF Ready, IsDir
<1>5. WellFormed(tree', nextObj')
  BY <1>1, <1>2, <1>3, <1>4, MadeNode, Zenon DEF Ready, Exists
<1>6. /\ tree'[target] # Absent
      /\ \A q \in Paths : q # target \/ Exists(q) => tree'[q] = tree[q]
  BY <1>1, <1>3, Zenon DEF Ready, WellFormed, Absent, Exists
<1>7. {target} \in SUBSET Paths
  BY <1>3, Zenon
<1>8. Sound(mount') /\ mount'.handles = m.handles
  BY <1>1, <1>7, EnsureSound, Zenon DEF Ready
<1>9. Distinct(mount'.handles)
  BY <1>8, Zenon DEF Ready
<1> QED BY <1>1, <1>2, <1>3, <1>5, <1>6, <1>8, <1>9, MakesTarget, Zenon

LEMMA CreateServed ==
  ASSUME NEW m, Ready(m), NEW i \in Inos, NEW name \in ChildNames, NEW flags \in FlagSets,
         Create(m, i, name, flags)
  PROVE  Served(m)
<1> DEFINE Obj(target) == IF IsFile(target) THEN tree[target].obj ELSE nextObj
<1>1. PICK dir \in PathsOf(m, i), target \in TargetsOf(m, i, name) :
        /\ IsDir(dir)
        /\ IsFile(target) \/ (~Exists(target) /\ nextObj <= MaxObj)
        /\ \E n \in EnsureInodes(m, {target}) :
             mount' \in AddHandle(n, n.pathToIno[target], Obj(target), OpensForWrite(flags))
        /\ tree' = [tree EXCEPT ![target] = [kind |-> "file", obj |-> Obj(target)]]
        /\ nextObj' = IF IsFile(target) THEN nextObj ELSE nextObj + 1
        /\ changed' = (changed \/ ~IsFile(target) \/ "TRUNC" \in flags)
  BY Zenon DEF Create
<1> DEFINE obj == Obj(target)
<1>2. mode = "rw" /\ mode' = mode /\ changed' \in BOOLEAN
  BY <1>1, Zenon DEF Create, Ready
<1>3. dir \in Paths /\ target \in Paths /\ target = Resolve(dir, name)
  BY InodePath DEF Ready
<1>4. \A q \in Paths : Under(q, target) /\ q # target => tree[q].kind = "dir"
  BY <1>1, <1>3, AboveTarget, Zenon DEF Ready, IsDir
<1>5. /\ obj \in 1 .. MaxObj /\ WellFormed(tree', nextObj')
      /\ tree'[target] # Absent /\ tree'[target].obj = obj
      /\ \A q \in Paths : q # target \/ Exists(q) => tree'[q] = tree[q]
  <2>1. CASE IsFile(target)
    <3>1. tree[target] = [kind |-> "file", obj |-> tree[target].obj]
          /\ tree[target].obj \in 1 .. MaxObj /\ tree[target] # Absent
      BY <1>3, <2>1, Nodes DEF Ready, WellFormed, IsFile, Node, Absent
    <3>2. tree' = tree /\ nextObj' = nextObj
      BY <1>1, <1>3, <2>1, <3>1, Zenon DEF Ready, WellFormed
    <3> QED BY <2>1, <3>1, <3>2, Zenon DEF Ready
  <2>2. CASE ~IsFile(target)
    <3>1. /\ tree[target] = Absent /\ nextObj <= MaxObj /\ obj = nextObj
          /\ nextObj' = nextObj + 1
      BY <1>1, <2>2, Zenon DEF Exists
    <3>3. tree' = [tree EXCEPT ![target] = [kind |-> "file", obj |-> nextObj]]
      BY <1>1, <3>1, Zenon
    <3>2. WellFormed(tree', nextObj + 1)
      BY <1>3, <1>4, <3>1, <3>3, MadeNode, Zenon DEF Ready
    <3>4. obj \in 1 .. MaxObj
      BY <3>1, Bounds DEF Ready, WellFormed
    <3>5. /\ tree'[target] # Absent /\ tree'[target].obj = nextObj
          /\ \A q \in Paths : q # target \/ Exists(q) => tree'[q] = tree[q]
      BY <1>3, <3>1, <3>3, Zenon DEF Ready, WellFormed, Absent, Exists
    <3> QED BY <3>1, <3>2, <3>4, <3>5, Zenon
  <2> QED BY <2>1, <2>2, Zenon
<1>6. PICK n \in EnsureInodes(m, {target}) :
        mount' \in AddHandle(n, n.pathToIno[target], obj, OpensForWrite(flags))
  BY <1>1, Zenon
<1> HIDE DEF Obj, obj
<1>7. {target} \in SUBSET Paths
  BY <1>3, Zenon
<1>8. Sound(n) /\ n.handles = m.handles /\ n.pathToIno[target] \in Inos
  BY <1>7, EnsureSound, Zenon DEF Ready
<1>9. OpensForWrite(flags) \in BOOLEAN
  BY Zenon DEF OpensForWrite
<1>10. /\ Sound(mount') /\ Distinct(mount'.handles)
       /\ mount'.nextIno = n.nextIno /\ mount'.inoToPath = n.inoToPath
       /\ \A h \in Held(mount'.handles) :
            \/ h \in Held(n.handles)
            \/ h.ino = n.pathToIno[target] /\ h.obj = obj
  BY <1>5, <1>6, <1>8, <1>9, AddKeeps, SMTT(60) DEF Ready
<1> QED BY <1>2, <1>3, <1>5, <1>8, <1>10, MakesTarget, Zenon

LEMMA MakeThenFailServed ==
  ASSUME NEW m, Ready(m), NEW i \in Inos, NEW name \in ChildNames,
         NEW kind \in {"file", "dir"}, MakeThenFail(m, i, name, kind)
  PROVE  Served(m)
<1>1. PICK dir \in PathsOf(m, i), target \in TargetsOf(m, i, name) :
        /\ IsDir(dir) /\ ~Exists(target)
        /\ tree' = [tree EXCEPT ![target] = [kind |-> kind, obj |-> nextObj]]
  BY Zenon DEF MakeThenFail
<1>2. /\ mode = "rw" /\ mode' = mode /\ changed' = TRUE /\ nextObj <= MaxObj
      /\ nextObj' = nextObj + 1 /\ mount' = m
  BY Zenon DEF MakeThenFail
<1>3. dir \in Paths /\ target \in Paths /\ target = Resolve(dir, name)
  BY InodePath DEF Ready
<1>4. \A q \in Paths : Under(q, target) /\ q # target => tree[q].kind = "dir"
  BY <1>1, <1>3, AboveTarget, Zenon DEF Ready, IsDir
<1>5. WellFormed(tree', nextObj')
  <2>1. kind \in {"file", "dir", "symlink"}
    BY Zenon
  <2> QED BY <1>1, <1>2, <1>3, <1>4, <2>1, MadeNode, Zenon DEF Ready, Exists
<1>6. \A q \in Paths : q # target \/ Exists(q) => tree'[q] = tree[q]
  BY <1>1, <1>3, Zenon DEF Ready, WellFormed
<1>7. ASSUME NEW j \in Inos, m.inoToPath[j] # NoPath
      PROVE  j < m.nextIno /\ m.inoToPath[j] \in Paths
  BY <1>7, Entries, Zenon DEF Ready
<1>8. m.nextIno <= m.nextIno
  <2>1. m.nextIno \in Int
    BY Entries, Zenon DEF Ready
  <2> QED BY <2>1
<1>9. Sound(mount') /\ Distinct(mount'.handles) /\ changed' \in BOOLEAN /\ ~(mode = "ro")
  BY <1>2, Zenon DEF Ready
<1>10. ASSUME MappedExist(m), NEW j \in Inos, mount'.inoToPath[j] # NoPath
       PROVE  /\ j < m.nextIno /\ m.inoToPath[j] # NoPath
              /\ tree'[mount'.inoToPath[j]] = tree[m.inoToPath[j]]
  BY <1>2, <1>6, <1>7, <1>10, Zenon DEF MappedExist
<1> QED BY <1>2, <1>5, <1>8, <1>9, <1>10, Zenon DEF Served

LEMMA UnlinkServed ==
  ASSUME NEW m, Ready(m), NEW i \in Inos, NEW name \in ChildNames, Unlink(m, i, name)
  PROVE  Served(m)
<1>1. PICK target \in TargetsOf(m, i, name) :
        /\ IsFile(target) /\ mount' = Unmap(m, {target})
        /\ tree' = [tree EXCEPT ![target] = Absent]
        /\ changed' = TRUE
  BY Zenon DEF Unlink
<1>2. mode = "rw" /\ mode' = mode /\ nextObj' = nextObj
  BY Zenon DEF Unlink
<1>3. target \in Paths /\ target # Root /\ tree[target] # Absent
  <2>1. target \in Paths
    BY Zenon DEF TargetsOf
  <2> QED BY <1>1, <2>1, Nodes, Zenon DEF Ready, WellFormed, IsFile
<1>4. WellFormed(tree', nextObj')
  <2>1. \A p \in {target}, q \in Paths : Under(p, q) /\ tree[q] # Absent => q \in {target}
    BY <1>1, <1>3, Zenon DEF Ready, WellFormed, IsFile
  <2>2. tree' = [q \in Paths |-> IF q \in {target} THEN Absent ELSE tree[q]]
    BY <1>1, <1>3, Zenon DEF Ready, WellFormed
  <2>3. {target} \in SUBSET Paths /\ Root \notin {target}
    BY <1>3, Zenon
  <2> QED BY <1>2, <2>1, <2>2, <2>3, RemovedNodes, Zenon DEF Ready
<1>5. tree'[target] # tree[target] /\ \A q \in Paths : q # target => tree'[q] = tree[q]
  BY <1>1, <1>3, Zenon DEF Ready, WellFormed
<1>6. /\ Sound(mount') /\ mount'.handles = m.handles /\ mount'.nextIno = m.nextIno
      /\ \A j \in Inos : mount'.inoToPath[j] =
           IF m.inoToPath[j] \in {target} THEN NoPath ELSE m.inoToPath[j]
  <2> DEFINE D == {target}
  <2>1. D \in SUBSET Paths /\ Root \notin D /\ mount' = Unmap(m, D)
    BY <1>1, <1>3, Zenon
  <2> HIDE DEF D
  <2>2. /\ Sound(mount') /\ mount'.handles = m.handles /\ mount'.nextIno = m.nextIno
        /\ \A j \in Inos : mount'.inoToPath[j] =
             IF m.inoToPath[j] \in D THEN NoPath ELSE m.inoToPath[j]
    BY <2>1, UnmapSound DEF Ready
  <2> QED BY <2>2, Zenon DEF D
<1>7. m.nextIno \in Int
  BY Entries, Zenon DEF Ready
<1>8. ASSUME NEW j \in Inos, m.inoToPath[j] # NoPath
      PROVE  j < m.nextIno /\ m.inoToPath[j] \in Paths
  BY <1>8, Entries, Zenon DEF Ready
<1>9. ASSUME NEW j \in Inos, mount'.inoToPath[j] # NoPath
      PROVE  /\ j < m.nextIno /\ m.inoToPath[j] # NoPath
             /\ tree'[mount'.inoToPath[j]] = tree[m.inoToPath[j]]
  BY <1>5, <1>6, <1>8, <1>9, Zenon
<1>10. ASSUME NEW j \in Inos, m.inoToPath[j] # NoPath, mount'.inoToPath[j] = NoPath
       PROVE  \E q \in Paths : Under(q, m.inoToPath[j]) /\ tree'[q] # tree[q]
  <2>1. m.inoToPath[j] = target /\ Under(target, target)
    BY <1>3, <1>6, <1>10, PathIs, UnderOrder, Zenon
  <2> QED BY <1>3, <1>5, <2>1, Zenon
<1>11. Distinct(mount'.handles) /\ changed' \in BOOLEAN /\ ~(mode = "ro")
  BY <1>1, <1>2, <1>6, Zenon DEF Ready
<1>12. m.nextIno <= mount'.nextIno
  BY <1>6, <1>7
<1> QED BY <1>2, <1>4, <1>6, <1>9, <1>10, <1>11, <1>12, Zenon DEF Served

LEMMA RenameServed ==
  ASSUME NEW m, Ready(m), NEW i \in Inos, NEW oldName \in ChildNames,
         NEW j \in Inos, NEW newName \in ChildNames, Rename(m, i, oldName, j, newName)
  PROVE  Served(m)
<1>1. PICK newDir \in PathsOf(m, j), old \in TargetsOf(m, i, oldName),
           new \in TargetsOf(m, j, newName) :
        /\ IsDir(newDir)
        /\ IsDir(old) \/ IsFile(old)
        /\ CanRename(old, new)
        /\ orderly => Mapped(m, old)
        /\ \A p \in Paths : Under(old, p) /\ (Exists(p) \/ Mapped(m, p))
             => Moved(old, new, p) \in Paths
        /\ mount' = RemapPath(m, old, new)
        /\ tree' = RenamedTree(old, new)
        /\ changed' = TRUE
  BY Zenon DEF Rename
<1>2. mode = "rw" /\ mode' = mode /\ nextObj' = nextObj
  BY Zenon DEF Rename
<1>3. /\ old \in Paths /\ new \in Paths
      /\ newDir \in Paths /\ new = Resolve(newDir, newName)
  BY InodePath DEF Ready, TargetsOf
<1>4. \A q \in Paths : Under(q, new) /\ q # new => IsDir(q)
  BY <1>1, <1>3, AboveTarget, SMTT(60) DEF Ready, IsDir
<1>5. /\ old # Root /\ new # Root
      /\ WellFormed(tree', nextObj')
      /\ \A p \in Paths : Under(old, p) /\ Moved(old, new, p) \in Paths
           => tree'[Moved(old, new, p)] = tree[p]
      /\ \A q \in Paths : ~Under(old, q) /\ ~Under(new, q) => tree'[q] = tree[q]
      /\ old # new => tree'[new] # tree[new]
  <2>1. \A p \in Paths : Under(old, p) /\ Exists(p) => Moved(old, new, p) \in Paths
    BY <1>1, Zenon
  <2>2. WellFormed(tree, nextObj)
    BY Zenon DEF Ready
  <2> QED BY <1>1, <1>2, <1>3, <1>4, <2>1, <2>2, Renamed
<1>6. /\ Sound(mount') /\ mount'.handles = m.handles /\ mount'.nextIno = m.nextIno
      /\ \A k \in Inos : m.inoToPath[k] # NoPath /\ Under(old, m.inoToPath[k])
           => mount'.inoToPath[k] = Moved(old, new, m.inoToPath[k])
      /\ \A k \in Inos : m.inoToPath[k] # NoPath /\ ~Under(old, m.inoToPath[k])
           => \/ /\ mount'.inoToPath[k] = m.inoToPath[k]
                 /\ Mapped(m, old) => m.inoToPath[k] # new
              \/ mount'.inoToPath[k] = NoPath /\ Under(new, m.inoToPath[k])
      /\ \A k \in Inos : m.inoToPath[k] = NoPath => mount'.inoToPath[k] = NoPath
  <2>1. old \in Paths \ {Root} /\ new \in Paths \ {Root}
    BY <1>3, <1>5, Zenon
  <2>2. \A p \in Paths : Under(old, p) /\ Mapped(m, p) => Moved(old, new, p) \in Paths
    BY <1>1, Zenon
  <2> QED BY <1>1, <2>1, <2>2, RemapSound DEF Ready
<1>7. m.nextIno \in Int
  BY Entries, Zenon DEF Ready
<1>8. ASSUME NEW k \in Inos, m.inoToPath[k] # NoPath
      PROVE  /\ k < m.nextIno /\ m.inoToPath[k] \in Paths
             /\ Under(old, m.inoToPath[k]) => Moved(old, new, m.inoToPath[k]) \in Paths
  <2>1. m.inoToPath[k] \in Paths /\ Mapped(m, m.inoToPath[k]) /\ k < m.nextIno
    BY <1>8, Entries, Zenon DEF Ready
  <2> QED BY <1>1, <2>1, Zenon
<1>9. ASSUME NEW k \in Inos, m.inoToPath[k] # NoPath, mount'.inoToPath[k] = NoPath
      PROVE  \E q \in Paths : Under(q, m.inoToPath[k]) /\ tree'[q] # tree[q]
  <2>1. ~Under(old, m.inoToPath[k])
    BY <1>6, <1>8, <1>9, PathsAre, Zenon
  <2>2. Under(new, m.inoToPath[k])
    BY <1>6, <1>9, <2>1, Zenon
  <2> QED BY <1>3, <1>5, <2>1, <2>2, Zenon
<1>10. ASSUME orderly, MappedExist(m), NEW k \in Inos, mount'.inoToPath[k] # NoPath
       PROVE  /\ k < m.nextIno /\ m.inoToPath[k] # NoPath
              /\ tree'[mount'.inoToPath[k]] = tree[m.inoToPath[k]]
  <2>1. m.inoToPath[k] # NoPath
    BY <1>6, <1>10, Zenon
  <2>2. CASE Under(old, m.inoToPath[k])
    BY <1>5, <1>6, <1>8, <2>1, <2>2, Zenon
  <2>3. CASE ~Under(old, m.inoToPath[k])
    <3>1. mount'.inoToPath[k] = m.inoToPath[k] /\ m.inoToPath[k] # new
      BY <1>1, <1>6, <1>10, <2>1, <2>3
    <3>2. tree[m.inoToPath[k]] # Absent /\ m.inoToPath[k] \in Paths
      BY <1>8, <1>10, <2>1, Zenon DEF MappedExist, Exists
    <3>3. ~Under(new, m.inoToPath[k])
      BY <1>1, <1>3, <3>1, <3>2 DEF Ready, WellFormed, CanRename, IsDir
    <3> QED BY <1>5, <1>8, <2>1, <2>3, <3>1, <3>2, <3>3, Zenon
  <2> QED BY <2>2, <2>3, Zenon
<1>11. Distinct(mount'.handles) /\ changed' \in BOOLEAN /\ ~(mode = "ro")
  BY <1>1, <1>2, <1>6, Zenon DEF Ready
<1>12. m.nextIno <= mount'.nextIno
  BY <1>6, <1>7, SMTT(60)
<1> QED BY <1>2, <1>5, <1>6, <1>9, <1>10, <1>11, <1>12, Zenon DEF Served

-----------------------------------------------------------------------------
(* The steps.                                                              *)
LEMMA HandlerServed ==
  ASSUME NEW m, Ready(m), Handler(m)
  PROVE  Served(m)
<1>1. CASE CollectOnly(m)
  BY <1>1, CollectServed, Zenon
<1>2. CASE \E i \in Inos : Readdir(m, i)
  BY <1>2, ReaddirServed, Zenon
<1>3. CASE \E i \in Inos : Truncate(m, i)
  BY <1>3, CollectServed, Zenon
<1>4. CASE \E i \in Inos, flags \in FlagSets : Open(m, i, flags)
  BY <1>4, OpenServed, Zenon
<1>5. CASE \E i \in Inos, name \in ChildNames : Lookup(m, i, name)
  BY <1>5, LookupServed
<1>6. CASE \E i \in Inos, name \in ChildNames : Mkdir(m, i, name)
  BY <1>6, MkdirServed, Zenon
<1>7. CASE \E i \in Inos, name \in ChildNames : Unlink(m, i, name)
  BY <1>7, UnlinkServed, Zenon
<1>8. CASE \E i \in Inos, name \in ChildNames, flags \in FlagSets :
             Create(m, i, name, flags)
  BY <1>8, CreateServed, Zenon
<1>9. CASE \E i \in Inos, name \in ChildNames, j \in Inos, newName \in ChildNames :
             Rename(m, i, name, j, newName)
  BY <1>9, RenameServed, Zenon
<1>10. CASE \E fh \in FHs : Read(m, fh) \/ Write(m, fh) \/ Release(m, fh)
  BY <1>10, ReadServed, Zenon
<1>11. CASE \E i \in Inos, name \in ChildNames, kind \in {"file", "dir"} :
              MakeThenFail(m, i, name, kind)
  BY <1>11, MakeThenFailServed, Zenon
<1> QED BY <1>1, <1>2, <1>3, <1>4, <1>5, <1>6, <1>7, <1>8, <1>9, <1>10, <1>11, Zenon
        DEF Handler

LEMMA GuestServed ==
  ASSUME Inv, GuestCall
  PROVE  \E m : Keeps(mount, m) /\ Ready(m) /\ Served(m)
<1>1. CASE \E m \in MaybeGC(mount) : Handler(m)
  <2>1. PICK m \in MaybeGC(mount) : Handler(m)
    BY <1>1, Zenon
  <2>2. Keeps(mount, m)
    BY MaybeGCKeeps, Zenon DEF Inv
  <2>3. Ready(m)
    BY <2>2, Zenon DEF Inv, Ready, Keeps
  <2> QED BY <2>1, <2>2, <2>3, HandlerServed, Zenon
<1>2. CASE CloseMount
  <2>1. mount' = [mount EXCEPT !.handles = <<>>] /\ <<>> \in Seq(Handle)
    BY <1>2, EmptySeq, Zenon DEF CloseMount
  <2>2. Distinct(<<>>) /\ Held(<<>>) = {}
    BY DEF Distinct, Held
  <2>3. Keeps(mount, mount') /\ mount'.inoToPath = mount.inoToPath
    BY <2>1, <2>2, FewerHandles, Zenon DEF Inv
  <2>4. Ready(mount) /\ Keeps(mount, mount)
    BY Zenon DEF Inv, Ready, Keeps
  <2>5. /\ UNCHANGED <<mode, tree, nextObj>> /\ changed' \in BOOLEAN
        /\ mode = "ro" => changed' = changed
    BY <1>2, Zenon DEF CloseMount, Inv
  <2>6. Served(mount)
    BY <2>3, <2>4, <2>5, TouchesHandles, Zenon DEF Keeps
  <2> QED BY <2>4, <2>6, Zenon
<1> QED BY <1>1, <1>2, Zenon DEF GuestCall

LEMMA HostInv ==
  ASSUME Inv, HostStep
  PROVE  Inv' /\ mount' = mount
<1>1. mount' = mount /\ mode' = mode /\ changed' = changed
  BY Zenon DEF HostStep, HostMakes, HostRemoves
<1>2. WellFormed(tree', nextObj')
  <2>1. PICK p \in Paths \ {Root} :
          (\E kind \in {"file", "dir", "symlink"} : HostMakes(p, kind)) \/ HostRemoves(p)
    BY Zenon DEF HostStep
  <2>2. ASSUME NEW kind \in {"file", "dir", "symlink"}, HostMakes(p, kind)
        PROVE  WellFormed(tree', nextObj')
    <3>1. \A q \in Paths : Under(q, p) /\ q # p => tree[q].kind = "dir"
      <4> SUFFICES ASSUME NEW q \in Paths, Under(q, p), q # p PROVE tree[q].kind = "dir"
        BY Zenon
      <4>1. Under(q, Dir(p)) /\ Dir(p) \in Paths
        BY DirPath, Zenon
      <4>2. tree[Dir(p)].kind = "dir" /\ tree[Dir(p)] # Absent
        BY <2>2, <4>1, Nodes, Zenon DEF HostMakes, IsDir, Inv, WellFormed
      <4> QED BY <4>1, <4>2, Zenon DEF Inv, WellFormed
    <3> QED BY <2>2, <3>1, MadeNode, Zenon DEF HostMakes, Exists, Inv
  <2>3. ASSUME HostRemoves(p) PROVE WellFormed(tree', nextObj')
    <3> DEFINE D == {q \in Paths : Under(p, q)}
    <3>1. p \in Path /\ \A q \in Paths : q \in Path
      BY PathIs, Zenon
    <3>2. D \in SUBSET Paths /\ Root \notin D
      <4>1. Len(p) > 0
        BY PathsAre, EmptySeq DEF Root
      <4> QED BY <3>1, <4>1, EmptySeq, LenProperties DEF Under, Root, Path
    <3>3. \A q \in D, r \in Paths : Under(q, r) /\ tree[r] # Absent => r \in D
      BY <3>1, UnderOrder, Zenon
    <3>4. tree' = [q \in Paths |-> IF q \in D THEN Absent ELSE tree[q]]
          /\ nextObj' = nextObj
      BY <2>3, Zenon DEF HostRemoves
    <3> HIDE DEF D
    <3> QED BY <3>2, <3>3, <3>4, RemovedNodes, Zenon DEF Inv
  <2> QED BY <2>1, <2>2, <2>3, Zenon
<1> QED BY <1>1, <1>2, Zenon DEF Inv

LEMMA InvStep == Inv /\ [Next]_vars => Inv'
<1> SUFFICES ASSUME Inv, [Next]_vars PROVE Inv'
  BY Zenon
<1>1. CASE GuestCall
  <2>1. PICK m : Keeps(mount, m) /\ Ready(m) /\ Served(m)
    BY <1>1, GuestServed, Zenon
  <2> QED BY <2>1, Zenon DEF Inv, Keeps, Served
<1>2. CASE HostStep
  BY <1>2, HostInv, Zenon
<1>3. CASE UNCHANGED vars
  BY <1>3, Zenon DEF vars, Inv
<1> QED BY <1>1, <1>2, <1>3, Zenon DEF Next

(* From any tree and for all limits the tables stay inverse and the root   *)
(* keeps inode 1, also when other programs change the host's tree.         *)
THEOREM TablesTheorem == Spec => []TablesInverse
<1>1. Inv => TablesInverse
  BY PathsAre, Bounds DEF Inv, Sound, Agree, RootKept, TablesInverse, Mapped
<1> QED BY <1>1, InitInv, InvStep, PTL DEF Spec

(* Open handles have different numbers, for any range of handle numbers.   *)
THEOREM HandlesTheorem == Spec => []HandlesDistinct
<1>1. Inv => HandlesDistinct
  BY Zenon DEF Inv, Distinct, HandlesDistinct
<1> QED BY <1>1, InitInv, InvStep, PTL DEF Spec

(* Through a read-only mount nothing is written, whatever flags and names  *)
(* the guest uses.                                                         *)
THEOREM ReadOnlyTheorem == Spec => []ReadOnlyMount
<1>1. Inv => ReadOnlyMount
  BY Zenon DEF Inv, Held, ReadOnlyMount
<1> QED BY <1>1, InitInv, InvStep, PTL DEF Spec

(* The inode of an open handle is never collected, for any limits: its     *)
(* mapping goes only with a change of its path.                            *)
THEOREM OpenInodesTheorem == Spec => OpenInodesKept
<1> DEFINE Kept == \A k \in 1 .. Len(mount'.handles) :
             LET p == mount.inoToPath[mount'.handles[k].ino]
             IN p # NoPath /\ mount'.inoToPath[mount'.handles[k].ino] = NoPath
                  => \E q \in Paths : Under(q, p) /\ tree'[q] # tree[q]
<1>1. ASSUME Inv, [Next]_vars PROVE [Kept]_vars
  <2> SUFFICES ASSUME Next PROVE Kept
    BY <1>1, Zenon
  <2>1. CASE HostStep
    BY <1>1, <2>1, HostInv, Zenon
  <2>2. CASE GuestCall
    <3>1. PICK m : Keeps(mount, m) /\ Ready(m) /\ Served(m)
      BY <1>1, <2>2, GuestServed, Zenon
    <3> SUFFICES ASSUME NEW k \in 1 .. Len(mount'.handles), NEW h, h = mount'.handles[k],
                        mount.inoToPath[h.ino] # NoPath, mount'.inoToPath[h.ino] = NoPath
                 PROVE  \E q \in Paths :
                          Under(q, mount.inoToPath[h.ino]) /\ tree'[q] # tree[q]
      BY Zenon
    <3>2. h \in Held(mount'.handles) /\ h.ino \in Inos
      <4>1. h \in Handle
        BY <3>1, ElementOfSeq, Zenon DEF Served, Sound, Mount
      <4> QED BY <4>1, Zenon DEF Held, Handle
    <3>3. h \in Held(m.handles)
      BY <3>1, <3>2, Zenon DEF Served
    <3>4. m.inoToPath[h.ino] = mount.inoToPath[h.ino]
      BY <3>1, <3>3, Zenon DEF Keeps
    <3> QED BY <3>1, <3>2, <3>4, Zenon DEF Served
  <2> QED BY <2>1, <2>2, Zenon DEF Next
<1> QED BY <1>1, InitInv, InvStep, PTL DEF Spec, OpenInodesKept

-----------------------------------------------------------------------------
(* What inode numbers name.  An entry's file exists, so that a name that   *)
(* is made has no number yet and a file that is replaced takes its number  *)
(* with it.                                                                *)
Identity ==
  /\ InodeIdentity /\ MappedExist(mount)
  /\ \A h \in Held(mount.handles) : h.ino < mount.nextIno

LEMMA InitIdentity == Init => Identity
<1> SUFFICES ASSUME Init PROVE Identity
  BY Zenon
<1>1. /\ mount.inoToPath = [i \in Inos |-> IF i = 1 THEN Root ELSE NoPath]
      /\ mount.handles = <<>> /\ tree = InitTree
      /\ objOf = [i \in Inos |-> IF i = 1 THEN InitTree[Root].obj ELSE 0]
  BY Zenon DEF Init, NewMount
<1>2. InitTree[Root] # Absent
  BY Nodes, PathsAre, MountAssumption, Zenon
<1> QED BY <1>1, <1>2 DEF Identity, InodeIdentity, MappedExist, Exists, Held

LEMMA IdentityStep ==
  ASSUME orderly, Inv, Identity, [Next]_vars
  PROVE  Identity' /\ orderly'
<1>0. orderly' = orderly
  BY Zenon DEF Next, vars
<1>1. CASE GuestCall /\ RecordInodes
  <2>1. PICK m : Keeps(mount, m) /\ Ready(m) /\ Served(m)
    BY <1>1, GuestServed, Zenon
  <2>2. m.nextIno = mount.nextIno /\ m.nextIno \in Int /\ mount'.nextIno \in Int
        /\ Sound(mount')
    BY <2>1, Entries, Zenon DEF Keeps, Served
  <2>3. \A i \in Inos : m.inoToPath[i] # NoPath => m.inoToPath[i] = mount.inoToPath[i]
    BY <2>1, Zenon DEF Keeps
  <2>4. MappedExist(m)
    BY <2>3, Zenon DEF Identity, MappedExist
  <2>5. \A i \in Inos : mount'.inoToPath[i] # NoPath =>
          IF i < m.nextIno
          THEN m.inoToPath[i] # NoPath /\ tree'[mount'.inoToPath[i]] = tree[m.inoToPath[i]]
          ELSE tree'[mount'.inoToPath[i]] # Absent
    BY <2>1, <2>4, Zenon DEF Served
  <2>6. \A i \in Inos : mount'.inoToPath[i] # NoPath => i < mount'.nextIno
    BY <2>2, Entries, Zenon
  <2>7. ASSUME NEW i \in Inos
        PROVE  /\ i < mount.nextIno => objOf'[i] = objOf[i]
               /\ ~(i < mount.nextIno) /\ i < mount'.nextIno
                    => objOf'[i] = tree'[mount'.inoToPath[i]].obj
    BY <1>1, <2>2 DEF RecordInodes, Inos
  <2>8. ASSUME NEW i \in Inos, mount'.inoToPath[i] # NoPath
        PROVE  /\ tree'[mount'.inoToPath[i]].obj = objOf'[i]
               /\ tree'[mount'.inoToPath[i]] # Absent
    <3>1. CASE i < m.nextIno
      BY <2>2, <2>3, <2>4, <2>5, <2>7, <2>8, <3>1
         DEF Identity, InodeIdentity, MappedExist, Exists
    <3>2. CASE ~(i < m.nextIno)
      BY <2>2, <2>5, <2>6, <2>7, <2>8, <3>2, Zenon
    <3> QED BY <3>1, <3>2, Zenon
  <2>9. ASSUME NEW h \in Held(mount'.handles)
        PROVE  h.obj = objOf'[h.ino] /\ h.ino < mount'.nextIno
    <3>1. CASE h \in Held(m.handles)
      <4>1. h \in Held(mount.handles)
        BY <2>1, <3>1, Zenon DEF Keeps
      <4>2. h.obj = objOf[h.ino] /\ h.ino < mount.nextIno
        BY <4>1, Zenon DEF Identity, InodeIdentity, Held
      <4>3. h.ino \in Inos
        <5>1. mount.handles \in Seq(Handle)
          BY Zenon DEF Inv, Sound, Mount
        <5>2. h \in Handle
          BY <4>1, <5>1, ElementOfSeq, Zenon DEF Held
        <5> QED BY <5>2, Zenon DEF Handle
      <4>4. m.nextIno <= mount'.nextIno
        BY <2>1, Zenon DEF Served
      <4> QED BY <2>2, <2>7, <4>2, <4>3, <4>4 DEF Inos
    <3>2. CASE h \notin Held(m.handles)
      <4>1. /\ h.ino \in Inos /\ mount'.inoToPath[h.ino] # NoPath
            /\ h.obj = tree'[mount'.inoToPath[h.ino]].obj
        BY <2>1, <3>2, Zenon DEF Served
      <4> QED BY <2>6, <2>8, <4>1, Zenon
    <3> QED BY <3>1, <3>2, Zenon
  <2>10. MappedExist(mount)'
    BY <2>8, Zenon DEF MappedExist, Exists
  <2>11. InodeIdentity'
    BY <2>8, <2>9, Zenon DEF InodeIdentity, Held
  <2> QED BY <1>0, <2>9, <2>10, <2>11, Zenon DEF Identity
<1>2. CASE UNCHANGED vars
  <2>1. mount' = mount /\ tree' = tree /\ objOf' = objOf
    BY <1>2, Zenon DEF vars
  <2> QED BY <1>0, <2>1 DEF Identity, InodeIdentity, MappedExist, Exists, Held
<1> QED BY <1>0, <1>1, <1>2, Zenon DEF Next, HostStep

(* While only the guest changes the tree, and renames only what it has     *)
(* looked up, as the kernel does, an inode number names one host file for  *)
(* as long as it is mapped, whatever is renamed, replaced or unlinked.     *)
THEOREM IdentityTheorem == Spec => []InodeIdentity
<1> DEFINE Kept == orderly => Identity
<1>1. Init => Kept
  BY InitIdentity, Zenon
<1>2. Inv /\ Kept /\ [Next]_vars => Kept'
  <2>1. ASSUME [Next]_vars PROVE orderly' = orderly
    BY <2>1, Zenon DEF Next, vars
  <2> QED BY <2>1, IdentityStep, Zenon
<1>3. Kept => InodeIdentity
  BY Zenon DEF Identity, InodeIdentity
<1> QED BY <1>1, <1>2, <1>3, InitInv, InvStep, PTL DEF Spec
====
