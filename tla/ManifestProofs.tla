---------------------------- MODULE ManifestProofs ----------------------------
(***************************************************************************)
(* Proofs about module Manifest, for every tree, call and output           *)
(* directory: a relative path leads back to its file, each file of a       *)
(* directory is sent once, and no file is made outside the output          *)
(* directory or twice.                                                     *)
(***************************************************************************)
EXTENDS Manifest, Induction, SequenceTheorems, FiniteSetTheorems, TLAPS

-----------------------------------------------------------------------------
(* Walks. *)

\* The places a walk passes.
IsTrace(w, from, path) ==
    /\ w = [n \in 0 .. Len(path) |-> w[n]]
    /\ w[0] = from
    /\ \A n \in 1 .. Len(path) : w[n] = Enter(w[n - 1], path[n])

LEMMA OneElement ==
    ASSUME NEW S, NEW x \in S
    PROVE  <<x>> \in Seq(S) /\ Len(<<x>>) = 1 /\ <<x>>[1] = x
OBVIOUS

LEMMA CancelLeft ==
    ASSUME NEW S, NEW s \in Seq(S), NEW t \in Seq(S), NEW u \in Seq(S), s \o t = s \o u
    PROVE  t = u
BY ConcatSimplifications, Zenon

\* The first m elements of a sequence.
LEMMA Beginning ==
    ASSUME NEW S, NEW s \in Seq(S), NEW m \in 0 .. Len(s)
    PROVE  /\ SubSeq(s, 1, m) \in Seq(S) /\ Len(SubSeq(s, 1, m)) = m
           /\ \A i \in 1 .. m : SubSeq(s, 1, m)[i] = s[i]
<1>1. m \in Nat /\ m \in Int /\ 1 \in Int /\ \A i \in 1 .. m : s[i] \in S
  BY ElementOfSeq
<1>2. /\ SubSeq(s, 1, m) \in Seq(S)
      /\ Len(SubSeq(s, 1, m)) = IF 1 <= m THEN m - 1 + 1 ELSE 0
      /\ \A i \in 1 .. m - 1 + 1 : SubSeq(s, 1, m)[i] = s[1 + i - 1]
  BY <1>1, SubSeqProperties
<1>3. (IF 1 <= m THEN m - 1 + 1 ELSE 0) = m /\ m - 1 + 1 = m
  BY <1>1
<1> QED
  BY <1>1, <1>2, <1>3

LEMMA FrontOfPlace ==
    ASSUME NEW S, NEW at \in Seq(S), at # <<>>
    PROVE  /\ Len(at) \in Nat \ {0} /\ Front(at) = SubSeq(at, 1, Len(at) - 1)
           /\ Front(at) \in Seq(S) /\ Len(Front(at)) = Len(at) - 1
           /\ \A i \in 1 .. Len(at) - 1 : Front(at)[i] = at[i]
<1>1. Len(at) \in Nat \ {0}
  BY EmptySeq
<1>2. Len(at) - 1 \in 0 .. Len(at)
  BY <1>1
<1> QED
  BY <1>1, <1>2, Beginning DEF Front

\* Where a walk can be.
Reached == Places \cup {Nowhere}

LEMMA DirIsPlace ==
    ASSUME tree \in Trees, NEW at, Kind(at) # "none"
    PROVE  at \in DOMAIN tree /\ at \in Places /\ at # Nowhere /\ tree[at].to \in Places
BY ManifestAssumption DEF ManifestAssumption, WellFormed, Kind

\* A step leads to a place, or nowhere.
LEMMA EnterType ==
    ASSUME tree \in Trees, NEW at \in Reached, NEW name \in Names \cup Special
    PROVE  Enter(at, name) \in Reached
<1>1. <<>> \in Reached /\ Nowhere \in Reached
  BY EmptySeq DEF Places, Reached
<1>2. CASE name = "/" \/ Kind(at) # "dir"
  BY <1>1, <1>2 DEF Enter
<1>3. CASE name # "/" /\ Kind(at) = "dir"
  <2>1. at \in Places
    BY <1>3, DirIsPlace
  <2>2. at # <<>> => Front(at) \in Places
    BY <2>1, FrontOfPlace DEF Places
  <2>3. name \notin {"/", ".", "", ".."} => Append(at, name) \in Places
    BY <2>1, AppendProperties DEF Places, Special
  <2>4. Kind(Append(at, name)) = "link" => tree[Append(at, name)].to \in Places
    BY DirIsPlace
  <2> QED
    BY <1>1, <1>3, <2>1, <2>2, <2>3, <2>4 DEF Enter, Reached
<1> QED
  BY <1>2, <1>3

LEMMA TraceExists ==
    ASSUME tree \in Trees, NEW from \in Reached, NEW path \in Path
    PROVE  \E w : IsTrace(w, from, path) /\ \A n \in 0 .. Len(path) : w[n] \in Reached
<1> DEFINE step == [n \in 1 .. Len(path) |-> [at \in Reached |-> Enter(at, path[n])]]
<1>1. Len(path) \in Nat /\ \A n \in 1 .. Len(path) : path[n] \in Names \cup Special
  BY DEF Path
<1>2. step \in [1 .. Len(path) -> [Reached -> Reached]]
  BY <1>1, EnterType
<1>3. \A n \in 1 .. Len(path), at \in Reached : step[n][at] = Enter(at, path[n])
  OBVIOUS
<1> HIDE DEF step
<1>4. PICK f : Unfolds(f, Len(path), from, step)
  BY <1>1, <1>2, Recursion
<1>5. \A n \in 0 .. Len(path) : f[n] \in Reached
  BY <1>1, <1>2, <1>4, RecursionType
<1>6. \A n \in 1 .. Len(path) : f[n] = Enter(f[n - 1], path[n])
  <2> SUFFICES ASSUME NEW n \in 1 .. Len(path) PROVE f[n] = Enter(f[n - 1], path[n])
    OBVIOUS
  <2>1. n - 1 \in 0 .. Len(path)
    BY <1>1
  <2>2. f[n] = step[n][f[n - 1]]
    BY <1>4 DEF Unfolds
  <2> QED
    BY <2>1, <2>2, <1>3, <1>5
<1>7. f[0] = from
  BY <1>4 DEF Unfolds
<1>8. f = [n \in 0 .. Len(path) |-> f[n]]
  BY <1>4 DEF Unfolds
<1>9. IsTrace(f, from, path)
  BY <1>6, <1>7, <1>8, Zenon DEF IsTrace
<1> QED
  BY <1>5, <1>9

LEMMA TraceUnique ==
    ASSUME NEW from, NEW path \in Path, NEW v, IsTrace(v, from, path),
           NEW w, IsTrace(w, from, path)
    PROVE  v[Len(path)] = w[Len(path)]
<1> DEFINE S == {n \in 0 .. Len(path) : v[n] = w[n]}
<1>0. Len(path) \in Nat
  BY DEF Path
<1>1. v[0] = w[0]
  BY DEF IsTrace
<1>2. ASSUME NEW n \in 1 .. Len(path), n - 1 \in S PROVE n \in S
  <2>1. v[n] = Enter(v[n - 1], path[n]) /\ w[n] = Enter(w[n - 1], path[n])
    BY DEF IsTrace
  <2>2. v[n - 1] = w[n - 1]
    BY <1>2
  <2>3. v[n] = w[n]
    BY <2>1, <2>2
  <2> QED
    BY <1>0, <2>3
<1>3. 0 \in S
  BY <1>0, <1>1
<1> HIDE DEF S
<1>4. 0 .. Len(path) \subseteq S
  BY <1>0, <1>2, <1>3, InductUpTo
<1> QED
  BY <1>0, <1>4 DEF S

\* A walk ends where its trace does.
LEMMA WalkTrace ==
    ASSUME tree \in Trees, NEW from \in Reached, NEW path \in Path,
           NEW w, IsTrace(w, from, path)
    PROVE  Walk(from, path) = w[Len(path)]
<1> DEFINE f == CHOOSE at : at = [n \in 0 .. Len(path) |->
                                    IF n = 0 THEN from ELSE Enter(at[n - 1], path[n])]
<1>0. Len(path) \in Nat
  BY DEF Path
<1>1. Walk(from, path) = f[Len(path)]
  BY DEF Walk
<1>2. w = [n \in 0 .. Len(path) |-> IF n = 0 THEN from ELSE Enter(w[n - 1], path[n])]
  <2>1. w = [n \in 0 .. Len(path) |-> w[n]]
    BY DEF IsTrace
  <2>2. w[0] = from /\ \A n \in 1 .. Len(path) : w[n] = Enter(w[n - 1], path[n])
    BY DEF IsTrace
  <2>3. \A n \in 0 .. Len(path) : w[n] = IF n = 0 THEN from ELSE Enter(w[n - 1], path[n])
    BY <1>0, <2>2
  <2> QED
    BY <2>1, <2>3
<1>3. f = [n \in 0 .. Len(path) |-> IF n = 0 THEN from ELSE Enter(f[n - 1], path[n])]
  BY <1>2
<1> HIDE DEF f
<1>4. IsTrace(f, from, path)
  BY <1>0, <1>3 DEF IsTrace
<1> QED
  BY <1>1, <1>4, TraceUnique

\* A walk along p and then s is a walk along s from where p leads.
LEMMA WalkConcat ==
    ASSUME tree \in Trees, NEW from \in Reached, NEW p \in Path, NEW s \in Path
    PROVE  Walk(from, p \o s) = Walk(Walk(from, p), s) /\ Walk(from, p) \in Reached
<1>1. PICK v : IsTrace(v, from, p) /\ \A n \in 0 .. Len(p) : v[n] \in Reached
  BY TraceExists
<1>2. Len(p) \in Nat /\ Len(s) \in Nat
  BY DEF Path
<1>3. Walk(from, p) = v[Len(p)] /\ v[Len(p)] \in Reached
  BY <1>1, <1>2, WalkTrace
<1>4. PICK w : IsTrace(w, v[Len(p)], s)
  BY <1>3, TraceExists
<1>5. /\ p \o s \in Path /\ Len(p \o s) = Len(p) + Len(s)
      /\ \A n \in 1 .. Len(p) : (p \o s)[n] = p[n]
      /\ \A n \in 1 .. Len(s) : (p \o s)[Len(p) + n] = s[n]
  <2>1. /\ p \o s \in Path /\ Len(p \o s) = Len(p) + Len(s)
        /\ \A i \in 1 .. Len(p) + Len(s) : (p \o s)[i] = IF i <= Len(p) THEN p[i] ELSE s[i - Len(p)]
    BY ConcatProperties DEF Path
  <2> QED
    BY <1>2, <2>1
<1> DEFINE t == [n \in 0 .. Len(p \o s) |-> IF n <= Len(p) THEN v[n] ELSE w[n - Len(p)]]
<1>6. \A n \in 0 .. Len(p) : t[n] = v[n]
  BY <1>2, <1>5
<1>7. \A n \in 1 .. Len(s) : t[Len(p) + n] = w[n] /\ t[Len(p) + n - 1] = w[n - 1]
  <2> SUFFICES ASSUME NEW n \in 1 .. Len(s) PROVE t[Len(p) + n] = w[n] /\ t[Len(p) + n - 1] = w[n - 1]
    OBVIOUS
  <2>1. t[Len(p) + n] = w[n]
    BY <1>2, <1>5
  <2>2. CASE n = 1
    <3>1. Len(p) + n - 1 = Len(p) /\ n - 1 = 0 /\ w[0] = v[Len(p)]
      BY <1>2, <1>4, <2>2 DEF IsTrace
    <3>2. t[Len(p)] = v[Len(p)]
      BY <1>2, <1>6
    <3> QED
      BY <2>1, <3>1, <3>2
  <2>3. CASE n # 1
    <3>1. Len(p) + n - 1 \in 0 .. Len(p \o s) /\ ~(Len(p) + n - 1 <= Len(p)) /\ Len(p) + n - 1 - Len(p) = n - 1
      BY <1>2, <1>5, <2>3
    <3> QED
      BY <2>1, <3>1
  <2> QED
    BY <2>2, <2>3
<1>8. t = [n \in 0 .. Len(p \o s) |-> t[n]]
  OBVIOUS
<1> HIDE DEF t
<1>9. ASSUME NEW n \in 1 .. Len(p \o s) PROVE t[n] = Enter(t[n - 1], (p \o s)[n])
  <2>1. CASE n <= Len(p)
    <3>1. n \in 1 .. Len(p) /\ n \in 0 .. Len(p) /\ n - 1 \in 0 .. Len(p)
      BY <1>2, <2>1
    <3>2. v[n] = Enter(v[n - 1], p[n])
      BY <1>1, <3>1 DEF IsTrace
    <3> QED
      BY <1>5, <1>6, <3>1, <3>2
  <2>2. CASE ~(n <= Len(p))
    <3>1. PICK m \in 1 .. Len(s) : n = Len(p) + m
      <4>1. n - Len(p) \in 1 .. Len(s) /\ n = Len(p) + (n - Len(p))
        BY <1>2, <1>5, <2>2
      <4> QED
        BY <4>1
    <3>2. w[m] = Enter(w[m - 1], s[m])
      BY <1>4, <3>1 DEF IsTrace
    <3>3. t[n] = w[m] /\ t[n - 1] = w[m - 1] /\ (p \o s)[n] = s[m]
      BY <1>5, <1>7, <3>1
    <3> QED
      BY <3>2, <3>3
  <2> QED
    BY <2>1, <2>2
<1>10. t[0] = from
  BY <1>1, <1>2, <1>6 DEF IsTrace
<1>11. IsTrace(t, from, p \o s)
  BY <1>8, <1>9, <1>10, Zenon DEF IsTrace
<1>12. Walk(from, p \o s) = t[Len(p) + Len(s)]
  BY <1>5, <1>11, WalkTrace, ZenonT(60)
<1>13. Walk(v[Len(p)], s) = w[Len(s)]
  BY <1>3, <1>4, WalkTrace
<1>14. t[Len(p) + Len(s)] = w[Len(s)]
  <2>1. CASE Len(s) = 0
    BY <1>2, <1>4, <1>6, <2>1 DEF IsTrace
  <2>2. CASE Len(s) # 0
    BY <1>2, <1>7, <2>2
  <2> QED
    BY <2>1, <2>2
<1> QED
  BY <1>3, <1>12, <1>13, <1>14

-----------------------------------------------------------------------------
(* Up and down a tree. *)

LEMMA BeginningOfBeginning ==
    ASSUME NEW S, NEW s \in Seq(S), NEW m \in 0 .. Len(s), NEW k \in 0 .. m
    PROVE  SubSeq(SubSeq(s, 1, m), 1, k) = SubSeq(s, 1, k)
<1>1. SubSeq(s, 1, m) \in Seq(S) /\ Len(SubSeq(s, 1, m)) = m /\ \A i \in 1 .. m : SubSeq(s, 1, m)[i] = s[i]
  BY Beginning
<1>2. k \in 0 .. Len(s) /\ k \in 0 .. Len(SubSeq(s, 1, m))
  BY <1>1
<1>3. /\ SubSeq(s, 1, k) \in Seq(S) /\ Len(SubSeq(s, 1, k)) = k
      /\ \A i \in 1 .. k : SubSeq(s, 1, k)[i] = s[i]
  BY <1>2, Beginning
<1>4. /\ SubSeq(SubSeq(s, 1, m), 1, k) \in Seq(S) /\ Len(SubSeq(SubSeq(s, 1, m), 1, k)) = k
      /\ \A i \in 1 .. k : SubSeq(SubSeq(s, 1, m), 1, k)[i] = SubSeq(s, 1, m)[i]
  BY <1>1, <1>2, Beginning
<1>5. \A i \in 1 .. k : SubSeq(SubSeq(s, 1, m), 1, k)[i] = SubSeq(s, 1, k)[i]
  BY <1>1, <1>3, <1>4
<1> QED
  BY <1>3, <1>4, <1>5, SeqEqual

LEMMA PlaceType ==
    ASSUME tree \in Trees, NEW at \in DOMAIN tree
    PROVE  /\ at \in Seq(Names) /\ Len(at) \in Nat
           /\ at # <<>> => Front(at) \in DOMAIN tree /\ tree[Front(at)].kind = "dir"
<1>1. WellFormed(tree)
  BY ManifestAssumption DEF ManifestAssumption
<1>2. at \in Seq(Names) /\ (at # <<>> => Front(at) \in DOMAIN tree /\ tree[Front(at)].kind = "dir")
  BY <1>1 DEF WellFormed, Places
<1> QED
  BY <1>2

\* Every place lies in directories, up to the root.
LEMMA InDirectories ==
    ASSUME tree \in Trees, NEW at \in DOMAIN tree, NEW k \in 0 .. Len(at) - 1
    PROVE  Kind(SubSeq(at, 1, k)) = "dir"
<1> DEFINE L == Len(at)
           Up(j) == SubSeq(at, 1, L - j)
<1>0. at \in Seq(Names) /\ L \in Nat
  BY PlaceType
<1>1. Up(0) = at
  BY <1>0, SubSeqFull
<1>2. ASSUME NEW j \in 1 .. L PROVE Up(j - 1) # <<>> /\ Front(Up(j - 1)) = Up(j)
  <2> DEFINE m == L - (j - 1)
  <2>1. m \in 0 .. L /\ L - j \in 0 .. m /\ m # 0 /\ m - 1 = L - j
    BY <1>0
  <2> HIDE DEF m
  <2>2. SubSeq(at, 1, m) \in Seq(Names) /\ Len(SubSeq(at, 1, m)) = m
    BY <1>0, <2>1, Beginning
  <2>3. SubSeq(at, 1, m) # <<>>
    BY <2>1, <2>2, EmptySeq
  <2>4. Front(SubSeq(at, 1, m)) = SubSeq(SubSeq(at, 1, m), 1, L - j)
    BY <2>1, <2>2, <2>3, FrontOfPlace
  <2>5. SubSeq(SubSeq(at, 1, m), 1, L - j) = SubSeq(at, 1, L - j)
    BY <1>0, <2>1, BeginningOfBeginning
  <2> QED
    BY <2>3, <2>4, <2>5 DEF m
<1>3. L - k \in 1 .. L /\ Up(L - k) = SubSeq(at, 1, k)
  <2>1. L - k \in 1 .. L /\ L - (L - k) = k
    BY <1>0
  <2> QED
    BY <2>1
<1> HIDE DEF Up
<1> DEFINE S == {j \in 0 .. L : Up(j) \in DOMAIN tree}
<1>4. 0 \in S
  BY <1>0, <1>1
<1>5. ASSUME NEW j \in 1 .. L, j - 1 \in S PROVE j \in S /\ tree[Up(j)].kind = "dir"
  <2>1. Up(j) \in DOMAIN tree /\ tree[Up(j)].kind = "dir"
    BY <1>2, <1>5, PlaceType
  <2> QED
    BY <1>0, <2>1
<1>6. 0 .. L \subseteq S
  <2> HIDE DEF S
  <2> QED
    BY <1>0, <1>4, <1>5, InductUpTo
<1>7. L - k - 1 \in S
  BY <1>0, <1>3, <1>6
<1>8. Up(L - k) \in DOMAIN tree /\ tree[Up(L - k)].kind = "dir"
  BY <1>3, <1>5, <1>7
<1> QED
  BY <1>3, <1>8 DEF Kind

LEMMA EnterDown ==
    ASSUME tree \in Trees, NEW at \in DOMAIN tree, tree[at].kind # "link", NEW k \in 1 .. Len(at)
    PROVE  Enter(SubSeq(at, 1, k - 1), at[k]) = SubSeq(at, 1, k)
<1>0. at \in Seq(Names) /\ Len(at) \in Nat /\ at[k] \in Names
  BY PlaceType, ElementOfSeq
<1>1. Kind(SubSeq(at, 1, k - 1)) = "dir"
  BY <1>0, InDirectories
<1>2. at[k] \notin {"/", ".", "", ".."}
  BY <1>0, ManifestAssumption DEF ManifestAssumption, Special
<1>3. Append(SubSeq(at, 1, k - 1), at[k]) = SubSeq(at, 1, k)
  <2>1. k - 1 \in 0 .. Len(at) /\ k \in 0 .. Len(at) /\ k - 1 + 1 = k
    BY <1>0
  <2>2. /\ SubSeq(at, 1, k - 1) \in Seq(Names) /\ Len(SubSeq(at, 1, k - 1)) = k - 1
        /\ \A i \in 1 .. k - 1 : SubSeq(at, 1, k - 1)[i] = at[i]
    BY <1>0, <2>1, Beginning
  <2>3. /\ SubSeq(at, 1, k) \in Seq(Names) /\ Len(SubSeq(at, 1, k)) = k
        /\ \A i \in 1 .. k : SubSeq(at, 1, k)[i] = at[i]
    BY <1>0, <2>1, Beginning
  <2> DEFINE a == SubSeq(at, 1, k - 1)  b == SubSeq(at, 1, k)
  <2> HIDE DEF a, b
  <2>4. a \in Seq(Names) /\ Len(a) = k - 1 /\ \A i \in 1 .. k - 1 : a[i] = at[i]
    BY <2>2 DEF a
  <2>5. b \in Seq(Names) /\ Len(b) = k /\ \A i \in 1 .. k : b[i] = at[i]
    BY <2>3 DEF b
  <2>6. /\ Append(a, at[k]) \in Seq(Names) /\ Len(Append(a, at[k])) = k
        /\ \A i \in 1 .. k - 1 : Append(a, at[k])[i] = a[i]
        /\ Append(a, at[k])[k] = at[k]
    BY <1>0, <2>1, <2>4, AppendProperties
  <2>7. \A i \in 1 .. k : Append(a, at[k])[i] = b[i]
    <3> SUFFICES ASSUME NEW i \in 1 .. k PROVE Append(a, at[k])[i] = b[i]
      OBVIOUS
    <3>1. CASE i = k
      BY <2>5, <2>6, <3>1
    <3>2. CASE i # k
      BY <1>0, <2>4, <2>5, <2>6, <3>2
    <3> QED
      BY <3>1, <3>2
  <2>8. Append(a, at[k]) = b
    BY <2>5, <2>6, <2>7, SeqEqual
  <2> QED
    BY <2>8 DEF a, b
<1>4. Kind(SubSeq(at, 1, k)) # "link"
  <2>1. CASE k = Len(at)
    BY <1>0, <2>1, SubSeqFull DEF Kind
  <2>2. CASE k # Len(at)
    <3>1. k \in 0 .. Len(at) - 1
      BY <1>0, <2>2
    <3> QED
      BY <3>1, InDirectories
  <2> QED
    BY <2>1, <2>2
<1> QED
  BY <1>1, <1>2, <1>3, <1>4 DEF Enter

LEMMA EnterUp ==
    ASSUME tree \in Trees, NEW at \in DOMAIN tree, tree[at].kind = "dir", NEW k \in 1 .. Len(at)
    PROVE  Enter(SubSeq(at, 1, k), "..") = SubSeq(at, 1, k - 1)
<1>0. at \in Seq(Names) /\ Len(at) \in Nat
  BY PlaceType
<1>1. Kind(SubSeq(at, 1, k)) = "dir"
  <2>1. CASE k = Len(at)
    BY <1>0, <2>1, SubSeqFull, ZenonT(60) DEF Kind
  <2>2. CASE k # Len(at)
    <3>1. k \in 0 .. Len(at) - 1
      BY <1>0, <2>2
    <3> QED
      BY <3>1, InDirectories
  <2> QED
    BY <2>1, <2>2
<1>2. k \in 0 .. Len(at) /\ k - 1 \in 0 .. k /\ k # 0
  BY <1>0
<1>3. SubSeq(at, 1, k) \in Seq(Names) /\ Len(SubSeq(at, 1, k)) = k
  BY <1>0, <1>2, Beginning
<1>4. SubSeq(at, 1, k) # <<>>
  BY <1>2, <1>3, EmptySeq
<1>5. Front(SubSeq(at, 1, k)) = SubSeq(SubSeq(at, 1, k), 1, k - 1)
  BY <1>3, <1>4, FrontOfPlace
<1>6. Front(SubSeq(at, 1, k)) = SubSeq(at, 1, k - 1)
  BY <1>0, <1>2, <1>5, BeginningOfBeginning
<1> QED
  BY <1>1, <1>4, <1>6 DEF Enter

\* How many components two places share: the most.
Shared(a, b, n) ==
    /\ n \in 0 .. Len(a) /\ n <= Len(b) /\ SubSeq(a, 1, n) = SubSeq(b, 1, n)
    /\ \A m \in 0 .. Len(a) : m <= Len(b) /\ SubSeq(a, 1, m) = SubSeq(b, 1, m) => m <= n

LEMMA CommonPrefix ==
    ASSUME NEW a \in Places, NEW b \in Places
    PROVE  Shared(a, b, Len(LongestCommonPrefix({a, b})))
<1> DEFINE M == {m \in 0 .. Len(a) : m <= Len(b) /\ SubSeq(a, 1, m) = SubSeq(b, 1, m)}
           CP == CommonPrefixes({a, b})
<1>0. Len(a) \in Nat /\ Len(b) \in Nat /\ a \in Seq(Names) /\ b \in Seq(Names)
  BY DEF Places
<1>1. ASSUME NEW m \in M PROVE SubSeq(a, 1, m) \in CP /\ Len(SubSeq(a, 1, m)) = m
  <2>0. m \in 0 .. Len(a) /\ m \in 0 .. Len(b) /\ SubSeq(a, 1, m) = SubSeq(b, 1, m)
    BY <1>0
  <2>1. Len(SubSeq(a, 1, m)) = m /\ SubSeq(a, 1, m) \in Seq(Names)
    BY <1>0, <2>0, Beginning
  <2>2. SubSeq(SubSeq(a, 1, m), 1, m) = SubSeq(a, 1, m)
    BY <1>0, <2>0, BeginningOfBeginning
  <2>3. IsPrefix(SubSeq(a, 1, m), a) /\ IsPrefix(SubSeq(a, 1, m), b)
    BY <1>0, <2>0, <2>1, <2>2 DEF IsPrefix
  <2>4. SubSeq(a, 1, m) \in Prefixes(a)
    BY <2>0 DEF Prefixes
  <2> QED
    BY <2>1, <2>3, <2>4 DEF CommonPrefixes
<1>2. ASSUME NEW x \in CP PROVE Len(x) \in M /\ x = SubSeq(a, 1, Len(x))
  <2>1. IsPrefix(x, a) /\ IsPrefix(x, b) /\ (x \in Prefixes(a) \/ x \in Prefixes(b))
    BY DEF CommonPrefixes
  <2>2. x \in Seq(Names) /\ Len(x) \in Nat
    BY <1>0, <2>1, Beginning DEF Prefixes
  <2>3. SubSeq(x, 1, Len(x)) = x
    BY <2>2, SubSeqFull
  <2>4. Len(x) <= Len(a) /\ Len(x) <= Len(b) /\ x = SubSeq(a, 1, Len(x)) /\ x = SubSeq(b, 1, Len(x))
    BY <2>1, <2>3 DEF IsPrefix
  <2> QED
    BY <1>0, <2>2, <2>4
<1>3. PICK n \in M : \A m \in M : m <= n
  <2> DEFINE T == {Len(a) - m : m \in M}
  <2>1. SubSeq(a, 1, 0) = <<>> /\ SubSeq(b, 1, 0) = <<>>
    BY SubSeqEmpty
  <2>2. 0 \in M
    BY <1>0, <2>1
  <2>3. T \in SUBSET Nat /\ T # {}
    BY <1>0, <2>2
  <2>4. PICK x \in T : \A y \in T : x <= y
    BY <2>3, LeastNat
  <2>5. PICK n \in M : x = Len(a) - n
    BY <2>4
  <2>6. ASSUME NEW m \in M PROVE m \in Nat /\ Len(a) - n <= Len(a) - m
    <3>1. Len(a) - m \in T /\ m \in Nat
      BY <1>0
    <3> HIDE DEF T, M
    <3> QED
      BY <2>4, <2>5, <3>1
  <2>7. \A m \in M : m <= n
    BY <1>0, <2>6
  <2> QED
    BY <2>7
<1> DEFINE longest == LongestCommonPrefix({a, b})
<1> HIDE DEF M, CP
<1>4. longest \in CP /\ \A other \in CP : Len(other) <= Len(longest)
  <2>1. SubSeq(a, 1, n) \in CP /\ \A other \in CP : Len(other) <= Len(SubSeq(a, 1, n))
    BY <1>1, <1>2, <1>3
  <2> QED
    BY <2>1 DEF LongestCommonPrefix, CP
<1> HIDE DEF longest
<1>5. Len(longest) \in M /\ \A m \in M : m <= Len(longest)
  BY <1>1, <1>2, <1>4
<1> QED
  BY <1>5 DEF M, Shared, longest

\* The path from base up to the first n components and down to at.
UpDown(at, base, n) == [i \in 1 .. Len(base) - n |-> ".."] \o SubSeq(at, n + 1, Len(at))

LEMMA RelativeParts ==
    ASSUME NEW at \in Places, NEW base \in Places, NEW n, Shared(at, base, n), at # base
    PROVE  /\ Len(base) - n \in Nat /\ Len(at) - n \in Nat /\ UpDown(at, base, n) \in Path
           /\ Len(UpDown(at, base, n)) = (Len(base) - n) + (Len(at) - n)
           /\ (Len(base) - n) + (Len(at) - n) # 0
           /\ \A i \in 1 .. Len(base) - n : UpDown(at, base, n)[i] = ".."
           /\ \A i \in 1 .. Len(at) - n : UpDown(at, base, n)[(Len(base) - n) + i] = at[n + i]
<1> DEFINE up == Len(base) - n
           down == Len(at) - n
           ups == [i \in 1 .. up |-> ".."]
           downs == SubSeq(at, n + 1, Len(at))
<1>0. /\ Len(at) \in Nat /\ Len(base) \in Nat /\ at \in Seq(Names) /\ base \in Seq(Names)
      /\ n \in Nat /\ up \in Nat /\ down \in Nat
  BY DEF Places, Shared
<1>1. ".." \in Names \cup Special /\ ups \in Path /\ Len(ups) = up /\ \A i \in 1 .. up : ups[i] = ".."
  BY <1>0 DEF Special, Path
<1>2. downs \in Path /\ Len(downs) = down /\ \A i \in 1 .. down : downs[i] = at[n + i]
  <2>1. n + 1 \in Int /\ Len(at) \in Int /\ \A i \in n + 1 .. Len(at) : at[i] \in Names \cup Special
    BY <1>0, ElementOfSeq
  <2>2. /\ SubSeq(at, n + 1, Len(at)) \in Seq(Names \cup Special)
        /\ Len(SubSeq(at, n + 1, Len(at))) = IF n + 1 <= Len(at) THEN Len(at) - (n + 1) + 1 ELSE 0
        /\ \A i \in 1 .. Len(at) - (n + 1) + 1 : SubSeq(at, n + 1, Len(at))[i] = at[n + 1 + i - 1]
    BY <2>1, SubSeqProperties
  <2>3. (IF n + 1 <= Len(at) THEN Len(at) - (n + 1) + 1 ELSE 0) = down /\ Len(at) - (n + 1) + 1 = down
    BY <1>0
  <2>4. \A i \in 1 .. down : n + 1 + i - 1 = n + i
    BY <1>0
  <2> QED
    BY <2>2, <2>3, <2>4 DEF Path
<1>3. up + down # 0
  <2> SUFFICES ASSUME up + down = 0 PROVE FALSE
    OBVIOUS
  <2>1. n = Len(at) /\ n = Len(base) /\ SubSeq(at, 1, n) = SubSeq(base, 1, n)
    BY <1>0 DEF Shared
  <2> QED
    BY <1>0, <2>1, SubSeqFull
<1> HIDE DEF ups, downs
<1>4. /\ ups \o downs \in Path /\ Len(ups \o downs) = up + down
      /\ \A i \in 1 .. up + down : (ups \o downs)[i] = IF i <= up THEN ups[i] ELSE downs[i - up]
  <2>1. /\ ups \o downs \in Path /\ Len(ups \o downs) = Len(ups) + Len(downs)
        /\ \A i \in 1 .. Len(ups) + Len(downs) :
              (ups \o downs)[i] = IF i <= Len(ups) THEN ups[i] ELSE downs[i - Len(ups)]
    BY <1>1, <1>2, ConcatProperties DEF Path
  <2> QED
    BY <1>1, <1>2, <2>1
<1>5. \A i \in 1 .. up : (ups \o downs)[i] = ".."
  BY <1>0, <1>1, <1>4
<1>6. \A i \in 1 .. down : (ups \o downs)[up + i] = at[n + i]
  BY <1>0, <1>2, <1>4
<1> QED
  BY <1>0, <1>3, <1>4, <1>5, <1>6 DEF ups, downs, UpDown

\* Up to a common directory and down again.
LEMMA WalkAlong ==
    ASSUME tree \in Trees,
           NEW base \in DOMAIN tree, tree[base].kind = "dir",
           NEW at \in DOMAIN tree, tree[at].kind # "link",
           NEW n \in Nat, n <= Len(base), n <= Len(at), SubSeq(at, 1, n) = SubSeq(base, 1, n),
           NEW rel \in Path, Len(rel) = (Len(base) - n) + (Len(at) - n),
           \A i \in 1 .. Len(base) - n : rel[i] = "..",
           \A i \in 1 .. Len(at) - n : rel[(Len(base) - n) + i] = at[n + i]
    PROVE  Walk(base, rel) = at
<1> DEFINE up == Len(base) - n
           down == Len(at) - n
           w == [i \in 0 .. Len(rel) |-> IF i <= up THEN SubSeq(base, 1, Len(base) - i)
                                                 ELSE SubSeq(at, 1, n + (i - up))]
<1>0. /\ at \in Seq(Names) /\ base \in Seq(Names) /\ Len(at) \in Nat /\ Len(base) \in Nat
      /\ up \in Nat /\ down \in Nat /\ Len(rel) = up + down /\ Len(rel) \in Nat
  BY PlaceType
<1>1. \A i \in 0 .. up : w[i] = SubSeq(base, 1, Len(base) - i)
  BY <1>0
<1>2. \A i \in 0 .. down : w[up + i] = SubSeq(at, 1, n + i)
  <2> SUFFICES ASSUME NEW i \in 0 .. down PROVE w[up + i] = SubSeq(at, 1, n + i)
    OBVIOUS
  <2>1. CASE i = 0
    <3>1. up + i = up /\ Len(base) - up = n /\ n + i = n
      BY <1>0, <2>1
    <3>2. w[up] = SubSeq(base, 1, Len(base) - up)
      BY <1>0, <1>1
    <3> QED
      BY <3>1, <3>2
  <2>2. CASE i # 0
    <3>1. up + i \in 0 .. Len(rel) /\ ~(up + i <= up) /\ n + ((up + i) - up) = n + i
      BY <1>0, <2>2
    <3>2. w[up + i] = SubSeq(at, 1, n + ((up + i) - up))
      BY <3>1
    <3> QED
      BY <3>1, <3>2
  <2> QED
    BY <2>1, <2>2
<1>3. w = [i \in 0 .. Len(rel) |-> w[i]]
  OBVIOUS
<1> HIDE DEF w
<1>4. ASSUME NEW i \in 1 .. Len(rel) PROVE w[i] = Enter(w[i - 1], rel[i])
  <2>1. CASE i <= up
    <3> DEFINE k == Len(base) - (i - 1)
    <3>1. i \in 1 .. up /\ i - 1 \in 0 .. up /\ i \in 0 .. up /\ k \in 1 .. Len(base) /\ k - 1 = Len(base) - i
      BY <1>0, <2>1
    <3>2. w[i - 1] = SubSeq(base, 1, k) /\ w[i] = SubSeq(base, 1, Len(base) - i) /\ rel[i] = ".."
      BY <1>1, <3>1
    <3> HIDE DEF k
    <3>3. Enter(SubSeq(base, 1, k), "..") = SubSeq(base, 1, k - 1)
      BY <3>1, EnterUp
    <3> QED
      BY <3>1, <3>2, <3>3
  <2>2. CASE ~(i <= up)
    <3> DEFINE j == i - up
               k == n + j
    <3>1. /\ j \in 1 .. down /\ j \in 0 .. down /\ j - 1 \in 0 .. down /\ i = up + j /\ i - 1 = up + (j - 1)
          /\ k \in 1 .. Len(at) /\ k - 1 = n + (j - 1) /\ k = n + j
      BY <1>0, <2>2
    <3> HIDE DEF j, k
    <3>2. w[i] = SubSeq(at, 1, k)
      BY <1>2, <3>1
    <3>3. w[i - 1] = SubSeq(at, 1, k - 1)
      BY <1>2, <3>1
    <3>4. rel[i] = at[k]
      BY <3>1
    <3>5. Enter(SubSeq(at, 1, k - 1), at[k]) = SubSeq(at, 1, k)
      BY <3>1, EnterDown
    <3> QED
      BY <3>2, <3>3, <3>4, <3>5
  <2> QED
    BY <2>1, <2>2
<1>5. w[0] = base
  <2>1. 0 \in 0 .. up /\ Len(base) - 0 = Len(base)
    BY <1>0
  <2>2. w[0] = SubSeq(base, 1, Len(base))
    BY <1>1, <2>1
  <2> QED
    BY <1>0, <2>2, SubSeqFull
<1>6. IsTrace(w, base, rel)
  BY <1>3, <1>4, <1>5, Zenon DEF IsTrace
<1>7. base \in Reached
  BY <1>0 DEF Reached, Places
<1>8. Walk(base, rel) = w[up + down]
  BY <1>0, <1>6, <1>7, WalkTrace
<1>9. w[up + down] = SubSeq(at, 1, n + down) /\ n + down = Len(at)
  <2>1. down \in 0 .. down /\ n + down = Len(at)
    BY <1>0
  <2> QED
    BY <1>2, <2>1
<1> QED
  BY <1>0, <1>8, <1>9, SubSeqFull

\* fs::relative: from the base directory the relative path leads to the file.
LEMMA RelativeLeadsBack ==
    ASSUME tree \in Trees,
           NEW base \in DOMAIN tree, tree[base].kind = "dir",
           NEW at \in DOMAIN tree, tree[at].kind = "file"
    PROVE  /\ LexicallyRelative(at, base) \in Path
           /\ Walk(base, LexicallyRelative(at, base)) = at
<1> DEFINE n == Len(LongestCommonPrefix({at, base}))
           rel == UpDown(at, base, n)
<1>0. at \in Places /\ base \in Places /\ at # base
  BY PlaceType DEF Places
<1>1. Shared(at, base, n)
  BY <1>0, CommonPrefix
<1> HIDE DEF n
<1>2. /\ Len(base) - n \in Nat /\ Len(at) - n \in Nat /\ rel \in Path
      /\ Len(rel) = (Len(base) - n) + (Len(at) - n)
      /\ (Len(base) - n) + (Len(at) - n) # 0
      /\ \A i \in 1 .. Len(base) - n : rel[i] = ".."
      /\ \A i \in 1 .. Len(at) - n : rel[(Len(base) - n) + i] = at[n + i]
  BY <1>0, <1>1, RelativeParts
<1>3. n \in Nat /\ n <= Len(base) /\ n <= Len(at) /\ SubSeq(at, 1, n) = SubSeq(base, 1, n)
  BY <1>1 DEF Shared
<1> HIDE DEF rel
<1>4. Walk(base, rel) = at
  BY <1>2, <1>3, WalkAlong
<1>5. rel # <<>>
  BY <1>2, EmptySeq
<1>6. LexicallyRelative(at, base) = rel
  BY <1>5 DEF LexicallyRelative, UpDown, rel, n
<1> QED
  BY <1>2, <1>4, <1>6

-----------------------------------------------------------------------------
(* What CollectFiles finds. *)

\* The entries made from the i-th path of the call.
Collects(i) ==
    LET p == call.paths[i]
    IN IF Is(p, "file") THEN {EntryOf(p, Prefix(ParentPath(p)))}
       ELSE IF Is(p, "dir") /\ call.recursive
       THEN {EntryOf(path, Prefix(p)) : path \in {x \in Visited(p, call.follow_symlinks) : Is(x, "file")}}
       ELSE {}

LEMMA WalkStable ==
    ASSUME UNCHANGED tree
    PROVE  \A from, path : Walk(from, path)' = Walk(from, path)
BY DEF Walk, Enter, Kind

LEMMA WaysStable ==
    ASSUME UNCHANGED tree
    PROVE  \A path, follow : Ways(path, follow)' = Ways(path, follow)
BY DEF Ways, Behind, Directories, Under, Is, Kind, Canonical, Walk, Enter

LEMMA Stable ==
    ASSUME UNCHANGED <<tree, call>>
    PROVE  /\ \A path : Canonical(path)' = Canonical(path)
           /\ \A path, kind : Is(path, kind)' = Is(path, kind)
           /\ \A path, prefix : EntryOf(path, prefix)' = EntryOf(path, prefix)
           /\ \A default : Prefix(default)' = Prefix(default)
           /\ \A path, follow : Visited(path, follow)' = Visited(path, follow)
           /\ \A e : ResolveOnDisk(e)' = ResolveOnDisk(e)
<1>1. \A path : Canonical(path)' = Canonical(path)
  BY WalkStable DEF Canonical
<1>2. \A path, kind : Is(path, kind)' = Is(path, kind)
  BY <1>1 DEF Is, Kind
<1>3. \A path, prefix : MakeRelPath(path, prefix)' = MakeRelPath(path, prefix)
  BY <1>1, <1>2 DEF MakeRelPath
<1>4. \A path, prefix : EntryOf(path, prefix)' = EntryOf(path, prefix)
  BY <1>1, <1>3 DEF EntryOf, FileSize
<1>5. \A default : Prefix(default)' = Prefix(default)
  BY DEF Prefix
<1>6. \A dir : Under(dir)' = Under(dir)
  BY DEF Under
<1>a. \A path, follow : Ways(path, follow)' = Ways(path, follow)
  BY WaysStable
<1>7. \A path, follow : Visited(path, follow)' = Visited(path, follow)
  BY <1>a DEF Visited
<1>c. \A e, i : Match(e, i)' = Match(e, i)
  BY <1>1, <1>2 DEF Match, FileSize
<1>8. \A e : Hits(e)' = Hits(e)
  BY <1>c DEF Hits
<1>9. \A e : ResolveOnDisk(e)' = ResolveOnDisk(e)
  <2> SUFFICES ASSUME NEW e PROVE ResolveOnDisk(e)' = ResolveOnDisk(e)
    OBVIOUS
  <2> DEFINE first == CHOOSE i \in Hits(e) : \A j \in Hits(e) : i <= j
  <2>1. first' = first
    BY <1>8
  <2>2. ResolveOnDisk(e) = IF Len(call.paths) = 1 /\ Is(call.paths[1], "dir") THEN Canonical(call.paths[1] \o e.rel)
                           ELSE IF Len(call.paths) = 1 /\ Is(call.paths[1], "file") THEN Canonical(call.paths[1])
                           ELSE IF Hits(e) = {} THEN Nowhere
                           ELSE Canonical(ParentPath(call.paths[first]) \o e.rel)
    BY DEF ResolveOnDisk
  <2>3. ResolveOnDisk(e)' = IF Len(call.paths) = 1 /\ Is(call.paths[1], "dir")' THEN Canonical(call.paths[1] \o e.rel)'
                           ELSE IF Len(call.paths) = 1 /\ Is(call.paths[1], "file")' THEN Canonical(call.paths[1])'
                           ELSE IF Hits(e)' = {} THEN Nowhere
                           ELSE Canonical(ParentPath(call.paths[first]) \o e.rel)'
    BY DEF ResolveOnDisk
  <2> HIDE DEF first
  <2> QED
    BY <1>1, <1>2, <1>8, <2>1, <2>2, <2>3
<1> QED
  BY <1>1, <1>2, <1>4, <1>5, <1>7, <1>9

LEMMA CollectsStable ==
    ASSUME UNCHANGED <<tree, call>>
    PROVE  \A i : Collects(i)' = Collects(i)
BY Stable DEF Collects

-----------------------------------------------------------------------------
(* The relative paths of a manifest, and where the receiver puts them. *)

Rels == Seq(Names \cup {".."}) \cup {<<x>> : x \in Names \cup Special}

LEMMA EndOf ==
    ASSUME NEW S, NEW s \in Seq(S), NEW n \in 0 .. Len(s)
    PROVE  /\ SubSeq(s, n + 1, Len(s)) \in Seq(S) /\ Len(SubSeq(s, n + 1, Len(s))) = Len(s) - n
           /\ \A i \in 1 .. Len(s) - n : SubSeq(s, n + 1, Len(s))[i] = s[n + i]
<1>0. Len(s) \in Nat /\ n \in Nat
  OBVIOUS
<1>1. n + 1 \in Int /\ Len(s) \in Int /\ \A i \in n + 1 .. Len(s) : s[i] \in S
  BY <1>0, ElementOfSeq
<1>2. /\ SubSeq(s, n + 1, Len(s)) \in Seq(S)
      /\ Len(SubSeq(s, n + 1, Len(s))) = IF n + 1 <= Len(s) THEN Len(s) - (n + 1) + 1 ELSE 0
      /\ \A i \in 1 .. Len(s) - (n + 1) + 1 : SubSeq(s, n + 1, Len(s))[i] = s[n + 1 + i - 1]
  BY <1>1, SubSeqProperties
<1>3. (IF n + 1 <= Len(s) THEN Len(s) - (n + 1) + 1 ELSE 0) = Len(s) - n /\ Len(s) - (n + 1) + 1 = Len(s) - n
  BY <1>0
<1>4. \A i \in 1 .. Len(s) - n : n + 1 + i - 1 = n + i
  BY <1>0
<1> QED
  BY <1>2, <1>3, <1>4

LEMMA RelativeType ==
    ASSUME NEW at \in Places, NEW base \in Places
    PROVE  LexicallyRelative(at, base) \in Rels
<1> DEFINE n == Len(LongestCommonPrefix({at, base}))
           ups == [i \in 1 .. Len(base) - n |-> ".."]
           downs == SubSeq(at, n + 1, Len(at))
<1>1. n \in 0 .. Len(at) /\ n <= Len(base) /\ Len(base) \in Nat /\ Len(at) \in Nat
  BY CommonPrefix DEF Shared, Places
<1>2. ups \in Seq(Names \cup {".."})
  BY <1>1
<1>3. downs \in Seq(Names)
  BY <1>1, EndOf DEF Places
<1>4. downs \in Seq(Names \cup {".."})
  BY <1>3, SeqMonotonic
<1>5. ups \o downs \in Seq(Names \cup {".."})
  BY <1>2, <1>4, ConcatProperties
<1>6. LexicallyRelative(at, base) = IF ups \o downs = <<>> THEN <<".">> ELSE ups \o downs
  BY DEF LexicallyRelative
<1> QED
  BY <1>5, <1>6 DEF Rels, Special

LEMMA FilePlace ==
    ASSUME tree \in Trees, NEW path, NEW kind, Is(path, kind), kind # "none"
    PROVE  Canonical(path) \in DOMAIN tree /\ tree[Canonical(path)].kind = kind /\ Canonical(path) \in Places
BY DirIsPlace DEF Is, Kind

LEMMA MakeRelPathType ==
    ASSUME tree \in Trees, NEW path \in Path, path # <<>>, Is(path, "file"), NEW prefix
    PROVE  MakeRelPath(path, prefix) \in Rels
<1>1. Canonical(path) \in Places
  BY FilePlace
<1>2. CASE prefix # NoPath /\ ~Is(prefix, "none")
  <2>1. Canonical(prefix) \in Places
    BY <1>2, DirIsPlace DEF Is
  <2> QED
    BY <1>1, <1>2, <2>1, RelativeType DEF MakeRelPath
<1>3. CASE ~(prefix # NoPath /\ ~Is(prefix, "none"))
  <2>1. path[Len(path)] \in Names \cup Special
    BY EmptySeq, ElementOfSeq DEF Path
  <2> QED
    BY <1>3, <2>1 DEF MakeRelPath, Last, Rels
<1> QED
  BY <1>2, <1>3

LEMMA UnderType ==
    ASSUME tree \in Trees, NEW dir \in Places, NEW s \in Under(dir)
    PROVE  /\ s \in Seq(Names)
           /\ \E at \in DOMAIN tree : Strict(dir, at) /\ s = SubSeq(at, Len(dir) + 1, Len(at))
<1>1. PICK at \in DOMAIN tree : Strict(dir, at) /\ s = SubSeq(at, Len(dir) + 1, Len(at))
  BY DEF Under
<1>2. at \in Seq(Names) /\ Len(at) \in Nat /\ Len(dir) \in Nat /\ Len(dir) < Len(at)
  BY <1>1, PlaceType DEF Strict, Places
<1> QED
  BY <1>1, <1>2, EndOf

\* One more link is followed.
Further(path, ways) == ways \cup UNION {Behind(path, s) : s \in Directories(path, ways)}

LEMMA FurtherType ==
    ASSUME tree \in Trees, NEW path, NEW ways \in SUBSET Seq(Names)
    PROVE  Further(path, ways) \in SUBSET Seq(Names)
<1> SUFFICES ASSUME NEW s \in Directories(path, ways), NEW x \in Behind(path, s) PROVE x \in Seq(Names)
  BY DEF Further
<1>1. s \in Seq(Names) /\ Canonical(path \o s) \in Places
  BY FilePlace DEF Directories
<1>2. PICK t \in Under(Canonical(path \o s)) : x = s \o t
  BY DEF Behind
<1>3. t \in Seq(Names)
  BY <1>1, UnderType
<1> QED
  BY <1>1, <1>2, <1>3, ConcatProperties

\* The ways below a directory are sequences of names, and those without a link
\* are among them.
LEMMA WaysType ==
    ASSUME tree \in Trees, NEW path, Canonical(path) \in Places, NEW follow
    PROVE  Ways(path, follow) \subseteq Seq(Names) /\ Under(Canonical(path)) \subseteq Ways(path, follow)
<1> DEFINE links == IF follow THEN MaxLinks ELSE 0
           first == Under(Canonical(path))
           V == {W \in SUBSET Seq(Names) : first \subseteq W}
           step == [n \in 1 .. links |-> [W \in V |-> Further(path, W)]]
           f == CHOOSE w : w = [n \in 0 .. links |-> IF n = 0 THEN first ELSE Further(path, w[n - 1])]
<1>0. links \in Nat
  BY ManifestAssumption DEF ManifestAssumption
<1>1. first \in V
  BY UnderType
<1>2. step \in [1 .. links -> [V -> V]]
  BY FurtherType DEF Further
<1>3. Ways(path, follow) = f[links]
  BY DEF Ways, Further
<1>4. \A n \in 1 .. links, W \in V : step[n][W] = Further(path, W)
  OBVIOUS
<1> HIDE DEF links, first, V, step
<1>5. PICK w : Unfolds(w, links, first, step)
  BY <1>0, <1>1, <1>2, Recursion
<1>6. \A n \in 0 .. links : w[n] \in V
  BY <1>0, <1>1, <1>2, <1>5, RecursionType
<1>7. w = [n \in 0 .. links |-> IF n = 0 THEN first ELSE Further(path, w[n - 1])]
  <2>1. w = [n \in 0 .. links |-> w[n]] /\ w[0] = first /\ \A n \in 1 .. links : w[n] = step[n][w[n - 1]]
    BY <1>5 DEF Unfolds
  <2>2. \A n \in 1 .. links : n - 1 \in 0 .. links
    BY <1>0
  <2>3. \A n \in 1 .. links : w[n] = Further(path, w[n - 1])
    BY <1>4, <1>6, <2>1, <2>2
  <2>4. \A n \in 0 .. links : w[n] = IF n = 0 THEN first ELSE Further(path, w[n - 1])
    <3> TAKE n \in 0 .. links
    <3>1. CASE n = 0
      BY <2>1, <3>1
    <3>2. CASE n # 0
      <4>1. n \in 1 .. links
        BY <1>0, <3>2
      <4> QED
        BY <2>3, <3>2, <4>1
    <3> QED
      BY <3>1, <3>2
  <2> QED
    BY <2>1, <2>4
<1>8. f = [n \in 0 .. links |-> IF n = 0 THEN first ELSE Further(path, f[n - 1])]
  BY <1>7
<1> HIDE DEF f
<1> DEFINE S == {n \in 0 .. links : f[n] \in V}
<1>9. 0 \in S
  BY <1>0, <1>1, <1>8
<1>10. ASSUME NEW n \in 1 .. links, n - 1 \in S PROVE n \in S
  <2>1. f[n] = Further(path, f[n - 1])
    BY <1>0, <1>8
  <2>2. f[n - 1] \in V
    BY <1>10
  <2>3. f[n] \in V
    <3>1. f[n] = step[n][f[n - 1]]
      BY <1>4, <2>1, <2>2
    <3> QED
      BY <1>2, <2>2, <3>1
  <2> QED
    BY <1>0, <2>3
<1> HIDE DEF S
<1>11. 0 .. links \subseteq S
  BY <1>0, <1>9, <1>10, InductUpTo
<1>12. f[links] \in V
  BY <1>0, <1>11 DEF S
<1> QED
  BY <1>3, <1>12 DEF V, first

LEMMA VisitedType ==
    ASSUME tree \in Trees, NEW path \in Path, path # <<>>, Is(path, "dir"), NEW follow,
           NEW x \in Visited(path, follow)
    PROVE  x \in Path /\ x # <<>>
<1>1. Canonical(path) \in Places
  BY FilePlace
<1>2. PICK s \in Ways(path, follow) : x = path \o s
  BY DEF Visited
<1>3. s \in Seq(Names)
  BY <1>1, <1>2, WaysType
<1>4. s \in Path
  BY <1>3, SeqMonotonic DEF Path
<1> QED
  BY <1>2, <1>4, ConcatProperties, ConcatEqualIffEmpty DEF Path

LEMMA CollectsType ==
    ASSUME tree \in Trees, call \in Calls, NEW i \in 1 .. Len(call.paths), NEW e \in Collects(i)
    PROVE  e.rel \in Rels
<1> DEFINE p == call.paths[i]
<1>1. p \in Path /\ p # <<>>
  <2>1. call.paths \in Seq(Path) /\ p # NoPath
    BY ManifestAssumption DEF ManifestAssumption
  <2> QED
    BY <2>1, ElementOfSeq DEF NoPath
<1> HIDE DEF p
<1>2. CASE Is(p, "file")
  <2>1. e = EntryOf(p, Prefix(ParentPath(p)))
    BY <1>2 DEF Collects, p
  <2>2. e.rel = MakeRelPath(p, Prefix(ParentPath(p)))
    BY <2>1 DEF EntryOf
  <2> QED
    BY <1>1, <1>2, <2>2, MakeRelPathType
<1>3. CASE ~Is(p, "file")
  <2>1. PICK x \in Visited(p, call.follow_symlinks) : Is(x, "file") /\ Is(p, "dir") /\ e = EntryOf(x, Prefix(p))
    BY <1>3 DEF Collects, p
  <2>2. x \in Path /\ x # <<>>
    BY <1>1, <2>1, VisitedType
  <2>3. e.rel = MakeRelPath(x, Prefix(p))
    BY <2>1 DEF EntryOf
  <2> QED
    BY <2>1, <2>2, <2>3, MakeRelPathType
<1> QED
  BY <1>2, <1>3

\* The directories joining a relative path to the output directory passes.
IsJoin(w, rel) ==
    /\ w = [n \in 0 .. Len(rel) |-> w[n]]
    /\ w[0] = Out
    /\ \A n \in 1 .. Len(rel) : w[n] = Below(w[n - 1], rel[n])

LEMMA TargetIs ==
    ASSUME NEW rel, Len(rel) \in Nat, NEW w, IsJoin(w, rel)
    PROVE  Target(rel) = w[Len(rel)]
<1> DEFINE f == CHOOSE at : at = [n \in 0 .. Len(rel) |->
                                    IF n = 0 THEN Out ELSE Below(at[n - 1], rel[n])]
<1>1. Target(rel) = f[Len(rel)]
  BY DEF Target
<1>2. w = [n \in 0 .. Len(rel) |-> IF n = 0 THEN Out ELSE Below(w[n - 1], rel[n])]
  <2>1. w = [n \in 0 .. Len(rel) |-> w[n]]
    BY DEF IsJoin
  <2>2. w[0] = Out /\ \A n \in 1 .. Len(rel) : w[n] = Below(w[n - 1], rel[n])
    BY DEF IsJoin
  <2>3. \A n \in 0 .. Len(rel) : w[n] = IF n = 0 THEN Out ELSE Below(w[n - 1], rel[n])
    BY <2>2
  <2> QED
    BY <2>1, <2>3
<1>3. f = [n \in 0 .. Len(rel) |-> IF n = 0 THEN Out ELSE Below(f[n - 1], rel[n])]
  BY <1>2
<1> HIDE DEF f
<1> DEFINE S == {n \in 0 .. Len(rel) : f[n] = w[n]}
<1>4. 0 \in S
  BY <1>3 DEF IsJoin
<1>5. ASSUME NEW n \in 1 .. Len(rel), n - 1 \in S PROVE n \in S
  <2>1. f[n] = Below(f[n - 1], rel[n])
    BY <1>3
  <2>2. w[n] = Below(w[n - 1], rel[n])
    BY DEF IsJoin
  <2>3. f[n] = w[n]
    BY <1>5, <2>1, <2>2
  <2> QED
    BY <2>3
<1> HIDE DEF S
<1>6. 0 .. Len(rel) \subseteq S
  BY <1>4, <1>5, InductUpTo
<1>7. f[Len(rel)] = w[Len(rel)]
  BY <1>6 DEF S
<1> QED
  BY <1>1, <1>7

LEMMA Appended ==
    ASSUME NEW S, NEW s \in Seq(S), NEW x \in S, NEW n \in Nat \ {0}, Len(s) = n - 1
    PROVE  /\ Append(s, x) \in Seq(S) /\ Len(Append(s, x)) = n
           /\ \A i \in 1 .. n - 1 : Append(s, x)[i] = s[i]
           /\ Append(s, x)[n] = x
<1>1. Len(s) + 1 = n
  OBVIOUS
<1> QED
  BY <1>1, AppendProperties

LEMMA AppendedTo ==
    ASSUME NEW S, NEW s \in Seq(S), NEW t \in Seq(S), NEW x \in S
    PROVE  s \o Append(t, x) = Append(s \o t, x)
<1>1. s \o t \in Seq(S)
  BY ConcatProperties
<1>2. Append(t, x) = t \o <<x>> /\ Append(s \o t, x) = (s \o t) \o <<x>>
  BY <1>1, AppendIsConcat
<1>3. (s \o t) \o <<x>> = s \o (t \o <<x>>)
  BY OneElement, ConcatAssociative
<1> QED
  BY <1>2, <1>3

\* A path of names is appended to the output directory.
LEMMA JoinNames ==
    ASSUME NEW rel \in Seq(Names)
    PROVE  Target(rel) = Out \o rel
<1> DEFINE w == [n \in 0 .. Len(rel) |-> Out \o SubSeq(rel, 1, n)]
<1>0. Len(rel) \in Nat /\ Out \in Seq(Names)
  BY ManifestAssumption DEF ManifestAssumption, Places
<1>1. w[0] = Out
  <2>1. SubSeq(rel, 1, 0) = <<>>
    BY <1>0, Beginning, EmptySeq
  <2> QED
    BY <1>0, <2>1, ConcatEmptySeq
<1>2. ASSUME NEW n \in 1 .. Len(rel) PROVE w[n] = Below(w[n - 1], rel[n])
  <2>1. rel[n] \in Names /\ rel[n] \notin {".", "", ".."}
    BY ElementOfSeq, ManifestAssumption DEF ManifestAssumption, Special
  <2>2. n - 1 \in 0 .. Len(rel) /\ n \in 0 .. Len(rel) /\ n - 1 + 1 = n
    BY <1>0
  <2> DEFINE a == SubSeq(rel, 1, n - 1)  b == SubSeq(rel, 1, n)
  <2>3. a \in Seq(Names) /\ Len(a) = n - 1 /\ \A i \in 1 .. n - 1 : a[i] = rel[i]
    BY <2>2, Beginning
  <2>4. b \in Seq(Names) /\ Len(b) = n /\ \A i \in 1 .. n : b[i] = rel[i]
    BY <2>2, Beginning
  <2>5. w[n] = Out \o b /\ w[n - 1] = Out \o a
    BY <2>2
  <2> HIDE DEF a, b, w
  <2>6. b = Append(a, rel[n])
    <3>1. /\ Append(a, rel[n]) \in Seq(Names) /\ Len(Append(a, rel[n])) = n
          /\ \A i \in 1 .. n - 1 : Append(a, rel[n])[i] = a[i]
          /\ Append(a, rel[n])[n] = rel[n]
      <4>1. n \in Nat \ {0}
        BY <1>0
      <4>2. rel[n] \in Names
        BY <2>1
      <4> QED
        BY <4>1, <4>2, <2>3, Appended
    <3>2. \A i \in 1 .. n : Append(a, rel[n])[i] = b[i]
      <4> SUFFICES ASSUME NEW i \in 1 .. n PROVE Append(a, rel[n])[i] = b[i]
        OBVIOUS
      <4>1. CASE i = n
        BY <2>4, <3>1, <4>1
      <4>2. CASE i # n
        <5>1. i \in 1 .. n - 1
          BY <1>0, <4>2
        <5> QED
          BY <2>3, <2>4, <3>1, <5>1
      <4> QED
        BY <4>1, <4>2
    <3> QED
      BY <2>4, <3>1, <3>2, SeqEqual
  <2>7. Out \o Append(a, rel[n]) = Append(Out \o a, rel[n])
    <3>1. rel[n] \in Names
      BY <2>1
    <3> QED
      BY <1>0, <2>3, <3>1, AppendedTo
  <2> QED
    BY <2>1, <2>5, <2>6, <2>7 DEF Below
<1>3. w = [n \in 0 .. Len(rel) |-> w[n]]
  OBVIOUS
<1>4. w[Len(rel)] = Out \o rel
  BY <1>0, SubSeqFull
<1> HIDE DEF w
<1>5. IsJoin(w, rel)
  BY <1>1, <1>2, <1>3, Zenon DEF IsJoin
<1> QED
  BY <1>0, <1>4, <1>5, TargetIs

\* A single component is one step down.
LEMMA JoinOne ==
    ASSUME NEW x
    PROVE  Target(<<x>>) = Below(Out, x)
<1> DEFINE w == [n \in 0 .. Len(<<x>>) |-> IF n = 0 THEN Out ELSE Below(Out, x)]
<1>1. Len(<<x>>) = 1 /\ <<x>>[1] = x
  OBVIOUS
<1>2. w[0] = Out /\ w[1] = Below(Out, x) /\ w = [n \in 0 .. Len(<<x>>) |-> w[n]]
  BY <1>1
<1> HIDE DEF w
<1>3. \A n \in 1 .. Len(<<x>>) : n = 1
  BY <1>1
<1>4. \A n \in 1 .. Len(<<x>>) : w[n] = Below(w[n - 1], <<x>>[n])
  BY <1>1, <1>2, <1>3
<1>5. IsJoin(w, <<x>>)
  BY <1>2, <1>4, Zenon DEF IsJoin
<1> QED
  BY <1>1, <1>2, <1>5, TargetIs

LEMMA StrictlyBelow ==
    ASSUME NEW S, NEW s \in Seq(S), NEW t \in Seq(S), t # <<>>
    PROVE  Strict(s, s \o t)
<1>1. Len(s) \in Nat /\ Len(t) \in Nat \ {0}
  BY EmptySeq
<1>2. /\ s \o t \in Seq(S) /\ Len(s \o t) = Len(s) + Len(t)
      /\ \A i \in 1 .. Len(s) + Len(t) : (s \o t)[i] = IF i <= Len(s) THEN s[i] ELSE t[i - Len(s)]
  BY ConcatProperties
<1>3. Len(s) < Len(s \o t) /\ Len(s) \in 0 .. Len(s \o t)
  BY <1>1, <1>2
<1>4. /\ SubSeq(s \o t, 1, Len(s)) \in Seq(S) /\ Len(SubSeq(s \o t, 1, Len(s))) = Len(s)
      /\ \A i \in 1 .. Len(s) : SubSeq(s \o t, 1, Len(s))[i] = (s \o t)[i]
  BY <1>2, <1>3, Beginning
<1>5. \A i \in 1 .. Len(s) : SubSeq(s \o t, 1, Len(s))[i] = s[i]
  BY <1>1, <1>2, <1>4
<1>6. SubSeq(s \o t, 1, Len(s)) = s
  BY <1>4, <1>5, SeqEqual
<1> QED
  BY <1>3, <1>6 DEF Strict, IsPrefix

\* A path that passes validation and does not name the output directory
\* itself is a sequence of names.
LEMMA Landing ==
    ASSUME NEW rel \in Rels, Valid(rel), Target(rel) # Out
    PROVE  rel \in Seq(Names) /\ rel # <<>> /\ Target(rel) = Out \o rel
<1>1. CASE rel \in Seq(Names \cup {".."})
  <2>1. \A i \in 1 .. Len(rel) : rel[i] \in Names
    BY <1>1, ElementOfSeq DEF Valid
  <2>2. rel \in Seq(Names)
    BY <1>1, <2>1
  <2>3. rel # <<>>
    <3> SUFFICES ASSUME rel = <<>> PROVE FALSE
      OBVIOUS
    <3>1. Target(rel) = Out \o rel /\ Out \in Seq(Names)
      BY <2>2, JoinNames, ManifestAssumption DEF ManifestAssumption, Places
    <3> QED
      BY <3>1, ConcatEmptySeq
  <2> QED
    BY <2>2, <2>3, JoinNames
<1>2. CASE rel \notin Seq(Names \cup {".."})
  <2>1. PICK x \in Names \cup Special : rel = <<x>>
    BY <1>2 DEF Rels
  <2>2. Len(rel) = 1 /\ rel[1] = x
    BY <2>1
  <2>3. x \notin {"..", "/"}
    BY <2>2 DEF Valid
  <2>4. x \notin {".", ""}
    BY <2>1, JoinOne DEF Below
  <2>5. x \in Names
    BY <2>3, <2>4 DEF Special
  <2>6. rel \in Seq(Names)
    BY <2>1, <2>5, OneElement
  <2>7. rel # <<>>
    BY <2>2
  <2> QED
    BY <2>6, <2>7, JoinNames
<1> QED
  BY <1>1, <1>2

-----------------------------------------------------------------------------
(* The inductive invariant. *)

FoundIn(I) == UNION {Collects(i) : i \in I}
AllFound == FoundIn(1 .. Len(call.paths))

Typed ==
    /\ tree \in Trees /\ call \in Calls
    /\ pc \in {"collect", "hash", "place", "done", "nothing", "failed"}
    /\ arg \in 1 .. Len(call.paths) + 1

\* What the arguments up to the loop variable give, and what unique leaves.
Gathered ==
    /\ pc = "collect" => manifest = {} /\ found = FoundIn(1 .. arg - 1)
    /\ Collected => manifest \in Distinct(found) /\ found = AllFound /\ found # {}
    /\ pc = "nothing" => manifest = {}

\* What is on the receiver's disk is what the records written so far made.
Landed ==
    /\ made.entries \subseteq manifest
    /\ \A e \in made.entries : e.rel \in Seq(Names) /\ e.rel # <<>>
    /\ made.files = {Out \o e.rel : e \in made.entries}
    /\ made.dirs = Ancestors(Out) \cup {Out} \cup UNION {Ancestors(Out \o e.rel) : e \in made.entries}

\* As many files as records.
Counted ==
    /\ IsFiniteSet(made.entries) /\ IsFiniteSet(made.files)
    /\ Cardinality(made.files) = Cardinality(made.entries)

Inv == Typed /\ Gathered /\ Landed /\ Counted

LEMMA CallType ==
    ASSUME Typed
    PROVE  call.paths \in Seq(Path) /\ Len(call.paths) \in Nat
BY ManifestAssumption DEF Typed, ManifestAssumption

LEMMA FoundStable ==
    ASSUME UNCHANGED <<tree, call>>
    PROVE  AllFound' = AllFound
BY CollectsStable DEF AllFound, FoundIn

LEMMA OneMore ==
    ASSUME NEW n \in Nat \ {0}
    PROVE  FoundIn(1 .. n) = FoundIn(1 .. n - 1) \cup Collects(n)
<1>1. \A I, x : x \in FoundIn(I) <=> \E i \in I : x \in Collects(i)
  BY DEF FoundIn
<1>2. 1 .. n = (1 .. n - 1) \cup {n}
  OBVIOUS
<1>3. \A x : x \in FoundIn((1 .. n - 1) \cup {n}) <=> x \in FoundIn(1 .. n - 1) \/ x \in Collects(n)
  <2> TAKE x
  <2>1. (\E i \in (1 .. n - 1) \cup {n} : x \in Collects(i))
        <=> (\E i \in 1 .. n - 1 : x \in Collects(i)) \/ x \in Collects(n)
    BY Zenon
  <2> QED
    BY <1>1, <2>1, Zenon
<1> QED
  BY <1>2, <1>3

LEMMA Initially == Init => Inv
<1> SUFFICES ASSUME Init PROVE Inv
  OBVIOUS
<1>1. call.paths \in Seq(Path) /\ Len(call.paths) \in Nat
  BY ManifestAssumption DEF Init, ManifestAssumption
<1>2. Typed
  BY <1>1 DEF Init, Typed
<1>3. Gathered
  <2>1. 1 .. arg - 1 = {}
    BY DEF Init
  <2> QED
    BY <2>1 DEF Init, Gathered, Collected, FoundIn
<1>4. Landed
  BY DEF Init, Landed
<1>5. Counted
  BY FS_EmptySet DEF Init, Counted
<1> QED
  BY <1>2, <1>3, <1>4, <1>5 DEF Inv

\* A step that reads one more argument adds what that argument gives.
LEMMA NextArgument ==
    ASSUME Inv, pc = "collect", arg <= Len(call.paths), NextArg, pc' = pc,
           found' = found \cup Collects(arg)
    PROVE  Inv'
<1>0. Len(call.paths) \in Nat /\ arg \in Nat \ {0} /\ arg' = arg + 1 /\ arg' - 1 = arg
  BY CallType DEF Inv, Typed, NextArg
<1>1. Typed'
  BY <1>0 DEF Inv, Typed, NextArg
<1>2. \A i : Collects(i)' = Collects(i)
  BY CollectsStable DEF NextArg
<1>3. found' = FoundIn(1 .. arg)
  BY <1>0, OneMore DEF Inv, Gathered
<1>4. found' = UNION {Collects(i)' : i \in 1 .. arg' - 1}
  BY <1>0, <1>2, <1>3 DEF FoundIn
<1>5. Gathered'
  BY <1>4 DEF Inv, Gathered, Collected, NextArg, FoundIn
<1>6. Landed' /\ Counted'
  BY DEF Inv, Landed, Counted, NextArg
<1> QED
  BY <1>1, <1>5, <1>6 DEF Inv

\* What follows the collection leaves what was collected alone.
LEMMA Kept ==
    ASSUME Inv, Collected, Collected', UNCHANGED <<tree, call, arg, found, manifest>>,
           pc' \in {"collect", "hash", "place", "done", "nothing", "failed"}
    PROVE  Typed' /\ Gathered'
<1>1. AllFound' = AllFound
  BY FoundStable
<1>2. Distinct(found)' = Distinct(found)
  BY DEF Distinct
<1>3. Typed'
  BY DEF Inv, Typed
<1>4. Gathered'
  BY <1>1, <1>2 DEF Inv, Gathered, Collected
<1> QED
  BY <1>3, <1>4

\* The rels of a manifest, and that no two records share one.
LEMMA ManifestType ==
    ASSUME Inv, Collected
    PROVE  /\ manifest \subseteq found
           /\ \A e \in manifest : e.rel \in Rels
           /\ \A e, f \in manifest : e.rel = f.rel => e = f
<1>1. manifest \in Distinct(found) /\ found = AllFound
  BY DEF Inv, Gathered
<1>2. manifest \subseteq found /\ \A e, f \in manifest : e.rel = f.rel => e = f
  BY <1>1 DEF Distinct
<1>3. \A e \in found : e.rel \in Rels
  BY <1>1, CollectsType DEF AllFound, FoundIn, Inv, Typed
<1> QED
  BY <1>2, <1>3

LEMMA PlaceKeeps ==
    ASSUME Inv, Place
    PROVE  Inv'
<1>0. Collected /\ Collected'
  BY DEF Place, Collected
<1>1. Typed' /\ Gathered'
  BY <1>0, Kept DEF Place
<1>2. PICK e \in manifest \ made.entries :
          /\ Accepted(e)
          /\ made' = [entries |-> made.entries \cup {e},
                      files |-> made.files \cup {Target(e.rel)},
                      dirs |-> made.dirs \cup Ancestors(Target(e.rel))]
  BY DEF Place
<1>3. e.rel \in Rels /\ \A f \in manifest : e.rel = f.rel => e = f
  BY <1>0, ManifestType
<1>4. Target(e.rel) # Out
  BY <1>2 DEF Accepted, CanCreate, Inv, Landed
<1>5. e.rel \in Seq(Names) /\ e.rel # <<>> /\ Target(e.rel) = Out \o e.rel
  BY <1>2, <1>3, <1>4, Landing DEF Accepted
<1>6. Landed'
  <2>1. made'.entries = made.entries \cup {e} /\ made'.files = made.files \cup {Out \o e.rel}
        /\ made'.dirs = made.dirs \cup Ancestors(Out \o e.rel)
    BY <1>2, <1>5
  <2>2. made'.entries \subseteq manifest'
    BY <2>1 DEF Inv, Landed, Place
  <2>3. \A f \in made'.entries : f.rel \in Seq(Names) /\ f.rel # <<>>
    BY <2>1, <1>5 DEF Inv, Landed
  <2>4. made'.files = {Out \o f.rel : f \in made'.entries}
    BY <2>1 DEF Inv, Landed
  <2>5. made'.dirs = Ancestors(Out) \cup {Out} \cup UNION {Ancestors(Out \o f.rel) : f \in made'.entries}
    BY <2>1 DEF Inv, Landed
  <2> QED
    BY <2>2, <2>3, <2>4, <2>5 DEF Landed, Ancestors
<1>7. Out \o e.rel \notin made.files
  <2> SUFFICES ASSUME NEW f \in made.entries, Out \o e.rel = Out \o f.rel PROVE FALSE
    BY DEF Inv, Landed
  <2>1. f.rel \in Seq(Names) /\ f \in manifest /\ Out \in Seq(Names)
    BY ManifestAssumption DEF Inv, Landed, ManifestAssumption, Places
  <2>2. e.rel = f.rel
    BY <1>5, <2>1, CancelLeft
  <2> QED
    BY <1>2, <1>3, <2>1, <2>2
<1>8. Counted'
  <2>1. /\ IsFiniteSet(made.entries \cup {e})
        /\ Cardinality(made.entries \cup {e}) = Cardinality(made.entries) + 1
    BY FS_AddElement DEF Inv, Counted
  <2>2. /\ IsFiniteSet(made.files \cup {Out \o e.rel})
        /\ Cardinality(made.files \cup {Out \o e.rel}) = Cardinality(made.files) + 1
    BY <1>7, FS_AddElement DEF Inv, Counted
  <2> QED
    BY <1>2, <1>5, <2>1, <2>2 DEF Inv, Counted
<1> QED
  BY <1>1, <1>6, <1>8 DEF Inv

LEMMA Preserved == Inv /\ [Next]_vars => Inv'
<1> SUFFICES ASSUME Inv, [Next]_vars PROVE Inv'
  OBVIOUS
<1>1. CASE CollectFile
  <2>1. found' = found \cup Collects(arg)
    BY <1>1 DEF CollectFile, Collects
  <2> QED
    BY <1>1, <2>1, NextArgument DEF CollectFile
<1>2. CASE CollectMissing
  <2>0. Len(call.paths) \in Nat /\ arg \in Nat \ {0} /\ arg' = arg + 1
    BY <1>2, CallType DEF Inv, Typed, CollectMissing, NextArg
  <2>1. Typed'
    BY <1>2, <2>0 DEF Inv, Typed, CollectMissing, NextArg
  <2>2. Gathered'
    BY <1>2 DEF Inv, Gathered, Collected, CollectMissing, NextArg
  <2>3. Landed' /\ Counted'
    BY <1>2 DEF Inv, Landed, Counted, CollectMissing, NextArg
  <2> QED
    BY <2>1, <2>2, <2>3 DEF Inv
<1>3. CASE SkipDirectory
  <2>1. Collects(arg) = {}
    BY <1>3 DEF SkipDirectory, Collects, Is
  <2> QED
    BY <1>3, <2>1, NextArgument DEF SkipDirectory
<1>4. CASE WalkDirectory
  <2>1. found' = found \cup Collects(arg)
    BY <1>4 DEF WalkDirectory, Collects, Is
  <2> QED
    BY <1>4, <2>1, NextArgument DEF WalkDirectory
<1>5. CASE SortUnique
  <2>0. arg = Len(call.paths) + 1 /\ arg - 1 = Len(call.paths)
    BY <1>5, CallType DEF Inv, Typed, SortUnique
  <2>1. found = AllFound
    BY <1>5, <2>0 DEF Inv, Gathered, SortUnique, AllFound
  <2>2. AllFound' = AllFound
    BY <1>5, FoundStable DEF SortUnique
  <2>3. manifest' \in Distinct(found)' /\ (found = {} => manifest' = {})
    BY <1>5 DEF SortUnique, Distinct
  <2>4. Gathered'
    BY <1>5, <2>1, <2>2, <2>3 DEF SortUnique, Gathered, Collected
  <2>5. Typed'
    BY <1>5 DEF Inv, Typed, SortUnique
  <2>6. Landed' /\ Counted'
    BY <1>5 DEF Inv, Gathered, Landed, Counted, SortUnique
  <2> QED
    BY <2>4, <2>5, <2>6 DEF Inv
<1>6. CASE HashFiles
  <2>1. Typed' /\ Gathered'
    BY <1>6, Kept DEF HashFiles, Collected
  <2>2. Landed' /\ Counted'
    BY <1>6 DEF HashFiles, Inv, Landed, Counted
  <2> QED
    BY <2>1, <2>2 DEF Inv
<1>7. CASE Place
  BY <1>7, PlaceKeeps
<1>8. CASE PlaceFails \/ PlaceDone
  <2>1. Typed' /\ Gathered'
    BY <1>8, Kept DEF PlaceFails, PlaceDone, Collected
  <2>2. Landed' /\ Counted'
    BY <1>8 DEF PlaceFails, PlaceDone, Inv, Landed, Counted
  <2> QED
    BY <2>1, <2>2 DEF Inv
<1>9. CASE UNCHANGED vars
  <2>1. AllFound' = AllFound /\ \A i : Collects(i)' = Collects(i)
    BY <1>9, FoundStable, CollectsStable DEF vars
  <2>2. Gathered'
    BY <1>9, <2>1 DEF Inv, Gathered, Collected, Distinct, FoundIn, vars
  <2>3. Typed' /\ Landed' /\ Counted'
    BY <1>9 DEF Inv, Typed, Landed, Counted, vars
  <2> QED
    BY <2>2, <2>3 DEF Inv
<1> QED
  BY <1>1, <1>2, <1>3, <1>4, <1>5, <1>6, <1>7, <1>8, <1>9 DEF Next

\* The inductive invariant: what CollectFiles gathered comes from the arguments
\* seen so far, what it kept has distinct relative paths, and what ReceiveStream
\* wrote is a record of the manifest at its place below the output directory.
THEOREM Invariance == Spec => []Inv
BY Initially, Preserved, PTL DEF Spec

\* The loop over the arguments, the collected records and the records written
\* keep their types, for every tree and call.
THEOREM TypeCorrect == Spec => []TypeOK
<1>1. Inv => TypeOK
  <2> SUFFICES ASSUME Inv PROVE TypeOK
    OBVIOUS
  <2>1. manifest \subseteq found
    BY ManifestType DEF Inv, Typed, Gathered, Collected
  <2> QED
    BY <2>1 DEF Inv, Typed, Landed, TypeOK
<1> QED
  BY <1>1, Initially, Preserved, PTL DEF Spec

\* However many sources a call names and however their files are called, no
\* file the receiver wrote is written again by another record.
THEOREM NeverOverwritten == Spec => []NoOverwrite
<1>1. Inv => NoOverwrite
  BY DEF Inv, Counted, NoOverwrite
<1> QED
  BY <1>1, Initially, Preserved, PTL DEF Spec

\* Whatever relative paths the sender records, every file the receiver makes
\* is strictly below its output directory.
THEOREM StaysBelow == Spec => []BelowOutput
<1>1. Inv => BelowOutput
  <2> SUFFICES ASSUME Inv, NEW e \in made.entries PROVE Strict(Out, Out \o e.rel)
    BY DEF Inv, Landed, BelowOutput
  <2>1. e.rel \in Seq(Names) /\ e.rel # <<>> /\ Out \in Seq(Names)
    BY ManifestAssumption DEF Inv, Landed, ManifestAssumption, Places
  <2> QED
    BY <2>1, StrictlyBelow
<1> QED
  BY <1>1, Initially, Preserved, PTL DEF Spec

-----------------------------------------------------------------------------
(* One source. *)

LEMMA Split ==
    ASSUME NEW S, NEW dir \in Seq(S), NEW at \in Seq(S), Strict(dir, at)
    PROVE  /\ SubSeq(at, Len(dir) + 1, Len(at)) \in Seq(S) /\ SubSeq(at, Len(dir) + 1, Len(at)) # <<>>
           /\ Len(SubSeq(at, Len(dir) + 1, Len(at))) = Len(at) - Len(dir)
           /\ \A i \in 1 .. Len(at) - Len(dir) : SubSeq(at, Len(dir) + 1, Len(at))[i] = at[Len(dir) + i]
           /\ Len(dir) \in 0 .. Len(at) /\ Len(dir) \in Nat /\ Len(at) \in Nat
           /\ SubSeq(at, 1, Len(dir)) = dir
           /\ at = dir \o SubSeq(at, Len(dir) + 1, Len(at))
<1> DEFINE s == SubSeq(at, Len(dir) + 1, Len(at))
<1>1. Len(dir) \in 0 .. Len(at) /\ Len(dir) \in Nat /\ Len(at) \in Nat /\ Len(at) - Len(dir) \in Nat \ {0}
  BY DEF Strict
<1>2. SubSeq(at, 1, Len(dir)) = dir
  BY SubSeqFull DEF Strict, IsPrefix
<1>3. s \in Seq(S) /\ Len(s) = Len(at) - Len(dir) /\ \A i \in 1 .. Len(at) - Len(dir) : s[i] = at[Len(dir) + i]
  BY <1>1, EndOf
<1>4. s # <<>>
  BY <1>1, <1>3, EmptySeq
<1>5. \A i \in 1 .. Len(dir) : dir[i] = at[i]
  BY <1>1, <1>2, Beginning
<1> HIDE DEF s
<1>6. at = dir \o s
  <2>1. /\ dir \o s \in Seq(S) /\ Len(dir \o s) = Len(dir) + Len(s)
        /\ \A i \in 1 .. Len(dir) + Len(s) : (dir \o s)[i] = IF i <= Len(dir) THEN dir[i] ELSE s[i - Len(dir)]
    BY <1>3, ConcatProperties
  <2>2. Len(dir) + Len(s) = Len(at)
    BY <1>1, <1>3
  <2>3. \A i \in 1 .. Len(at) : (dir \o s)[i] = at[i]
    <3> SUFFICES ASSUME NEW i \in 1 .. Len(at) PROVE (dir \o s)[i] = at[i]
      OBVIOUS
    <3>1. CASE i <= Len(dir)
      BY <1>1, <1>5, <2>1, <2>2, <3>1
    <3>2. CASE ~(i <= Len(dir))
      <4>1. i - Len(dir) \in 1 .. Len(at) - Len(dir) /\ Len(dir) + (i - Len(dir)) = i
        BY <1>1, <3>2
      <4>2. (dir \o s)[i] = s[i - Len(dir)]
        BY <2>1, <2>2, <3>2
      <4>3. s[i - Len(dir)] = at[Len(dir) + (i - Len(dir))]
        BY <1>3, <4>1
      <4> QED
        BY <4>1, <4>2, <4>3
    <3> QED
      BY <3>1, <3>2
  <2> QED
    BY <2>1, <2>2, <2>3, SeqEqual
<1> QED
  BY <1>1, <1>2, <1>3, <1>4, <1>6 DEF s

\* From a directory, the rest of a place's path leads to the place.
LEMMA WalkDown ==
    ASSUME tree \in Trees,
           NEW base \in DOMAIN tree, tree[base].kind = "dir",
           NEW at \in DOMAIN tree, tree[at].kind # "link", Strict(base, at)
    PROVE  Walk(base, SubSeq(at, Len(base) + 1, Len(at))) = at
<1> DEFINE s == SubSeq(at, Len(base) + 1, Len(at))
           n == Len(base)
<1>0. base \in Seq(Names) /\ at \in Seq(Names)
  BY PlaceType
<1>1. /\ s \in Seq(Names) /\ Len(s) = Len(at) - n /\ \A i \in 1 .. Len(at) - n : s[i] = at[n + i]
      /\ n \in Nat /\ Len(at) \in Nat /\ n <= Len(at) /\ SubSeq(at, 1, n) = base
  BY <1>0, Split
<1>2. SubSeq(base, 1, n) = base
  BY <1>0, SubSeqFull
<1>3. s \in Path
  BY <1>1, SeqMonotonic DEF Path
<1> HIDE DEF s
<1>4. n - n = 0 /\ Len(s) = (n - n) + (Len(at) - n) /\ \A i \in 1 .. Len(at) - n : s[(n - n) + i] = at[n + i]
  BY <1>1
<1>5. n <= Len(base) /\ \A i \in 1 .. n - n : s[i] = ".."
  <2>1. 1 .. n - n = {} /\ n <= n
    BY <1>1, <1>4
  <2> QED
    BY <2>1
<1>6. SubSeq(at, 1, n) = SubSeq(base, 1, n)
  BY <1>1, <1>2
<1> HIDE DEF n
<1>7. Walk(base, s) = at
  BY <1>1, <1>3, <1>4, <1>5, <1>6, WalkAlong DEF n
<1> QED
  BY <1>7 DEF s

\* And it is what fs::relative gives.
LEMMA RelativeDown ==
    ASSUME NEW base \in Places, NEW at \in Places, Strict(base, at)
    PROVE  LexicallyRelative(at, base) = SubSeq(at, Len(base) + 1, Len(at))
<1> DEFINE n == Len(LongestCommonPrefix({at, base}))
           s == SubSeq(at, Len(base) + 1, Len(at))
<1>1. /\ s \in Seq(Names) /\ s # <<>> /\ Len(base) \in 0 .. Len(at) /\ Len(base) \in Nat
      /\ SubSeq(at, 1, Len(base)) = base
  BY Split DEF Places
<1>2. SubSeq(base, 1, Len(base)) = base
  BY SubSeqFull DEF Places
<1>3. Shared(at, base, n)
  BY CommonPrefix
<1> HIDE DEF n
<1>4. n = Len(base)
  <2>1. SubSeq(at, 1, Len(base)) = SubSeq(base, 1, Len(base)) /\ Len(base) <= Len(base)
    BY <1>1, <1>2
  <2>2. Len(base) <= n
    BY <1>1, <1>3, <2>1 DEF Shared
  <2>3. n \in Int /\ n <= Len(base)
    BY <1>3 DEF Shared
  <2>4. Len(base) \in Int
    BY <1>1
  <2> QED
    BY <2>2, <2>3, <2>4
<1> DEFINE ups == [i \in 1 .. Len(base) - n |-> ".."]
<1>5. ups = <<>>
  BY <1>1, <1>4
<1> HIDE DEF ups
<1>6. ups \o s = s
  BY <1>1, <1>5, ConcatEmptySeq
<1>7. LexicallyRelative(at, base) = IF ups \o s = <<>> THEN <<".">> ELSE ups \o s
  BY <1>4 DEF LexicallyRelative, ups, n
<1> QED
  BY <1>1, <1>6, <1>7

LEMMA OneArgument ==
    ASSUME Inv, Collected, OneSource
    PROVE  /\ found = Collects(1) /\ Len(call.paths) = 1
           /\ call.paths[1] \in Path /\ call.paths[1] # <<>>
           /\ \A default : Prefix(default) = default
           /\ Cwd \in Reached /\ Canonical(call.paths[1]) = Walk(Cwd, call.paths[1])
<1>1. Len(call.paths) = 1
  BY DEF OneSource
<1>2. found = FoundIn(1 .. 1)
  BY <1>1 DEF Inv, Gathered, AllFound
<1>3. 1 .. 1 = {1}
  OBVIOUS
<1>4. found = Collects(1)
  BY <1>2, <1>3 DEF FoundIn
<1>5. call.paths \in Seq(Path) /\ call.paths[1] # NoPath
  BY <1>1, ManifestAssumption DEF Inv, Typed, ManifestAssumption
<1>6. call.paths[1] \in Path
  BY <1>1, <1>5, ElementOfSeq
<1>7. Cwd \in Reached
  BY ManifestAssumption DEF ManifestAssumption, Reached
<1> QED
  BY <1>1, <1>4, <1>5, <1>6, <1>7 DEF OneSource, Prefix, NoPath, Canonical

\* With one directory every record is of a file, its path the way from the
\* directory to the file, and that way leads back.
LEMMA OneDirectory ==
    ASSUME Inv, Collected, OneSource, Is(call.paths[1], "dir")
    PROVE  LET base == Canonical(call.paths[1])
           IN /\ base \in DOMAIN tree /\ tree[base].kind = "dir" /\ call.recursive
              /\ found = {EntryOf(x, call.paths[1]) : x \in
                             {y \in Visited(call.paths[1], call.follow_symlinks) : Is(y, "file")}}
              /\ \A e \in found :
                    /\ e.src \in DOMAIN tree /\ tree[e.src].kind = "file"
                    /\ e.rel = LexicallyRelative(e.src, base)
                    /\ ResolveOnDisk(e) = Walk(base, e.rel)
                    /\ ResolveOnDisk(e) = e.src
<1> DEFINE p == call.paths[1]
           base == Canonical(p)
<1>1. /\ found = Collects(1) /\ Len(call.paths) = 1 /\ p \in Path /\ p # <<>>
      /\ \A default : Prefix(default) = default
      /\ Cwd \in Reached /\ base = Walk(Cwd, p)
  BY OneArgument
<1>2. tree \in Trees
  BY DEF Inv, Typed
<1>3. base \in DOMAIN tree /\ tree[base].kind = "dir"
  BY <1>2, FilePlace
<1>4. call.recursive /\ found = {EntryOf(x, p) : x \in {y \in Visited(p, call.follow_symlinks) : Is(y, "file")}}
  BY <1>1 DEF Collects, Is, Inv, Gathered
<1>5. ASSUME NEW e \in found
      PROVE  /\ e.src \in DOMAIN tree /\ tree[e.src].kind = "file"
             /\ e.rel = LexicallyRelative(e.src, base)
             /\ ResolveOnDisk(e) = Walk(base, e.rel)
             /\ ResolveOnDisk(e) = e.src
  <2>1. PICK x : x \in Visited(p, call.follow_symlinks) /\ Is(x, "file") /\ e = EntryOf(x, p)
    BY <1>4
  <2>2. e.rel = MakeRelPath(x, p) /\ e.src = Canonical(x)
    BY <2>1 DEF EntryOf
  <2>3. Canonical(x) \in DOMAIN tree /\ tree[Canonical(x)].kind = "file"
    BY <1>2, <2>1, FilePlace
  <2>4. e.rel = LexicallyRelative(e.src, base)
    BY <1>1, <2>2 DEF MakeRelPath, Is, NoPath
  <2>5. e.rel \in Path /\ Walk(base, e.rel) = e.src
    BY <1>2, <1>3, <2>2, <2>3, <2>4, RelativeLeadsBack
  <2>6. ResolveOnDisk(e) = Canonical(p \o e.rel)
    BY <1>1 DEF ResolveOnDisk
  <2>7. Walk(Cwd, p \o e.rel) = Walk(base, e.rel)
    BY <1>1, <1>2, <2>5, WalkConcat
  <2> QED
    BY <2>2, <2>3, <2>4, <2>5, <2>6, <2>7 DEF Canonical
<1> QED
  BY <1>3, <1>4, <1>5

LEMMA OneFile ==
    ASSUME Inv, Collected, OneSource, ~Is(call.paths[1], "dir")
    PROVE  /\ Is(call.paths[1], "file")
           /\ found = {EntryOf(call.paths[1], ParentPath(call.paths[1]))}
           /\ \A e \in found : ResolveOnDisk(e) = e.src /\ e.src = Canonical(call.paths[1])
<1>1. found = Collects(1) /\ Len(call.paths) = 1 /\ \A default : Prefix(default) = default
  BY OneArgument
<1>2. found # {}
  BY DEF Inv, Gathered
<1>3. Is(call.paths[1], "file")
  BY <1>1, <1>2 DEF Collects
<1>4. found = {EntryOf(call.paths[1], ParentPath(call.paths[1]))}
  BY <1>1, <1>3 DEF Collects
<1>5. \A e \in found : e.src = Canonical(call.paths[1])
  BY <1>4 DEF EntryOf
<1>6. \A e \in found : ResolveOnDisk(e) = Canonical(call.paths[1])
  BY <1>1, <1>3 DEF ResolveOnDisk
<1> QED
  BY <1>3, <1>4, <1>5, <1>6

LEMMA Resolves == Inv => OneSourceResolves
<1> SUFFICES ASSUME Inv, Collected, OneSource, NEW e \in manifest
             PROVE  ResolveOnDisk(e) = e.src
  BY DEF OneSourceResolves
<1>1. e \in found
  BY ManifestType
<1>2. CASE Is(call.paths[1], "dir")
  BY <1>1, <1>2, OneDirectory
<1>3. CASE ~Is(call.paths[1], "dir")
  BY <1>1, <1>3, OneFile
<1> QED
  BY <1>2, <1>3

\* In every tree and for every single source, a record's path leads
\* ResolveOnDisk back to the file the record was made from.
THEOREM OneSourceIsResolved == Spec => []OneSourceResolves
BY Resolves, Initially, Preserved, PTL DEF Spec

\* In every tree, each regular file below the one directory a call names has
\* exactly one record, whatever links there are and whatever sort and unique do.
THEOREM EachFileSentOnce == Spec => []EachFileOnce
<1>1. Inv => EachFileOnce
  <2> SUFFICES ASSUME Inv, Collected, OneSource, Is(call.paths[1], "dir"), NEW at \in DOMAIN tree,
                      Kind(at) = "file", Strict(Canonical(call.paths[1]), at)
               PROVE  Cardinality({e \in manifest : e.src = at}) = 1
    BY DEF EachFileOnce
  <2> DEFINE p == call.paths[1]
             base == Canonical(p)
             s == SubSeq(at, Len(base) + 1, Len(at))
  <2>0. tree \in Trees
    BY DEF Inv, Typed
  <2>1. /\ base \in DOMAIN tree /\ tree[base].kind = "dir"
        /\ found = {EntryOf(x, p) : x \in {y \in Visited(p, call.follow_symlinks) : Is(y, "file")}}
        /\ \A e \in found : /\ e.rel = LexicallyRelative(e.src, base)
                            /\ ResolveOnDisk(e) = Walk(base, e.rel)
                            /\ ResolveOnDisk(e) = e.src
    BY OneDirectory
  <2>2. p \in Path /\ Cwd \in Reached /\ base = Walk(Cwd, p)
    BY OneArgument
  <2>3. tree[at].kind = "file"
    BY DEF Kind
  <2>4. Walk(base, s) = at
    BY <2>0, <2>1, <2>3, WalkDown
  <2>5. s \in Path
    <3>1. base \in Seq(Names) /\ at \in Seq(Names)
      BY <2>0, <2>1, PlaceType
    <3>2. s \in Seq(Names)
      BY <3>1, Split
    <3> QED
      BY <3>2, SeqMonotonic DEF Path
  <2>6. p \o s \in Visited(p, call.follow_symlinks)
    <3>1. s \in Under(base)
      BY DEF Under
    <3>2. base \in Places
      BY <2>0, <2>1, PlaceType DEF Places
    <3>3. s \in Ways(p, call.follow_symlinks)
      BY <2>0, <3>1, <3>2, WaysType
    <3> QED
      BY <3>3 DEF Visited
  <2>7. Canonical(p \o s) = at
    BY <2>0, <2>2, <2>4, <2>5, WalkConcat DEF Canonical
  <2>8. EntryOf(p \o s, p) \in found /\ EntryOf(p \o s, p).src = at
    <3>1. Is(p \o s, "file")
      BY <2>7 DEF Is
    <3> HIDE DEF p, s
    <3> QED
      BY <2>1, <2>6, <2>7, <3>1 DEF EntryOf
  <2> DEFINE meant == EntryOf(p \o s, p)
  <2> HIDE DEF meant
  <2>9. PICK e \in manifest : e.rel = meant.rel
    <3>1. meant \in found
      BY <2>8 DEF meant
    <3>2. {e.rel : e \in manifest} = {e.rel : e \in found}
      BY DEF Inv, Gathered, Distinct
    <3> QED
      BY <3>1, <3>2
  <2>10. manifest \subseteq found /\ \A e1, e2 \in manifest : e1.rel = e2.rel => e1 = e2
    BY ManifestType
  <2> HIDE DEF p, base, s
  <2>11. e.src = at
    BY <2>1, <2>8, <2>9, <2>10 DEF meant
  <2>12. \A f \in manifest : f.src = at => f = e
    BY <2>1, <2>10, <2>11
  <2>13. {f \in manifest : f.src = at} = {e}
    BY <2>11, <2>12
  <2> QED
    BY <2>13, FS_Singleton
<1> QED
  BY <1>1, Initially, Preserved, PTL DEF Spec

-----------------------------------------------------------------------------
(* A source no link leads out of. *)

LEMMA BeginningOfConcat ==
    ASSUME NEW S, NEW s \in Seq(S), NEW t \in Seq(S), NEW n \in 0 .. Len(t)
    PROVE  /\ SubSeq(s \o t, 1, Len(s) + n) = s \o SubSeq(t, 1, n)
           /\ Len(s) \in Nat /\ Len(s \o t) = Len(s) + Len(t)
<1>1. Len(s) \in Nat /\ Len(t) \in Nat /\ n \in Nat
  OBVIOUS
<1>2. /\ s \o t \in Seq(S) /\ Len(s \o t) = Len(s) + Len(t)
      /\ \A i \in 1 .. Len(s) + Len(t) : (s \o t)[i] = IF i <= Len(s) THEN s[i] ELSE t[i - Len(s)]
  BY ConcatProperties
<1>3. Len(s) + n \in 0 .. Len(s \o t)
  BY <1>1, <1>2
<1> DEFINE a == SubSeq(s \o t, 1, Len(s) + n)
           b == SubSeq(t, 1, n)
<1>4. a \in Seq(S) /\ Len(a) = Len(s) + n /\ \A i \in 1 .. Len(s) + n : a[i] = (s \o t)[i]
  BY <1>2, <1>3, Beginning
<1>5. b \in Seq(S) /\ Len(b) = n /\ \A i \in 1 .. n : b[i] = t[i]
  BY Beginning
<1> HIDE DEF a, b
<1>6. /\ s \o b \in Seq(S) /\ Len(s \o b) = Len(s) + Len(b)
      /\ \A i \in 1 .. Len(s) + Len(b) : (s \o b)[i] = IF i <= Len(s) THEN s[i] ELSE b[i - Len(s)]
  BY <1>5, ConcatProperties
<1>7. \A i \in 1 .. Len(s) + n : a[i] = (s \o b)[i]
  <2> SUFFICES ASSUME NEW i \in 1 .. Len(s) + n PROVE a[i] = (s \o b)[i]
    OBVIOUS
  <2>1. i \in 1 .. Len(s) + Len(t)
    BY <1>1
  <2>2. CASE i <= Len(s)
    BY <1>2, <1>4, <1>5, <1>6, <2>1, <2>2
  <2>3. CASE ~(i <= Len(s))
    <3>1. i - Len(s) \in 1 .. n
      BY <1>1, <2>3
    <3>2. a[i] = t[i - Len(s)]
      BY <1>2, <1>4, <2>1, <2>3
    <3>3. (s \o b)[i] = b[i - Len(s)]
      BY <1>5, <1>6, <2>3
    <3> QED
      BY <1>5, <3>1, <3>2, <3>3
  <2> QED
    BY <2>2, <2>3
<1>8. a = s \o b
  BY <1>4, <1>5, <1>6, <1>7, SeqEqual
<1> QED
  BY <1>1, <1>2, <1>8 DEF a, b

\* One place is above another below a directory when their ways are.
LEMMA Nested ==
    ASSUME NEW S, NEW s \in Seq(S), NEW r \in Seq(S), NEW t \in Seq(S),
           s \o r \in Ancestors(s \o t)
    PROVE  r \in Ancestors(t)
<1>1. PICK n \in 0 .. Len(s \o t) - 1 : s \o r = SubSeq(s \o t, 1, n)
  BY DEF Ancestors
<1>2. /\ Len(s) \in Nat /\ Len(r) \in Nat /\ Len(t) \in Nat
      /\ s \o r \in Seq(S) /\ Len(s \o r) = Len(s) + Len(r)
      /\ s \o t \in Seq(S) /\ Len(s \o t) = Len(s) + Len(t)
  BY ConcatProperties
<1>3. n = Len(s) + Len(r)
  <2>1. n \in 0 .. Len(s \o t)
    BY <1>2
  <2>2. Len(SubSeq(s \o t, 1, n)) = n
    BY <1>2, <2>1, Beginning
  <2> QED
    BY <1>1, <1>2, <2>2
<1>4. Len(r) \in 0 .. Len(t) - 1 /\ Len(r) \in 0 .. Len(t)
  BY <1>2, <1>3
<1>5. s \o r = s \o SubSeq(t, 1, Len(r))
  BY <1>1, <1>3, <1>4, BeginningOfConcat
<1>6. SubSeq(t, 1, Len(r)) \in Seq(S)
  BY <1>4, Beginning
<1>7. r = SubSeq(t, 1, Len(r))
  BY <1>5, <1>6, CancelLeft
<1> QED
  BY <1>4, <1>7 DEF Ancestors

\* A file is not above another file.
LEMMA FilesNotNested ==
    ASSUME tree \in Trees, NEW base \in Places, NEW r \in Seq(Names), NEW t \in Seq(Names),
           Kind(base \o r) = "file", base \o t \in DOMAIN tree
    PROVE  r \notin Ancestors(t)
<1> SUFFICES ASSUME NEW n \in 0 .. Len(t) - 1, r = SubSeq(t, 1, n) PROVE FALSE
  BY DEF Ancestors
<1>1. Len(t) \in Nat /\ n \in 0 .. Len(t)
  OBVIOUS
<1>2. /\ SubSeq(base \o t, 1, Len(base) + n) = base \o r
      /\ Len(base) \in Nat /\ Len(base \o t) = Len(base) + Len(t)
  BY <1>1, BeginningOfConcat DEF Places
<1>3. Len(base) + n \in 0 .. Len(base \o t) - 1
  BY <1>1, <1>2
<1>4. Kind(base \o r) = "dir"
  BY <1>2, <1>3, InDirectories
<1> QED
  BY <1>4

\* A path of names is accepted unless a file that was made is above it or
\* below it.
LEMMA Free ==
    ASSUME "\\" \notin Names, Landed, NEW e, e.rel \in Seq(Names), e.rel # <<>>,
           \A f \in made.entries : e.rel \notin Ancestors(f.rel) /\ f.rel \notin Ancestors(e.rel)
    PROVE  Accepted(e)
<1> DEFINE r == e.rel
<1>1. Out \in Seq(Names)
  BY ManifestAssumption DEF ManifestAssumption, Places
<1>2. Target(r) = Out \o r
  BY JoinNames
<1>3. Valid(r)
  <2>1. \A i \in 1 .. Len(r) : r[i] \in Names
    BY ElementOfSeq
  <2>2. ".." \notin Names /\ "/" \notin Names
    BY ManifestAssumption DEF ManifestAssumption, Special
  <2> QED
    BY <2>1, <2>2 DEF Valid
<1>4. Len(Out) \in Nat /\ Len(Out \o r) = Len(Out) + Len(r) /\ Len(r) \in Nat \ {0}
  BY <1>1, ConcatProperties, EmptySeq
<1>5. Out \o r # Out
  BY <1>4
<1>6. Out \o r \notin Ancestors(Out)
  <2> SUFFICES ASSUME NEW n \in 0 .. Len(Out) - 1, Out \o r = SubSeq(Out, 1, n) PROVE FALSE
    BY DEF Ancestors
  <2>1. n \in 0 .. Len(Out)
    BY <1>4
  <2>2. Len(SubSeq(Out, 1, n)) = n
    BY <1>1, <2>1, Beginning
  <2>3. Len(Out) + Len(r) = n
    BY <1>4, <2>2
  <2> QED
    BY <1>4, <2>1, <2>3
<1>7. \A f \in made.entries : f.rel \in Seq(Names)
  BY DEF Landed
<1>8. \A f \in made.entries : Out \o r \notin Ancestors(Out \o f.rel)
  BY <1>1, <1>7, Nested
<1>9. \A f \in made.entries : Out \o f.rel \notin Ancestors(Out \o r)
  BY <1>1, <1>7, Nested
<1> HIDE DEF r
<1>10. Out \o r \notin made.dirs
  BY <1>5, <1>6, <1>8 DEF Landed
<1>11. Ancestors(Out \o r) \cap made.files = {}
  BY <1>9 DEF Landed
<1> QED
  BY <1>2, <1>3, <1>10, <1>11 DEF Accepted, CanCreate, r

\* A file named without a directory, or in one that does not exist, has a name.
LEMMA NamedFile ==
    ASSUME tree \in Trees, NEW p \in Path, p # <<>>, Is(p, "file"),
           ParentPath(p) = NoPath \/ Is(ParentPath(p), "none")
    PROVE  Last(p) \in Names
<1> DEFINE x == Last(p)
           front == SubSeq(p, 1, Len(p) - 1)
<1>1. Len(p) \in Nat \ {0} /\ x \in Names \cup Special /\ x = p[Len(p)]
  BY EmptySeq, ElementOfSeq DEF Path, Last
<1>2. Cwd \in Reached /\ Cwd \in DOMAIN tree /\ Kind(Cwd) = "dir" /\ <<>> \in DOMAIN tree /\ Kind(<<>>) = "dir"
      /\ Nowhere \notin DOMAIN tree /\ Kind(Nowhere) = "none"
  BY ManifestAssumption DEF ManifestAssumption, WellFormed, Reached, Kind
<1>3. front \in Path /\ Len(front) = Len(p) - 1 /\ p = front \o <<x>>
  <2>1. /\ Front(p) = front /\ front \in Path /\ Len(front) = Len(p) - 1
        /\ \A i \in 1 .. Len(p) - 1 : front[i] = p[i]
    BY FrontOfPlace DEF Path
  <2> HIDE DEF front
  <2>2. <<x>> \in Path /\ Len(<<x>>) = 1 /\ <<x>>[1] = x
    BY <1>1, OneElement DEF Path
  <2>3. /\ front \o <<x>> \in Path /\ Len(front \o <<x>>) = Len(front) + 1
        /\ \A i \in 1 .. Len(front) + 1 :
              (front \o <<x>>)[i] = IF i <= Len(front) THEN front[i] ELSE <<x>>[i - Len(front)]
    BY <2>1, <2>2, ConcatProperties DEF Path
  <2>4. \A i \in 1 .. Len(p) : (front \o <<x>>)[i] = p[i]
    <3> SUFFICES ASSUME NEW i \in 1 .. Len(p) PROVE (front \o <<x>>)[i] = p[i]
      OBVIOUS
    <3>1. CASE i = Len(p)
      BY <1>1, <2>1, <2>2, <2>3, <3>1
    <3>2. CASE i # Len(p)
      BY <1>1, <2>1, <2>3, <3>2
    <3> QED
      BY <3>1, <3>2
  <2>5. Len(front \o <<x>>) = Len(p)
    BY <1>1, <2>1, <2>3
  <2>6. front \o <<x>> = p
    BY <2>3, <2>4, <2>5, SeqEqual DEF Path
  <2> QED
    BY <2>1, <2>6
<1> HIDE DEF x, front
<1>4. <<x>> \in Path /\ Len(<<x>>) = 1 /\ <<x>>[1] = x
  BY <1>1, OneElement DEF Path
<1>5. Canonical(p) = Walk(Walk(Cwd, front), <<x>>) /\ Walk(Cwd, front) \in Reached
  BY <1>2, <1>3, <1>4, WalkConcat DEF Canonical
<1> DEFINE at == Walk(Cwd, front)
<1> HIDE DEF at
<1>6. Canonical(p) = Enter(at, x)
  <2>1. PICK w : IsTrace(w, at, <<x>>)
    BY <1>4, <1>5, TraceExists DEF at
  <2>2. Walk(at, <<x>>) = w[1]
    BY <1>4, <1>5, <2>1, WalkTrace DEF at
  <2>3. w[0] = at /\ w[1] = Enter(w[0], x)
    <3>1. 1 \in 1 .. Len(<<x>>) /\ 1 - 1 = 0
      BY <1>4
    <3>2. w[1] = Enter(w[1 - 1], <<x>>[1])
      BY <2>1, <3>1 DEF IsTrace
    <3> QED
      BY <1>4, <2>1, <3>1, <3>2 DEF IsTrace
  <2> QED
    BY <1>5, <2>2, <2>3 DEF at
<1>7. Kind(Enter(at, x)) = "file"
  BY <1>6 DEF Is
<1>8. x # "/" /\ Kind(at) = "dir"
  BY <1>2, <1>7 DEF Enter
<1>9. x \notin {"", "."}
  BY <1>7, <1>8 DEF Enter
<1>10. x # ".."
  <2> SUFFICES ASSUME x = ".." PROVE FALSE
    OBVIOUS
  <2>1. Enter(at, x) = IF at = <<>> THEN at ELSE Front(at)
    BY <1>8 DEF Enter
  <2>2. at \in DOMAIN tree
    BY <1>8 DEF Kind
  <2>3. at # <<>> => Front(at) \in DOMAIN tree /\ tree[Front(at)].kind = "dir"
    BY <2>2, PlaceType
  <2> QED
    BY <1>2, <1>7, <2>1, <2>3 DEF Kind
<1> QED
  BY <1>1, <1>8, <1>9, <1>10 DEF x, Special

\* When every file of the one source is below it, every record is accepted.
LEMMA ClosedIsAccepted ==
    ASSUME "\\" \notin Names, Inv, Collected, OneSource,
           \A e \in found : Strict(Canonical(Source), e.src),
           NEW e \in manifest \ made.entries
    PROVE  Accepted(e)
<1> DEFINE p == call.paths[1]
<1>0. tree \in Trees /\ made.entries \subseteq manifest /\ manifest \subseteq found /\ e \in found
  BY ManifestType DEF Inv, Typed, Landed
<1>1. p \in Path /\ p # <<>> /\ Cwd \in Reached /\ Canonical(p) = Walk(Cwd, p)
  BY OneArgument
<1>2. CASE Is(p, "dir")
  <2> DEFINE base == Canonical(p)
  <2>1. /\ base \in DOMAIN tree /\ base \in Places
        /\ \A f \in found : /\ f.src \in DOMAIN tree /\ tree[f.src].kind = "file"
                            /\ f.rel = LexicallyRelative(f.src, base)
    BY <1>0, <1>2, OneDirectory, PlaceType DEF Places
  <2>2. ASSUME NEW f \in found
        PROVE  f.rel \in Seq(Names) /\ f.rel # <<>> /\ Kind(base \o f.rel) = "file" /\ base \o f.rel \in DOMAIN tree
    <3>1. Strict(base, f.src)
      BY <1>2 DEF Source
    <3>2. f.src \in Places
      BY <1>0, <2>1, PlaceType DEF Places
    <3>3. f.rel = SubSeq(f.src, Len(base) + 1, Len(f.src))
      BY <2>1, <3>1, <3>2, RelativeDown
    <3>4. base \in Seq(Names) /\ f.src \in Seq(Names)
      BY <2>1, <3>2 DEF Places
    <3>5. f.rel \in Seq(Names) /\ f.rel # <<>> /\ f.src = base \o f.rel
      <4> HIDE DEF base
      <4> QED
        BY <3>1, <3>3, <3>4, Split, SMTT(30)
    <3> QED
      BY <2>1, <3>5 DEF Kind
  <2> HIDE DEF base
  <2>3. \A f \in made.entries : e.rel \notin Ancestors(f.rel) /\ f.rel \notin Ancestors(e.rel)
    BY <1>0, <2>1, <2>2, FilesNotNested
  <2> QED
    BY <1>0, <2>2, <2>3, Free DEF Inv
<1>3. CASE ~Is(p, "dir")
  <2> DEFINE above == ParentPath(p)
  <2>1. Is(p, "file") /\ found = {EntryOf(p, above)} /\ e.src = Canonical(p)
    BY <1>0, <1>3, OneFile
  <2>2. e = EntryOf(p, above) /\ made.entries = {}
    BY <1>0, <2>1
  <2>3. Strict(Canonical(above), Canonical(p))
    BY <1>0, <1>3, <2>1 DEF Source
  <2>4. Canonical(p) \in DOMAIN tree /\ tree[Canonical(p)].kind = "file" /\ Canonical(p) \in Places
    BY <1>0, <2>1, FilePlace
  <2>5. CASE above # NoPath /\ ~Is(above, "none")
    <3>1. e.rel = LexicallyRelative(Canonical(p), Canonical(above))
      BY <2>2, <2>5 DEF EntryOf, MakeRelPath
    <3>2. Canonical(above) \in Places
      BY <1>0, <2>5, DirIsPlace DEF Is
    <3>3. e.rel = SubSeq(Canonical(p), Len(Canonical(above)) + 1, Len(Canonical(p)))
      BY <2>3, <2>4, <3>1, <3>2, RelativeDown
    <3>4. e.rel \in Seq(Names) /\ e.rel # <<>>
      BY <2>3, <2>4, <3>2, <3>3, Split DEF Places
    <3> QED
      BY <2>2, <3>4, Free DEF Inv
  <2>6. CASE ~(above # NoPath /\ ~Is(above, "none"))
    <3>1. Last(p) \in Names
      BY <1>0, <1>1, <2>1, <2>6, NamedFile
    <3>2. e.rel = <<Last(p)>>
      BY <2>2, <2>6 DEF EntryOf, MakeRelPath
    <3>3. e.rel \in Seq(Names) /\ e.rel # <<>>
      BY <3>1, <3>2, OneElement
    <3> QED
      BY <2>2, <3>3, Free DEF Inv
  <2> QED
    BY <2>5, <2>6
<1> QED
  BY <1>2, <1>3

LEMMA SourceStable ==
    ASSUME UNCHANGED <<tree, call>>
    PROVE  Canonical(Source)' = Canonical(Source)
<1>1. Source' = Source
  BY Stable DEF Source
<1> QED
  BY <1>1, WalkStable DEF Canonical

\* From one source whose files are all below it, in any tree, every record is
\* accepted by the receiver, in whatever order records arrive; but for a file
\* whose name is a single backslash, which ValidateAndJoin rejects.
THEOREM ClosedSourceIsAccepted ==
    ASSUME "\\" \notin Names
    PROVE  Spec => []ClosedSourceArrives
<1>1. Inv /\ ClosedSourceArrives /\ [Next]_vars => ClosedSourceArrives'
  <2> SUFFICES ASSUME Inv, ClosedSourceArrives, [Next]_vars, pc' = "failed", OneSource'
               PROVE  (\E e \in found : ~Strict(Canonical(Source), e.src))'
    BY DEF ClosedSourceArrives
  <2>1. CASE pc = "failed"
    <3>1. UNCHANGED vars
      BY <2>1 DEF Next, CollectFile, CollectMissing, SkipDirectory, WalkDirectory, SortUnique,
                  HashFiles, Place, PlaceFails, PlaceDone
    <3>2. Canonical(Source)' = Canonical(Source) /\ OneSource
      BY <3>1, SourceStable DEF vars, OneSource
    <3> QED
      BY <2>1, <3>1, <3>2 DEF ClosedSourceArrives, vars
  <2>2. CASE HashFiles /\ pc # "failed"
    <3>1. PICK e \in manifest : Kind(ResolveOnDisk(e)) # "file"
      BY <2>2 DEF HashFiles
    <3>2. Collected /\ OneSource /\ e \in found
      BY <2>2, ManifestType DEF HashFiles, Collected, OneSource
    <3>3. Kind(ResolveOnDisk(e)) = "file"
      <4>1. CASE Is(call.paths[1], "dir")
        BY <3>2, <4>1, OneDirectory DEF Kind
      <4>2. CASE ~Is(call.paths[1], "dir")
        BY <3>2, <4>2, OneFile DEF Is
      <4> QED
        BY <4>1, <4>2
    <3> QED
      BY <3>1, <3>3
  <2>3. CASE PlaceFails
    <3>1. PICK e \in manifest \ made.entries : ~Accepted(e)
      BY <2>3 DEF PlaceFails
    <3>2. Collected /\ OneSource
      BY <2>3 DEF PlaceFails, Collected, OneSource
    <3>3. \E f \in found : ~Strict(Canonical(Source), f.src)
      BY <3>1, <3>2, ClosedIsAccepted
    <3>4. Canonical(Source)' = Canonical(Source) /\ found' = found
      BY <2>3, SourceStable DEF PlaceFails
    <3> QED
      BY <3>3, <3>4
  <2> QED
    BY <2>1, <2>2, <2>3 DEF Next, CollectFile, CollectMissing, SkipDirectory, WalkDirectory, SortUnique,
                            Place, PlaceDone, vars
<1>2. Init => ClosedSourceArrives
  BY DEF Init, ClosedSourceArrives
<1> QED
  BY <1>1, <1>2, Initially, Preserved, PTL DEF Spec
=============================================================================
