--------------------------- MODULE SharingProofs ---------------------------
(***************************************************************************)
(* Theorems about Sharing for any users, names, trees and numbers of       *)
(* requests.                                                               *)
(*                                                                         *)
(* First paths: what Lookup, a recursion along the path, does is shown by  *)
(* induction, which the least element of a set of numbers provides.  Then  *)
(* what one thread's step changes, and what it leaves the others; and then *)
(* the copies, call by call.                                               *)
(***************************************************************************)
EXTENDS Sharing, SequenceTheorems, WellFoundedInduction, TLAPS

Nodes == Users \cup 1 .. Len(data)
Files == (1 .. Len(data)) \ dirs

\* The paths, of whatever depth, in the directory of u.
Under(u) == {p \in Seq(Users \cup Names) :
    /\ Len(p) >= 1 /\ p[1] = u
    /\ \A i \in 2 .. Len(p) : p[i] \in Names}
Offered == {p \in Seq(Users \cup Names) :
    /\ Len(p) >= 2 /\ p[1] \in Users
    /\ \A i \in 2 .. Len(p) : p[i] \in Names}

Stored ==
    /\ data \in Seq(Seq(Users \X Nat))
    /\ Users \subseteq dirs /\ dirs \subseteq Nodes
    /\ link \in [DOMAIN link -> 1 .. Len(data)]
    /\ DOMAIN link \subseteq dirs \X Names
    /\ \A e, f \in DOMAIN link : link[e] = link[f] => e = f
    /\ \A d \in dirs \ Users : data[d] = << >>

Calling == {"isDir", "exists", "createDir", "opendir", "readdir", "stat", "openIn", "openOut", "read"}
Frames == [src : Offered, dst : Offered, dir : Users \cup Nat, seen : SUBSET Names]
Uploads == [op : {"upload"}, node : Nat, left : Nat \ {0}, no : Nat]
Deletes == [op : {"delete"}, path : Offered]
Copies == [op : {"copy"}, pc : Calling, src : Offered, dst : Offered, frames : Seq(Frames),
           in : Nat \cup {NoNode}, out : Nat \cup {NoNode}, off : Nat, clean : BOOLEAN]
Typed ==
    /\ work \in [Users -> {Idle} \cup Uploads \cup Deletes \cup Copies]
    /\ changes \in Nat
    /\ notes \in [Users -> Seq(Offered)]
    /\ offers \in [Users -> SUBSET Offered]
    /\ \A u \in Users : \A i \in 1 .. Len(notes[u]) : notes[u][i] \in offers[u]
    /\ brought \in [Users -> SUBSET (Users \X Nat)]

\* Whose directory a node is in, or was in last.
Tree(own) ==
    /\ own \in [Nodes -> Users]
    /\ \A u \in Users : own[u] = u
    /\ \A e \in DOMAIN link : own[link[e]] = own[e[1]]

\* A thread writes to files of its user; ...
Holds(own) == \A u \in Users :
    /\ work[u].op = "upload" => work[u].node \in Files /\ own[work[u].node] = u
    /\ At(u, "read") => work[u].out \in Files /\ own[work[u].out] = u

\* ... and these have in them what he uploaded or was given, or what came with
\* a name that someone else has typed.
Contents(own) == \A x \in 1 .. Len(data) : \A b \in ToSet(data[x]) :
    b[1] = own[x] \/ b \in given[own[x]] \cup brought[own[x]]

Apart == \E own \in [Nodes -> Users] : Tree(own) /\ Holds(own) /\ Contents(own)

\* What a user was offered, and what has been there, is remembered.
Exposed == \A u \in Users :
    /\ \A p \in offers[u] : NodesAt(link, p) \subseteq exposed[u]
    /\ \A x \in exposed[u] \ dirs : ToSet(data[x]) \subseteq given[u]

\* Where a copy reads and writes, and how far it is.
IsOffered(u, p) == \E q \in offers[u] : IsPrefix(q, p)
Copying(u) == LET w == work[u] IN
    /\ IsOffered(u, w.src)
    /\ w.dst \in Under(u) /\ Node(Front(w.dst)) \in dirs
    /\ w.pc = "opendir" => Node(w.dst) \in dirs
    /\ w.pc \in {"isDir", "exists"} => w.frames = << >>
    /\ w.pc = "readdir" => w.frames # << >>
    /\ w.pc \in {"openOut", "read"} => w.in \in exposed[u] /\ w.in \in 1 .. Len(data)
    /\ w.pc # "read" => w.off = 0
    /\ w.pc = "read" /\ w.clean =>
          /\ w.in # w.out /\ w.off <= Len(data[w.in])
          /\ data[w.out] = SubSeq(data[w.in], 1, w.off)

\* A frame is about the directory that its path leads to, if nothing that the
\* path goes through has changed since the copy began; what readdir returned
\* there is in the receiver's directory by now, except for the entry that is
\* about to be copied.
Steady(u, p) == \A i \in 1 .. Len(p) - 1 : <<Node(SubSeq(p, 1, i)), p[i + 1]>> \notin touched[u]
Underway(u, f, n) ==
    /\ work[u].pc \in {"stat", "createDir", "openIn", "openOut"}
    /\ work[u].src = Append(f.src, n) /\ work[u].dst = Append(f.dst, n)
FrameFits(u, f) ==
    /\ IsOffered(u, f.src)
    /\ f.dst \in Under(u) /\ Node(f.dst) \in dirs
    /\ Steady(u, f.src) => Node(f.src) = f.dir
FrameDone(u, f, n) == Untouched(u, Append(f.src, n)) => Node(Append(f.dst, n)) # NoNode
InFrames(u) == \A i \in 1 .. Len(work[u].frames) : LET f == work[u].frames[i] IN
    /\ FrameFits(u, f)
    /\ \A n \in f.seen : FrameDone(u, f, n) \/ (i = 1 /\ Underway(u, f, n))

Sound == \A u \in Users : work[u].op = "copy" => Copying(u) /\ InFrames(u)

IInv == Stored /\ Typed /\ Apart /\ Exposed /\ Sound

-----------------------------------------------------------------------------
(* Induction.                                                              *)

LEMMA Least ==
    ASSUME NEW T, T \subseteq Nat, T # {}
    PROVE  \E m \in T : \A n \in T : m <= n
<1> DEFINE R == OpToRel(<, Nat)
<1>1. IsWellFoundedOn(R, Nat)  BY NatLessThanWellFounded
<1>2. \A m, n \in Nat : m < n => <<m, n>> \in R  BY DEF OpToRel
<1> HIDE DEF R
<1>3. PICK m \in T : \A n \in T : ~(<<n, m>> \in R)  BY <1>1, WFMin
<1>4. \A n \in T : ~(n < m)  BY <1>2, <1>3
<1>5. \A n \in T : m <= n  BY <1>4
<1>6. QED  BY <1>5

LEMMA Reaches ==
    ASSUME NEW n \in Nat, NEW S, 1 \in S,
           \A i \in 1 .. n - 1 : i \in S => i + 1 \in S
    PROVE  1 .. n \subseteq S
<1> DEFINE T == (1 .. n) \ S
<1> SUFFICES ASSUME T # {} PROVE FALSE  OBVIOUS
<1>1. PICK m \in T : \A i \in T : m <= i
  <2>1. T \subseteq Nat  OBVIOUS
  <2> HIDE DEF T
  <2>2. QED  BY <2>1, Least
<1>2. m # 1 /\ m - 1 \in 1 .. n - 1 /\ m - 1 \in S  BY <1>1
<1>3. QED  BY <1>1, <1>2

-----------------------------------------------------------------------------
(* Paths.                                                                  *)

\* f has the nodes that the first n names of p lead to.
Walk(lk, p, f, n) ==
    f = [i \in 1 .. n |-> IF i = 1 THEN p[1] ELSE Entry(lk, f[i - 1], p[i])]

LEMMA WalkOn ==
    ASSUME NEW lk, NEW p, NEW n \in Nat, NEW f, Walk(lk, p, f, n)
    PROVE  \E g : Walk(lk, p, g, n + 1)
<1> DEFINE w(i) == IF i = 1 THEN p[1] ELSE Entry(lk, f[i - 1], p[i])
           g == [i \in 1 .. n + 1 |-> w(i)]
<1>1. \A i \in 1 .. n : f[i] = w(i)  BY DEF Walk
<1> HIDE DEF w
<1>2. \A i \in 1 .. n : g[i] = f[i]  BY <1>1
<1>3. \A i \in 1 .. n + 1 : i # 1 => i - 1 \in 1 .. n  OBVIOUS
<1>4. \A i \in 1 .. n + 1 : w(i) = IF i = 1 THEN p[1] ELSE Entry(lk, g[i - 1], p[i])
  BY <1>2, <1>3 DEF w
<1>5. Walk(lk, p, g, n + 1)  BY <1>4 DEF Walk
<1>6. QED  BY <1>5

LEMMA WalkExists == ASSUME NEW lk, NEW p, NEW n \in Nat, n >= 1 PROVE \E f : Walk(lk, p, f, n)
<1> DEFINE S == {k \in Nat : \E f : Walk(lk, p, f, k)}
<1>1. 1 \in S
  <2> DEFINE f == [i \in 1 .. 1 |-> p[1]]
  <2>1. Walk(lk, p, f, 1)  BY DEF Walk
  <2>2. QED  BY <2>1
<1>2. \A i \in 1 .. n - 1 : i \in S => i + 1 \in S  BY WalkOn
<1> HIDE DEF S
<1>3. n \in S  BY <1>1, <1>2, Reaches
<1>4. QED  BY <1>3 DEF S

\* Two walks agree as far as their paths do.
LEMMA WalksAgree ==
    ASSUME NEW lk, NEW p, NEW q, NEW f, NEW g, NEW n \in Nat, NEW m \in Nat, n <= m,
           Walk(lk, p, f, n), Walk(lk, q, g, m), \A i \in 1 .. n : p[i] = q[i]
    PROVE  \A i \in 1 .. n : f[i] = g[i]
<1> DEFINE S == {i \in Nat : i \in 1 .. n => f[i] = g[i]}
<1>1. /\ \A i \in 1 .. n : f[i] = IF i = 1 THEN p[1] ELSE Entry(lk, f[i - 1], p[i])
      /\ \A i \in 1 .. m : g[i] = IF i = 1 THEN q[1] ELSE Entry(lk, g[i - 1], q[i])
  BY DEF Walk
<1>2. 1 \in S  BY <1>1
<1>3. ASSUME NEW i \in 1 .. n - 1, i \in S PROVE i + 1 \in S
  <2>1. i + 1 \in 1 .. n /\ i + 1 \in 1 .. m /\ i + 1 # 1 /\ i + 1 - 1 = i  OBVIOUS
  <2>2. f[i + 1] = Entry(lk, f[i], p[i + 1]) /\ g[i + 1] = Entry(lk, g[i], q[i + 1])
    BY <1>1, <2>1
  <2>3. QED  BY <1>3, <2>1, <2>2
<1> HIDE DEF S
<1>4. 1 .. n \subseteq S  BY <1>2, <1>3, Reaches
<1>5. QED  BY <1>4 DEF S

LEMMA LookupWalks ==
    ASSUME NEW lk, NEW p, Len(p) \in Nat, Len(p) >= 1
    PROVE  \E f : Walk(lk, p, f, Len(p)) /\ Lookup(lk, p) = f[Len(p)]
<1> DEFINE g == CHOOSE f : Walk(lk, p, f, Len(p))
<1>1. Walk(lk, p, g, Len(p))  BY WalkExists
<1>2. Lookup(lk, p) = g[Len(p)]  BY DEF Lookup, Walk
<1>3. QED  BY <1>1, <1>2

LEMMA LookupOne == ASSUME NEW lk, NEW p, Len(p) = 1 PROVE Lookup(lk, p) = p[1]
  BY LookupWalks DEF Walk

\* A path leads to what the directory before it has under the last name.
LEMMA LookupOn ==
    ASSUME NEW lk, NEW p, NEW q, NEW n \in Nat, n >= 1, Len(p) = n, Len(q) = n + 1,
           \A i \in 1 .. n : q[i] = p[i]
    PROVE  Lookup(lk, q) = Entry(lk, Lookup(lk, p), q[n + 1])
<1>1. PICK f : Walk(lk, p, f, n) /\ Lookup(lk, p) = f[n]  BY LookupWalks
<1>2. PICK g : Walk(lk, q, g, n + 1) /\ Lookup(lk, q) = g[n + 1]
  <2>1. Len(q) \in Nat /\ Len(q) >= 1  OBVIOUS
  <2>2. QED  BY <2>1, LookupWalks
<1>3. f[n] = g[n]  BY <1>1, <1>2, WalksAgree
<1>4. n + 1 \in 1 .. n + 1 /\ n + 1 # 1 /\ n + 1 - 1 = n  OBVIOUS
<1>5. g[n + 1] = Entry(lk, g[n], q[n + 1])  BY <1>2, <1>4 DEF Walk
<1>6. QED  BY <1>1, <1>2, <1>3, <1>5

LEMMA Prefix ==
    ASSUME NEW S, NEW p \in Seq(S), NEW k \in 0 .. Len(p)
    PROVE  /\ SubSeq(p, 1, k) \in Seq(S) /\ Len(SubSeq(p, 1, k)) = k /\ Len(p) \in Nat
           /\ \A i \in 1 .. k : SubSeq(p, 1, k)[i] = p[i]
<1>1. Len(p) \in Nat  BY LenProperties
<1>2. \A i \in 1 .. k : p[i] \in S  BY <1>1, ElementOfSeq
<1>3. 1 \in Int /\ k \in Int  BY <1>1
<1>4. /\ SubSeq(p, 1, k) \in Seq(S)
      /\ Len(SubSeq(p, 1, k)) = IF 1 <= k THEN k - 1 + 1 ELSE 0
      /\ \A i \in 1 .. k - 1 + 1 : SubSeq(p, 1, k)[i] = p[1 + i - 1]
  BY <1>2, <1>3, SubSeqProperties
<1>5. \A i \in 1 .. k : 1 + i - 1 = i /\ i \in 1 .. k - 1 + 1  BY <1>1
<1>6. QED  BY <1>1, <1>4, <1>5

\* The same, for the paths that lead to a path.
LEMMA LookupPrefix ==
    ASSUME NEW lk, NEW S, NEW p \in Seq(S), NEW k \in 1 .. Len(p) - 1
    PROVE  Lookup(lk, SubSeq(p, 1, k + 1)) = Entry(lk, Lookup(lk, SubSeq(p, 1, k)), p[k + 1])
<1>1. Len(p) \in Nat /\ k \in 0 .. Len(p) /\ k + 1 \in 0 .. Len(p) /\ k \in Nat /\ k >= 1
  BY LenProperties
<1>2. /\ Len(SubSeq(p, 1, k)) = k /\ Len(SubSeq(p, 1, k + 1)) = k + 1
      /\ \A i \in 1 .. k : SubSeq(p, 1, k)[i] = p[i]
      /\ \A i \in 1 .. k + 1 : SubSeq(p, 1, k + 1)[i] = p[i]
  BY <1>1, Prefix
<1>3. \A i \in 1 .. k : i \in 1 .. k + 1  BY <1>1
<1>4. /\ \A i \in 1 .. k : SubSeq(p, 1, k + 1)[i] = SubSeq(p, 1, k)[i]
      /\ SubSeq(p, 1, k + 1)[k + 1] = p[k + 1]
  BY <1>1, <1>2, <1>3
<1> DEFINE q == SubSeq(p, 1, k)
           r == SubSeq(p, 1, k + 1)
<1>5. Len(q) = k /\ Len(r) = k + 1 /\ (\A i \in 1 .. k : r[i] = q[i]) /\ r[k + 1] = p[k + 1]
  BY <1>2, <1>4
<1> HIDE DEF q, r
<1>6. Lookup(lk, r) = Entry(lk, Lookup(lk, q), r[k + 1])  BY <1>1, <1>5, LookupOn
<1>7. QED  BY <1>5, <1>6 DEF q, r

\* Lookup stays in a set with these two properties.
LEMMA LookupIn ==
    ASSUME NEW lk, NEW S, NEW p \in Seq(S), NEW n \in 1 .. Len(p), NEW T, NEW m \in 1 .. n,
           Lookup(lk, SubSeq(p, 1, m)) \in T,
           \A i \in m .. n - 1 : Lookup(lk, SubSeq(p, 1, i)) \in T =>
                 Entry(lk, Lookup(lk, SubSeq(p, 1, i)), p[i + 1]) \in T
    PROVE  Lookup(lk, SubSeq(p, 1, n)) \in T
<1> DEFINE I == {i \in Nat : i >= m => Lookup(lk, SubSeq(p, 1, i)) \in T}
<1>1. Len(p) \in Nat  BY LenProperties
<1>2. 1 \in I
  <2>1. 1 >= m => m = 1  OBVIOUS
  <2>2. QED  BY <2>1
<1>3. ASSUME NEW i \in 1 .. n - 1, i \in I PROVE i + 1 \in I
  <2>1. CASE i >= m
    <3>1. i \in m .. n - 1 /\ i \in 1 .. Len(p) - 1  BY <1>1, <2>1
    <3>2. QED  BY <1>3, <2>1, <3>1, LookupPrefix
  <2>2. CASE i < m
    <3>1. i + 1 >= m => i + 1 = m  BY <2>2
    <3>2. i + 1 \in Nat  OBVIOUS
    <3>3. QED  BY <3>1, <3>2
  <2>3. QED  BY <2>1, <2>2
<1> HIDE DEF I
<1>4. n \in Nat /\ n \in 1 .. n /\ n >= m  BY <1>1
<1>5. n \in I  BY <1>2, <1>3, <1>4, Reaches
<1>6. QED  BY <1>4, <1>5 DEF I

LEMMA Whole == ASSUME NEW S, NEW p \in Seq(S)
    PROVE SubSeq(p, 1, Len(p)) = p /\ Len(p) \in Nat
  BY SubSeqFull, LenProperties

LEMMA First ==
    ASSUME NEW lk, NEW S, NEW p \in Seq(S), Len(p) >= 1
    PROVE  Lookup(lk, SubSeq(p, 1, 1)) = p[1]
<1>1. 1 \in 0 .. Len(p) /\ 1 \in 1 .. 1  BY LenProperties
<1> DEFINE q == SubSeq(p, 1, 1)
<1>2. Len(q) = 1 /\ q[1] = p[1]  BY <1>1, Prefix
<1> HIDE DEF q
<1>3. Lookup(lk, q) = p[1]  BY <1>2, LookupOne
<1>4. QED  BY <1>3 DEF q

\* What is not there has nothing below it.
LEMMA PathPresent ==
    ASSUME NEW lk, NEW S, NEW p \in Seq(S), NEW i \in 1 .. Len(p), Lookup(lk, p) # NoNode,
           \A n : Entry(lk, NoNode, n) = NoNode
    PROVE  Lookup(lk, SubSeq(p, 1, i)) # NoNode
<1> SUFFICES ASSUME Lookup(lk, SubSeq(p, 1, i)) = NoNode PROVE FALSE  OBVIOUS
<1>1. Len(p) \in Nat /\ Len(p) \in 1 .. Len(p) /\ i \in 1 .. Len(p)  BY Whole
<1> DEFINE T == {NoNode}
<1>2. Lookup(lk, SubSeq(p, 1, i)) \in T  OBVIOUS
<1>3. \A j \in i .. Len(p) - 1 : Lookup(lk, SubSeq(p, 1, j)) \in T =>
        Entry(lk, Lookup(lk, SubSeq(p, 1, j)), p[j + 1]) \in T
  OBVIOUS
<1> HIDE DEF T
<1>4. Lookup(lk, SubSeq(p, 1, Len(p))) \in T  BY <1>1, <1>2, <1>3, LookupIn
<1>5. QED  BY <1>4, Whole DEF T

\* Trees in which the entries are alike along the path p.
AlikeOn(l, m, p) == \A i \in 1 .. Len(p) - 1 :
    Lookup(l, SubSeq(p, 1, i)) = Lookup(m, SubSeq(p, 1, i))
        => Entry(l, Lookup(m, SubSeq(p, 1, i)), p[i + 1])
           = Entry(m, Lookup(m, SubSeq(p, 1, i)), p[i + 1])

LEMMA AlikeTo ==
    ASSUME NEW l, NEW m, NEW S, NEW p \in Seq(S), Len(p) >= 1, AlikeOn(l, m, p),
           NEW k \in 1 .. Len(p)
    PROVE  Lookup(l, SubSeq(p, 1, k)) = Lookup(m, SubSeq(p, 1, k))
<1> DEFINE I == {i \in Nat : Lookup(l, SubSeq(p, 1, i)) = Lookup(m, SubSeq(p, 1, i))}
<1>1. Len(p) \in Nat  BY Whole
<1>2. 1 \in I  BY First
<1>3. ASSUME NEW i \in 1 .. Len(p) - 1, i \in I PROVE i + 1 \in I
  <2>1. Entry(l, Lookup(l, SubSeq(p, 1, i)), p[i + 1]) = Entry(m, Lookup(m, SubSeq(p, 1, i)), p[i + 1])
    BY <1>3 DEF AlikeOn
  <2>2. QED  BY <2>1, LookupPrefix
<1> HIDE DEF I
<1>4. 1 .. Len(p) \subseteq I  BY <1>1, <1>2, <1>3, Reaches
<1>5. QED  BY <1>4 DEF I

LEMMA Alike ==
    ASSUME NEW l, NEW m, NEW S, NEW p \in Seq(S), Len(p) >= 1, AlikeOn(l, m, p)
    PROVE  Lookup(l, p) = Lookup(m, p)
<1>1. Len(p) \in 1 .. Len(p) /\ SubSeq(p, 1, Len(p)) = p  BY Whole
<1>2. Lookup(l, SubSeq(p, 1, Len(p))) = Lookup(m, SubSeq(p, 1, Len(p)))  BY <1>1, AlikeTo
<1>3. QED  BY <1>1, <1>2

\* ... among the nodes T, which the path does not leave.
LEMMA SameWithin ==
    ASSUME NEW l, NEW m, NEW S, NEW p \in Seq(S), Len(p) >= 1, NEW T, p[1] \in T,
           \A x \in T, i \in 2 .. Len(p) :
               Entry(m, x, p[i]) \in T /\ Entry(l, x, p[i]) = Entry(m, x, p[i])
    PROVE  Lookup(l, p) = Lookup(m, p)
<1>1. Len(p) \in Nat /\ Len(p) \in 1 .. Len(p)  BY Whole
<1>2. \A i \in 1 .. Len(p) - 1 : i + 1 \in 2 .. Len(p)  BY <1>1
<1>3. ASSUME NEW i \in 1 .. Len(p) PROVE Lookup(m, SubSeq(p, 1, i)) \in T
  <2>1. 1 \in 1 .. i /\ i \in 1 .. Len(p)  BY <1>1
  <2>2. Lookup(m, SubSeq(p, 1, 1)) \in T  BY First
  <2>3. \A j \in 1 .. i - 1 : Lookup(m, SubSeq(p, 1, j)) \in T =>
            Entry(m, Lookup(m, SubSeq(p, 1, j)), p[j + 1]) \in T
    BY <1>1, <1>2
  <2>4. QED  BY <2>1, <2>2, <2>3, LookupIn
<1>4. AlikeOn(l, m, p)  BY <1>1, <1>2, <1>3 DEF AlikeOn
<1>5. QED  BY <1>4, Alike

\* ... where there are only more of them in m.
LEMMA Grows ==
    ASSUME NEW l, NEW m, NEW S, NEW p \in Seq(S), Len(p) >= 1, Lookup(l, p) # NoNode,
           \A n : Entry(l, NoNode, n) = NoNode,
           \A x, n : Entry(l, x, n) # NoNode => Entry(m, x, n) = Entry(l, x, n)
    PROVE  Lookup(m, p) = Lookup(l, p)
<1>1. Len(p) \in Nat  BY Whole
<1>2. \A i \in 1 .. Len(p) : Lookup(l, SubSeq(p, 1, i)) # NoNode  BY PathPresent
<1>3. ASSUME NEW i \in 1 .. Len(p) - 1
      PROVE  Entry(m, Lookup(l, SubSeq(p, 1, i)), p[i + 1])
             = Entry(l, Lookup(l, SubSeq(p, 1, i)), p[i + 1])
  <2>1. i + 1 \in 1 .. Len(p)  BY <1>1
  <2>2. Lookup(l, SubSeq(p, 1, i + 1)) # NoNode  BY <1>2, <2>1
  <2>3. Entry(l, Lookup(l, SubSeq(p, 1, i)), p[i + 1]) # NoNode  BY <2>2, LookupPrefix
  <2>4. QED  BY <2>3
<1>4. AlikeOn(m, l, p)  BY <1>3 DEF AlikeOn
<1>5. QED  BY <1>4, Alike

\* ... or where one that has nothing below it has been replaced by another: from
\* the nodes of T on, a path's entries in m are those in l, or new for old.
KeptBut(l, m, p, T, old, new) ==
    /\ \A n : Entry(l, NoNode, n) = NoNode
    /\ \A n : Entry(l, old, n) = NoNode
    /\ p[1] \in T
    /\ \A x \in T, i \in 2 .. Len(p) :
          /\ Entry(l, x, p[i]) \in T
          /\ \/ Entry(m, x, p[i]) = Entry(l, x, p[i])
             \/ Entry(l, x, p[i]) = old /\ Entry(m, x, p[i]) = new

LEMMA PathKept ==
    ASSUME NEW l, NEW m, NEW S, NEW p \in Seq(S), Len(p) >= 1, Lookup(l, p) # NoNode,
           NEW T, NEW old, NEW new, KeptBut(l, m, p, T, old, new)
    PROVE  Lookup(m, p) = Lookup(l, p) \/ (Lookup(l, p) = old /\ Lookup(m, p) = new)
<1> DEFINE a(i) == Lookup(l, SubSeq(p, 1, i))
           b(i) == Lookup(m, SubSeq(p, 1, i))
           R(i) == a(i) \in T /\ (b(i) = a(i) \/ (a(i) = old /\ b(i) = new))
           I == {i \in Nat : R(i)}
<1>1. Len(p) \in Nat /\ Len(p) \in 1 .. Len(p) /\ SubSeq(p, 1, Len(p)) = p  BY Whole
<1> USE DEF KeptBut
<1>2. \A i \in 1 .. Len(p) : a(i) # NoNode  BY PathPresent
<1> HIDE DEF KeptBut
<1>3. \A i \in 1 .. Len(p) - 1 : i + 1 \in 2 .. Len(p) /\ i + 1 \in 1 .. Len(p) /\ i \in 1 .. Len(p)
  BY <1>1
<1>4. \A i \in 1 .. Len(p) - 1 :
        a(i + 1) = Entry(l, a(i), p[i + 1]) /\ b(i + 1) = Entry(m, b(i), p[i + 1])
  BY LookupPrefix
<1>5. a(1) = p[1] /\ b(1) = p[1]  BY First
<1> HIDE DEF a, b
<1>6. 1 \in I  BY <1>5 DEF KeptBut
<1>7. ASSUME NEW i \in 1 .. Len(p) - 1, i \in I PROVE i + 1 \in I
  <2>1. a(i + 1) # NoNode /\ a(i) # NoNode  BY <1>2, <1>3
  <2>2. a(i) # old  BY <1>4, <2>1 DEF KeptBut
  <2>3. b(i) = a(i) /\ a(i) \in T  BY <1>7, <2>2
  <2>4. R(i + 1)  BY <1>3, <1>4, <2>3 DEF KeptBut
  <2>5. i + 1 \in Nat  OBVIOUS
  <2>6. QED  BY <2>4, <2>5
<1> HIDE DEF I
<1>8. 1 .. Len(p) \subseteq I  BY <1>1, <1>6, <1>7, Reaches
<1>9. R(Len(p))  BY <1>1, <1>8 DEF I
<1>10. a(Len(p)) = Lookup(l, p) /\ b(Len(p)) = Lookup(m, p)  BY <1>1 DEF a, b
<1>11. QED  BY <1>9, <1>10

\* The paths that handlers make of others.
LEMMA PathIs ==
    ASSUME NEW p \in Offered
    PROVE  /\ p \in Seq(Users \cup Names) /\ p \in Under(p[1]) /\ Len(p) \in Nat /\ Len(p) >= 2
           /\ Front(p) \in Under(p[1]) /\ Front(p) \in Seq(Users \cup Names)
           /\ Len(Front(p)) = Len(p) - 1
           /\ Last(p) \in Names
           /\ \A lk : Lookup(lk, p) = Entry(lk, Lookup(lk, Front(p)), Last(p))
<1>1. p \in Seq(Users \cup Names) /\ Len(p) \in Nat /\ Len(p) >= 2  BY Whole DEF Offered
<1>2. p \in Under(p[1]) /\ p[1] \in Users  BY <1>1 DEF Under, Offered
<1>3. Len(p) - 1 \in 0 .. Len(p)  BY <1>1
<1> DEFINE q == SubSeq(p, 1, Len(p) - 1)
<1>4. /\ q \in Seq(Users \cup Names) /\ Len(q) = Len(p) - 1
      /\ \A i \in 1 .. Len(p) - 1 : q[i] = p[i]
  BY <1>1, <1>3, Prefix
<1>5. Front(p) = q  BY DEF Front
<1> HIDE DEF q
<1>6. q \in Under(p[1])
  <2>1. \A i \in 2 .. Len(q) : i \in 1 .. Len(p) - 1 /\ i \in 2 .. Len(p)  BY <1>1, <1>4
  <2>2. \A i \in 2 .. Len(q) : q[i] \in Names  BY <1>4, <2>1 DEF Offered
  <2>3. 1 \in 1 .. Len(p) - 1  BY <1>1
  <2>4. q[1] = p[1] /\ Len(q) >= 1  BY <1>1, <1>4, <2>3
  <2>5. QED  BY <1>4, <2>2, <2>4 DEF Under
<1>7. Last(p) \in Names
  <2>1. Len(p) \in 2 .. Len(p)  BY <1>1
  <2>2. QED  BY <2>1 DEF Offered, Last
<1>8. ASSUME NEW lk PROVE Lookup(lk, p) = Entry(lk, Lookup(lk, q), Last(p))
  <2> DEFINE n == Len(p) - 1
  <2>1. n \in Nat /\ n >= 1 /\ Len(q) = n /\ Len(p) = n + 1  BY <1>1, <1>4
  <2>2. \A i \in 1 .. n : p[i] = q[i]  BY <1>4
  <2> HIDE DEF n
  <2>3. Lookup(lk, p) = Entry(lk, Lookup(lk, q), p[n + 1])  BY <2>1, <2>2, LookupOn
  <2>4. QED  BY <2>1, <2>3 DEF Last
<1>9. QED  BY <1>1, <1>2, <1>4, <1>5, <1>6, <1>7, <1>8

LEMMA Longer ==
    ASSUME NEW u \in Users, NEW p \in Under(u), NEW n \in Names
    PROVE  /\ Append(p, n) \in Under(u) /\ Append(p, n) \in Offered
           /\ Front(Append(p, n)) = p /\ Last(Append(p, n)) = n
           /\ \A lk : Lookup(lk, Append(p, n)) = Entry(lk, Lookup(lk, p), n)
           /\ \A q : IsPrefix(q, p) /\ Len(q) \in Nat => IsPrefix(q, Append(p, n))
<1> DEFINE S == Users \cup Names
           q == Append(p, n)
<1>1. p \in Seq(S) /\ Len(p) \in Nat /\ Len(p) >= 1 /\ p[1] = u /\ n \in S  BY Whole DEF Under
<1>2. /\ q \in Seq(S) /\ Len(q) = Len(p) + 1
      /\ \A i \in 1 .. Len(p) : q[i] = p[i]
      /\ q[Len(p) + 1] = n
  <2> HIDE DEF S
  <2>1. QED  BY <1>1, AppendProperties
<1> HIDE DEF q
<1>3. \A i \in 2 .. Len(q) : q[i] \in Names
  <2>1. \A i \in 2 .. Len(q) : i = Len(p) + 1 \/ (i \in 1 .. Len(p) /\ i \in 2 .. Len(p))
    BY <1>1, <1>2
  <2>2. QED  BY <1>2, <2>1 DEF Under
<1>4. 1 \in 1 .. Len(p)  BY <1>1
<1>5. q[1] = u /\ Len(q) >= 2  BY <1>1, <1>2, <1>4
<1>6. q \in Under(u) /\ q \in Offered  BY <1>2, <1>3, <1>5 DEF Under, Offered
<1>7. Front(q) = p
  <2> DEFINE f == SubSeq(q, 1, Len(q) - 1)
  <2>1. Len(q) - 1 \in 0 .. Len(q) /\ Len(q) - 1 = Len(p)  BY <1>1, <1>2
  <2>2. f \in Seq(S) /\ Len(f) = Len(p) /\ \A i \in 1 .. Len(p) : f[i] = q[i]
    BY <1>2, <2>1, Prefix
  <2> HIDE DEF f, S
  <2>3. \A i \in 1 .. Len(f) : f[i] = p[i]  BY <1>2, <2>2
  <2>4. f = p  BY <1>1, <2>2, <2>3, SeqEqual
  <2>5. QED  BY <2>4 DEF Front, f
<1>8. Last(q) = n  BY <1>2 DEF Last
<1>9. \A lk : Lookup(lk, q) = Entry(lk, Lookup(lk, p), n)  BY <1>6, <1>7, <1>8, PathIs
<1>10. ASSUME NEW r, IsPrefix(r, p), Len(r) \in Nat PROVE IsPrefix(r, q)
  <2>1. Len(r) <= Len(p) /\ SubSeq(r, 1, Len(r)) = SubSeq(p, 1, Len(r))  BY <1>10 DEF IsPrefix
  <2> DEFINE k == Len(r)
             a == SubSeq(p, 1, k)
             b == SubSeq(q, 1, k)
  <2>2. k \in 0 .. Len(p) /\ k \in 0 .. Len(q) /\ k \in Nat /\ k <= Len(q) /\ k <= Len(p)
    BY <1>1, <1>2, <1>10, <2>1
  <2>3. /\ a \in Seq(S) /\ Len(a) = k /\ \A i \in 1 .. k : a[i] = p[i]
        /\ b \in Seq(S) /\ Len(b) = k /\ \A i \in 1 .. k : b[i] = q[i]
    BY <1>1, <1>2, <2>2, Prefix
  <2>4. \A i \in 1 .. k : i \in 1 .. Len(p)  BY <1>1, <2>2
  <2> HIDE DEF k, a, b, S
  <2>5. \A i \in 1 .. Len(a) : a[i] = b[i]  BY <1>2, <2>3, <2>4
  <2>6. a = b  BY <2>3, <2>5, SeqEqual
  <2>7. QED  BY <2>1, <2>2, <2>6 DEF IsPrefix, k, a, b
<1>11. QED  BY <1>6, <1>7, <1>8, <1>9, <1>10 DEF q

LEMMA Root ==
    ASSUME NEW u \in Users
    PROVE  <<u>> \in Under(u) /\ \A lk : Lookup(lk, <<u>>) = u
<1>1. <<u>> \in Seq(Users \cup Names) /\ Len(<<u>>) = 1 /\ <<u>>[1] = u  OBVIOUS
<1>2. QED  BY <1>1, LookupOne DEF Under

LEMMA Selected == ASSUME NEW u \in Users, NEW p \in PathsOf(u)
    PROVE p \in Offered /\ p[1] = u /\ p \in Under(u)
<1>1. PICK s \in Relative \ {<< >>} : p = <<u>> \o s  BY DEF PathsOf
<1>2. PICK n \in 0 .. MaxDepth : s \in [1 .. n -> Names]
  BY <1>1 DEF Relative, BoundedSeq, SeqOf
<1>3. s \in Seq(Names) /\ n \in Nat /\ Len(s) = n  BY <1>2, SharingAssumption
<1>4. n >= 1  BY <1>1, <1>3, EmptySeq
<1>5. p \in Seq(Users \cup Names) /\ Len(p) = n + 1 /\ p[1] = u
  BY <1>1, <1>3
<1>6. \A i \in 2 .. n + 1 : p[i] \in Names
  BY <1>1, <1>2, <1>3
<1>7. QED  BY <1>3, <1>4, <1>5, <1>6 DEF Offered, Under

-----------------------------------------------------------------------------
(* What is stored.                                                         *)

LEMMA EntryIs ==
    ASSUME Stored, NEW x, NEW n, Entry(link, x, n) # NoNode
    PROVE  /\ <<x, n>> \in DOMAIN link /\ Entry(link, x, n) = link[<<x, n>>]
           /\ Entry(link, x, n) \in 1 .. Len(data)
           /\ x \in dirs /\ n \in Names
<1>1. <<x, n>> \in DOMAIN link /\ Entry(link, x, n) = link[<<x, n>>]  BY DEF Entry
<1>2. QED  BY <1>1 DEF Stored

LEMMA NothingThere == ASSUME Stored PROVE NoNode \notin Nodes /\ \A n : Entry(link, NoNode, n) = NoNode
<1>1. Len(data) \in Nat  BY LenProperties DEF Stored
<1>2. NoNode \notin Nodes  BY <1>1, SharingAssumption DEF Nodes
<1>3. QED  BY <1>2, EntryIs DEF Stored

\* What a user's node has below it is his.
LEMMA Within ==
    ASSUME Stored, NEW own, Tree(own), NEW u \in Users, NEW x \in Nodes, own[x] = u, NEW n
    PROVE  Entry(link, x, n) \in {NoNode} \cup {y \in Nodes : own[y] = u}
<1>1. CASE Entry(link, x, n) = NoNode  BY <1>1
<1>2. CASE Entry(link, x, n) # NoNode
  <2>1. /\ <<x, n>> \in DOMAIN link /\ Entry(link, x, n) = link[<<x, n>>]
        /\ Entry(link, x, n) \in 1 .. Len(data)
    BY <1>2, EntryIs
  <2>2. own[link[<<x, n>>]] = own[x]  BY <2>1 DEF Tree
  <2>3. QED  BY <2>1, <2>2 DEF Nodes
<1>3. QED  BY <1>1, <1>2

\* A path below a user's directory leads to a node of his.
LEMMA Owned ==
    ASSUME Stored, NEW own, Tree(own), NEW u \in Users, NEW p \in Under(u)
    PROVE  Node(p) = NoNode \/ (Node(p) \in Nodes /\ own[Node(p)] = u)
<1> DEFINE T == {NoNode} \cup {x \in Nodes : own[x] = u}
<1>1. p \in Seq(Users \cup Names) /\ Len(p) \in Nat /\ Len(p) >= 1 /\ p[1] = u  BY Whole DEF Under
<1>2. u \in T  BY DEF Nodes, Tree
<1>3. ASSUME NEW x \in T, NEW n PROVE Entry(link, x, n) \in T
  <2>1. CASE x = NoNode  BY <2>1, NothingThere
  <2>2. CASE x # NoNode  BY <2>2, Within
  <2>3. QED  BY <2>1, <2>2
<1> HIDE DEF T
<1>4. Lookup(link, SubSeq(p, 1, 1)) \in T  BY <1>1, <1>2, First
<1>5. 1 \in 1 .. Len(p) /\ Len(p) \in 1 .. Len(p)  BY <1>1
<1>6. Lookup(link, SubSeq(p, 1, Len(p))) \in T  BY <1>1, <1>3, <1>4, <1>5, LookupIn
<1>7. Node(p) \in T  BY <1>1, <1>6, Whole DEF Node
<1>8. QED  BY <1>7 DEF T

LEMMA Deep ==
    ASSUME Stored, NEW p \in Offered, Node(p) # NoNode
    PROVE  /\ Node(p) \in 1 .. Len(data) /\ Node(Front(p)) \in dirs
           /\ <<Parent(p), Last(p)>> \in DOMAIN link /\ link[<<Parent(p), Last(p)>>] = Node(p)
<1>1. Node(p) = Entry(link, Node(Front(p)), Last(p))  BY PathIs DEF Node
<1>2. QED  BY <1>1, EntryIs DEF Parent

-----------------------------------------------------------------------------
(* What the thread of u does to the files: a new node, an entry less, an   *)
(* entry elsewhere, or other contents for the file x.                      *)

Moved(e, d, n) ==
    /\ link' = [f \in (DOMAIN link \ {e}) \cup {<<d, n>>} |->
                    IF f = <<d, n>> THEN link[e] ELSE link[f]]
    /\ UNCHANGED <<dirs, data>>
Makes(own, u) == \E d \in dirs, n \in Names :
    /\ own[d] = u /\ <<d, n>> \notin DOMAIN link
    /\ link' = Linked(<<d, n>>, NewNode)
    /\ data' = Append(data, << >>)
    /\ dirs' = dirs \/ dirs' = dirs \cup {NewNode}
Drops(own, u) == \E e \in DOMAIN link :
    /\ own[e[1]] = u
    /\ link' = Unlinked(e)
    /\ UNCHANGED <<dirs, data>>
Moves(own, u) == \E e \in DOMAIN link, d \in dirs, n \in Names :
    own[e[1]] = u /\ own[d] = u /\ Moved(e, d, n)
Writes(own, u, x) == \E s \in Seq(Users \X Nat) :
    /\ x \in Files /\ own[x] = u
    /\ \A b \in ToSet(s) : b \in ToSet(data[x]) \/ b[1] = u \/ b \in given[u]
    /\ data' = [data EXCEPT ![x] = s]
    /\ UNCHANGED <<link, dirs>>
Changes(own, u, x) ==
    \/ x = NoNode /\ (SameFiles \/ Makes(own, u) \/ Drops(own, u) \/ Moves(own, u))
    \/ Writes(own, u, x)

\* What stays.
Spared(own, u, x) ==
    /\ Len(data) \in Nat /\ Len(data) <= Len(data') /\ Len(data') \in Nat
    /\ dirs \subseteq dirs' /\ \A y \in Nodes : y \in dirs' => y \in dirs
    /\ \A y \in 1 .. Len(data) : y # x => data'[y] = data[y]
    /\ \A y \in Nodes, n \in Names : own[y] # u => Entry(link', y, n) = Entry(link, y, n)
    /\ Len(data') \in {Len(data), NewNode}
    /\ Len(data') = NewNode => data'[NewNode] = << >>

\* own, with the new node.
Extends(own, new, u) ==
    /\ \A y \in Nodes : new[y] = own[y]
    /\ Len(data') = NewNode => new[NewNode] = u

LEMMA Numbers == ASSUME Stored
    PROVE  /\ Len(data) \in Nat /\ NewNode \in Nat /\ NewNode \notin Nodes /\ NewNode = Len(data) + 1
           /\ 1 .. Len(data) \subseteq 1 .. NewNode /\ NewNode \in 1 .. NewNode
           /\ \A x \in 1 .. Len(data) : data[x] \in Seq(Users \X Nat)
           /\ \A x \in 1 .. NewNode : x \in 1 .. Len(data) \/ x = NewNode
<1>1. Len(data) \in Nat  BY LenProperties DEF Stored
<1>2. NewNode \in Nat /\ NewNode = Len(data) + 1  BY <1>1 DEF NewNode
<1>3. NewNode \notin Nodes  BY <1>1, <1>2, SharingAssumption DEF Nodes
<1>4. \A x \in 1 .. Len(data) : data[x] \in Seq(Users \X Nat)  BY ElementOfSeq DEF Stored
<1>5. QED  BY <1>1, <1>2, <1>3, <1>4

LEMMA MakesSpare ==
    ASSUME Stored, NEW own, Tree(own), NEW u \in Users, Makes(own, u)
    PROVE  /\ Stored' /\ Spared(own, u, NoNode)
           /\ \E new : Tree(new)' /\ Extends(own, new, u)
<1>1. PICK d \in dirs, n \in Names :
        /\ own[d] = u /\ <<d, n>> \notin DOMAIN link
        /\ link' = Linked(<<d, n>>, NewNode)
        /\ data' = Append(data, << >>)
        /\ dirs' = dirs \/ dirs' = dirs \cup {NewNode}
  BY DEF Makes
<1> DEFINE S == Seq(Users \X Nat)
           e == <<d, n>>
<1>2. << >> \in S  OBVIOUS
<1>3. /\ data' \in Seq(S) /\ Len(data') = NewNode
      /\ \A x \in 1 .. Len(data) : data'[x] = data[x]
      /\ data'[NewNode] = << >>
  <2>1. data \in Seq(S)  BY DEF Stored
  <2> HIDE DEF S
  <2>2. QED  BY <1>1, <1>2, <2>1, AppendProperties DEF NewNode
<1> HIDE DEF S, e
<1>4. DOMAIN link' = DOMAIN link \cup {e} /\ link'[e] = NewNode
      /\ \A f \in DOMAIN link : link'[f] = link[f]
  BY <1>1 DEF Linked, e
<1>5. Nodes' = Nodes \cup {NewNode}  BY <1>3, Numbers DEF Nodes
<1>6. Stored'
  <2>1. \A f \in DOMAIN link' : link'[f] \in 1 .. Len(data')  BY <1>3, <1>4, Numbers DEF Stored
  <2>2. link' \in [DOMAIN link' -> 1 .. Len(data')]  BY <1>1, <2>1 DEF Linked, e
  <2>3. DOMAIN link' \subseteq dirs' \X Names  BY <1>1, <1>4 DEF Stored, e
  <2>7. \A f, g \in DOMAIN link' : link'[f] = link'[g] => f = g
    <3>1. \A f \in DOMAIN link : link[f] # NewNode  BY Numbers DEF Stored, Nodes
    <3>2. QED  BY <1>4, <3>1 DEF Stored
  <2>4. Users \subseteq dirs' /\ dirs' \subseteq Nodes'  BY <1>1, <1>5 DEF Stored
  <2>5. \A y \in dirs' \ Users : data'[y] = << >>
    <3>1. \A y \in dirs \ Users : y \in 1 .. Len(data)  BY DEF Stored, Nodes
    <3>2. QED  BY <1>1, <1>3, <3>1 DEF Stored
  <2>6. QED  BY <1>3, <2>2, <2>3, <2>4, <2>5, <2>7 DEF Stored, S
<1>7. Spared(own, u, NoNode)
  <2>1. \A y \in Nodes, m \in Names : own[y] # u => Entry(link', y, m) = Entry(link, y, m)
    BY <1>1, <1>4 DEF Entry, e
  <2>2. \A y \in Nodes : y \in dirs' => y \in dirs  BY <1>1, Numbers
  <2>3. Len(data) \in Nat /\ Len(data) <= Len(data') /\ Len(data') \in Nat  BY <1>3, Numbers
  <2>4. dirs \subseteq dirs'  BY <1>1
  <2>5. QED  BY <1>3, <2>1, <2>2, <2>3, <2>4 DEF Spared
<1>8. \E new : Tree(new)' /\ Extends(own, new, u)
  <2>1. PICK new : new = [y \in Nodes' |-> IF y = NewNode THEN u ELSE own[y]]  OBVIOUS
  <2>2. /\ new \in [Nodes' -> Users]
        /\ \A y \in Nodes : new[y] = own[y]
        /\ new[NewNode] = u
    BY <1>5, <2>1, Numbers DEF Tree
  <2>3. \A v \in Users : new[v] = v  BY <2>2 DEF Tree, Nodes
  <2>4. \A f \in DOMAIN link : link[f] \in Nodes /\ f[1] \in Nodes /\ own[link[f]] = own[f[1]]
    BY DEF Stored, Nodes, Tree
  <2>5. \A f \in DOMAIN link : new[link'[f]] = new[f[1]]  BY <1>4, <2>2, <2>4
  <2>6. e[1] = d /\ d \in Nodes  BY DEF e, Stored
  <2>7. new[link'[e]] = new[e[1]]  BY <1>1, <1>4, <2>2, <2>6
  <2>8. Tree(new)'  BY <1>4, <2>2, <2>3, <2>5, <2>7 DEF Tree
  <2>9. QED  BY <2>2, <2>8 DEF Extends
<1>9. QED  BY <1>6, <1>7, <1>8

LEMMA SameTree ==
    ASSUME Stored, NEW own, Tree(own), NEW u \in Users, UNCHANGED <<dirs, data>>,
           link' \in [DOMAIN link' -> 1 .. Len(data)], DOMAIN link' \subseteq dirs \X Names,
           \A f, g \in DOMAIN link' : link'[f] = link'[g] => f = g,
           \A f \in DOMAIN link' : own[link'[f]] = own[f[1]],
           \A y \in Nodes, n \in Names : own[y] # u => Entry(link', y, n) = Entry(link, y, n)
    PROVE  /\ Stored' /\ Spared(own, u, NoNode)
           /\ \E new : Tree(new)' /\ Extends(own, new, u)
<1>1. Nodes' = Nodes  BY DEF Nodes
<1>2. Stored'  BY <1>1 DEF Stored
<1>3. Spared(own, u, NoNode)  BY Numbers DEF Spared
<1>4. Tree(own)'  BY <1>1 DEF Tree
<1>5. Extends(own, own, u)  BY Numbers DEF Extends
<1>6. QED  BY <1>2, <1>3, <1>4, <1>5

LEMMA DropsSpare ==
    ASSUME Stored, NEW own, Tree(own), NEW u \in Users, Drops(own, u)
    PROVE  /\ Stored' /\ Spared(own, u, NoNode)
           /\ \E new : Tree(new)' /\ Extends(own, new, u)
<1>1. PICK e \in DOMAIN link : own[e[1]] = u /\ link' = Unlinked(e) /\ UNCHANGED <<dirs, data>>
  BY DEF Drops
<1>2. DOMAIN link' = DOMAIN link \ {e} /\ \A f \in DOMAIN link' : link'[f] = link[f]
  BY <1>1 DEF Unlinked
<1>3. link' \in [DOMAIN link' -> 1 .. Len(data)] /\ DOMAIN link' \subseteq dirs \X Names
  BY <1>1, <1>2 DEF Stored, Unlinked
<1>4. \A f \in DOMAIN link' : own[link'[f]] = own[f[1]]  BY <1>2 DEF Tree
<1>5. \A y \in Nodes, n \in Names : own[y] # u => Entry(link', y, n) = Entry(link, y, n)
  BY <1>1, <1>2 DEF Entry
<1>6. UNCHANGED <<dirs, data>>  BY <1>1
<1>7. \A f, g \in DOMAIN link' : link'[f] = link'[g] => f = g  BY <1>2 DEF Stored
<1>8. QED  BY <1>3, <1>4, <1>5, <1>6, <1>7, SameTree

\* What that says of the entries, t being the new one.
Rewired(e, d, n, t) ==
    /\ t \in dirs \X Names /\ t[1] = d /\ t[2] = n
    /\ DOMAIN link' = (DOMAIN link \ {e}) \cup {t}
    /\ \A f \in DOMAIN link' : link'[f] = IF f = t THEN link[e] ELSE link[f]
    /\ link' \in [DOMAIN link' -> 1 .. Len(data)] /\ DOMAIN link' \subseteq dirs \X Names
    /\ \A f, g \in DOMAIN link' : link'[f] = link'[g] => f = g
    /\ \A y, m : <<y, m>> # e /\ <<y, m>> # t => Entry(link', y, m) = Entry(link, y, m)
    /\ Entry(link', d, n) = link[e]
    /\ \A m : <<d, m>> = t => m = n
    /\ UNCHANGED <<dirs, data>>

LEMMA MovedLink ==
    ASSUME Stored, NEW e \in DOMAIN link, NEW d \in dirs, NEW n \in Names, Moved(e, d, n)
    PROVE  \E t : t = <<d, n>> /\ Rewired(e, d, n, t)
<1> DEFINE t == <<d, n>>
<1>1. /\ t \in dirs \X Names /\ t[1] = d /\ t[2] = n
      /\ DOMAIN link' = (DOMAIN link \ {e}) \cup {t}
      /\ \A f \in DOMAIN link' : link'[f] = IF f = t THEN link[e] ELSE link[f]
      /\ UNCHANGED <<dirs, data>>
  BY DEF Moved
<1>2. link' = [f \in DOMAIN link' |-> link'[f]]  BY DEF Moved
<1>3. Entry(link', d, n) = link[e] /\ \A m : <<d, m>> = t => m = n  BY <1>1 DEF Entry
<1> HIDE DEF Moved
<1>4. link' \in [DOMAIN link' -> 1 .. Len(data)] /\ DOMAIN link' \subseteq dirs \X Names
  <2>1. \A f \in DOMAIN link' : link'[f] \in 1 .. Len(data)  BY <1>1 DEF Stored
  <2>2. QED  BY <1>1, <1>2, <2>1 DEF Stored
<1>5. \A f, g \in DOMAIN link' : link'[f] = link'[g] => f = g  BY <1>1 DEF Stored
<1>6. ASSUME NEW y, NEW m, <<y, m>> # e, <<y, m>> # t PROVE Entry(link', y, m) = Entry(link, y, m)
  <2>1. PICK f : f = <<y, m>>  OBVIOUS
  <2>2. f \in DOMAIN link' <=> f \in DOMAIN link  BY <1>1, <1>6, <2>1
  <2>3. f \in DOMAIN link' => link'[f] = link[f]  BY <1>1, <1>6, <2>1
  <2>4. QED  BY <2>1, <2>2, <2>3 DEF Entry
<1>7. Rewired(e, d, n, t)  BY <1>1, <1>3, <1>4, <1>5, <1>6 DEF Rewired
<1>8. QED  BY <1>7

LEMMA MovesSpare ==
    ASSUME Stored, NEW own, Tree(own), NEW u \in Users, Moves(own, u)
    PROVE  /\ Stored' /\ Spared(own, u, NoNode)
           /\ \E new : Tree(new)' /\ Extends(own, new, u)
<1>1. PICK e \in DOMAIN link, d \in dirs, n \in Names :
        own[e[1]] = u /\ own[d] = u /\ Moved(e, d, n)
  BY DEF Moves
<1>2. PICK t : t = <<d, n>> /\ Rewired(e, d, n, t)  BY <1>1, MovedLink
<1>3. /\ link' \in [DOMAIN link' -> 1 .. Len(data)] /\ DOMAIN link' \subseteq dirs \X Names
      /\ \A f, g \in DOMAIN link' : link'[f] = link'[g] => f = g
      /\ DOMAIN link' = (DOMAIN link \ {e}) \cup {t} /\ t[1] = d
      /\ \A f \in DOMAIN link' : link'[f] = IF f = t THEN link[e] ELSE link[f]
      /\ UNCHANGED <<dirs, data>>
  BY <1>2 DEF Rewired
<1>4. \A f \in DOMAIN link' : own[link'[f]] = own[f[1]]  BY <1>1, <1>3 DEF Tree
<1>5. ASSUME NEW y \in Nodes, NEW m \in Names, own[y] # u PROVE Entry(link', y, m) = Entry(link, y, m)
  <2>1. <<y, m>> # e /\ <<y, m>> # t  BY <1>1, <1>2, <1>5
  <2>2. QED  BY <1>2, <2>1 DEF Rewired
<1>6. QED  BY <1>3, <1>4, <1>5, SameTree

LEMMA WritesSpare ==
    ASSUME Stored, NEW own, Tree(own), NEW u \in Users, NEW x, Writes(own, u, x)
    PROVE  /\ Stored' /\ Spared(own, u, x)
           /\ \E new : Tree(new)' /\ Extends(own, new, u)
<1>1. PICK s \in Seq(Users \X Nat) :
        /\ x \in Files /\ own[x] = u
        /\ data' = [data EXCEPT ![x] = s]
        /\ UNCHANGED <<link, dirs>>
  BY DEF Writes
<1> DEFINE S == Seq(Users \X Nat)
<1>2. x \in 1 .. Len(data) /\ x \notin dirs  BY <1>1 DEF Files
<1>3. /\ data' \in Seq(S) /\ Len(data') = Len(data)
      /\ \A y \in 1 .. Len(data) : data'[y] = IF y = x THEN s ELSE data[y]
  <2>1. data \in Seq(S) /\ s \in S  BY DEF Stored
  <2> HIDE DEF S
  <2>2. QED  BY <1>1, <1>2, <2>1, ExceptSeq
<1>4. Nodes' = Nodes  BY <1>3 DEF Nodes
<1>5. \A d \in dirs \ Users : d \in 1 .. Len(data) /\ d # x  BY <1>2 DEF Stored, Nodes
<1>6. Stored'  BY <1>1, <1>3, <1>4, <1>5 DEF Stored
<1>7. Spared(own, u, x)
  <2>1. /\ Len(data) \in Nat /\ Len(data) <= Len(data') /\ Len(data') \in Nat
        /\ Len(data') # NewNode
    BY <1>3, Numbers
  <2>2. UNCHANGED <<link, dirs>>  BY <1>1
  <2>3. QED  BY <1>3, <2>1, <2>2 DEF Spared
<1>8. Tree(own)'  BY <1>1, <1>4 DEF Tree
<1>9. Extends(own, own, u)  BY <1>3, Numbers DEF Extends
<1>10. QED  BY <1>6, <1>7, <1>8, <1>9

LEMMA ChangesSpare ==
    ASSUME Stored, NEW own, Tree(own), NEW u \in Users, NEW x, Changes(own, u, x)
    PROVE  /\ Stored' /\ Spared(own, u, x)
           /\ \E new : Tree(new)' /\ Extends(own, new, u)
<1>1. CASE x = NoNode /\ SameFiles
  <2>1. UNCHANGED <<link, dirs, data>>  BY <1>1 DEF SameFiles, files
  <2>2. /\ link' \in [DOMAIN link' -> 1 .. Len(data)] /\ DOMAIN link' \subseteq dirs \X Names
        /\ \A f \in DOMAIN link' : own[link'[f]] = own[f[1]]
        /\ \A f, g \in DOMAIN link' : link'[f] = link'[g] => f = g
        /\ \A y \in Nodes, n \in Names : own[y] # u => Entry(link', y, n) = Entry(link, y, n)
    BY <2>1 DEF Stored, Tree
  <2>3. QED  BY <1>1, <2>1, <2>2, SameTree
<1>2. QED  BY <1>1, MakesSpare, DropsSpare, MovesSpare, WritesSpare DEF Changes

-----------------------------------------------------------------------------
(* What the others find.                                                   *)

Others(u, x) == \A v \in Users : v # u =>
    work'[v] = IF work[v].op = "copy" /\ work[v].in # NoNode /\ work[v].in = x
               THEN [work[v] EXCEPT !.clean = FALSE] ELSE work[v]

\* What is in v's directory, or another node of its kind, stays there.
Persists(v) == \A p \in Under(v) : Lookup(link, p) # NoNode =>
    /\ Lookup(link', p) # NoNode
    /\ Lookup(link, p) \in dirs => Lookup(link', p) \in dirs'

\* The thread of v goes on where it was.
Aside(v) ==
    /\ \/ work'[v] = work[v]
       \/ work[v].op = "copy" /\ work'[v] = [work[v] EXCEPT !.clean = FALSE]
    /\ Persists(v)
    /\ dirs \subseteq dirs' /\ Len(data) <= Len(data') /\ Len(data') \in Nat
    /\ At(v, "read") /\ work'[v].clean =>
          data'[work[v].out] = data[work[v].out] /\ data'[work[v].in] = data[work[v].in]

LEMMA NothingThen == ASSUME Stored' PROVE NoNode \notin dirs'
<1>1. Len(data') \in Nat  BY LenProperties DEF Stored
<1>2. dirs' \subseteq Users \cup 1 .. Len(data')  BY DEF Stored, Nodes
<1>3. QED  BY <1>1, <1>2, SharingAssumption

\* The call that follows.
LEMMA LookupSpared ==
    ASSUME Stored, Stored', NEW own, Tree(own), NEW v \in Users,
           \A y \in Nodes, n \in Names : own[y] = v => Entry(link', y, n) = Entry(link, y, n),
           NEW p \in Under(v)
    PROVE  Lookup(link', p) = Lookup(link, p)
<1> DEFINE T == {NoNode} \cup {y \in Nodes : own[y] = v}
<1>1. p \in Seq(Users \cup Names) /\ Len(p) \in Nat /\ Len(p) >= 1 /\ p[1] = v  BY Whole DEF Under
<1>2. v \in T  BY DEF Nodes, Tree
<1>3. ASSUME NEW y \in T, NEW n \in Names
      PROVE  Entry(link, y, n) \in T /\ Entry(link', y, n) = Entry(link, y, n)
  <2>1. CASE y = NoNode
    <3>1. Entry(link, y, n) = NoNode  BY <2>1, NothingThere
    <3>2. NoNode \notin dirs'  BY NothingThen
    <3>3. Entry(link', y, n) = NoNode  BY <2>1, <3>2 DEF Stored, Entry
    <3>4. QED  BY <3>1, <3>3
  <2>2. CASE y \in Nodes /\ own[y] = v
    <3>1. Entry(link', y, n) = Entry(link, y, n)  BY <2>2
    <3>2. Entry(link, y, n) \in T  BY <2>2, Within
    <3>3. QED  BY <3>1, <3>2
  <2>3. QED  BY <2>1, <2>2
<1> HIDE DEF T
<1>4. \A y \in T, i \in 2 .. Len(p) :
        Entry(link, y, p[i]) \in T /\ Entry(link', y, p[i]) = Entry(link, y, p[i])
  BY <1>3 DEF Under
<1>5. QED  BY <1>1, <1>2, <1>4, SameWithin

LEMMA WorkIs == ASSUME Typed, NEW u \in Users
    PROVE  /\ work[u].op = "copy" => work[u] \in Copies
           /\ work[u].op = "upload" => work[u] \in Uploads
           /\ work[u].op = "delete" => work[u] \in Deletes
  BY DEF Typed, Idle, Uploads, Deletes, Copies

LEMMA Bystander ==
    ASSUME Stored, Stored', NEW own, Tree(own), Holds(own), NEW u \in Users, NEW x,
           Spared(own, u, x), x = NoNode \/ (x \in Files /\ own[x] = u), Others(u, x), Sound,
           NEW v \in Users, v # u, Typed
    PROVE  Aside(v) /\ \A p \in Under(v) : Lookup(link', p) = Lookup(link, p)
<1>1. \A p \in Under(v) : Lookup(link', p) = Lookup(link, p)
  <2>1. \A y \in Nodes, n \in Names : own[y] = v => Entry(link', y, n) = Entry(link, y, n)
    BY DEF Spared
  <2>2. QED  BY <2>1, LookupSpared
<1>2. dirs \subseteq dirs' /\ Len(data) <= Len(data') /\ Len(data') \in Nat  BY DEF Spared
<1>3. \/ work'[v] = work[v]
      \/ work[v].op = "copy" /\ work'[v] = [work[v] EXCEPT !.clean = FALSE]
  BY DEF Others
<1>4. ASSUME At(v, "read"), work'[v].clean
      PROVE  data'[work[v].out] = data[work[v].out] /\ data'[work[v].in] = data[work[v].in]
  <2>1. work[v].out \in 1 .. Len(data) /\ own[work[v].out] = v  BY <1>4 DEF Holds, Files
  <2>2. work[v].in \in 1 .. Len(data)  BY <1>4 DEF At, Sound, Copying
  <2>3. Len(data) \in Nat  BY Numbers
  <2>4. work[v].out # x  BY <2>1, <2>3, SharingAssumption
  <2>5. work[v].in # NoNode  BY <2>2, <2>3, SharingAssumption
  <2>6. work[v].in # x
    <3>1. SUFFICES ASSUME work[v].in = x PROVE FALSE  OBVIOUS
    <3>2. work'[v] = [work[v] EXCEPT !.clean = FALSE]  BY <1>4, <2>5, <3>1 DEF Others, At
    <3>3. work[v] \in Copies  BY <1>4, WorkIs DEF At
    <3>4. work'[v].clean = FALSE  BY <3>2, <3>3 DEF Copies
    <3>5. QED  BY <1>4, <3>4
  <2>7. QED  BY <2>1, <2>2, <2>4, <2>6 DEF Spared
<1>5. QED  BY <1>1, <1>2, <1>3, <1>4 DEF Aside, Persists

-----------------------------------------------------------------------------
(* What the histories are good for.                                        *)

LEMMA Remembered == ASSUME Remembers, NEW u \in Users
    PROVE  /\ exposed[u] \subseteq exposed'[u] /\ given[u] \subseteq given'[u]
           /\ \A p \in offers'[u] : NodesAt(link', p) \subseteq exposed'[u]
           /\ \A x \in exposed'[u] \ dirs' : ToSet(data'[x]) \subseteq given'[u]
  BY DEF Remembers

LEMMA ExposedStep == ASSUME Remembers PROVE Exposed'
  BY Remembered DEF Exposed

\* What lies below an offered path has been exposed.
LEMMA BelowOffered ==
    ASSUME Stored, Typed, Exposed, NEW u \in Users, NEW p \in Offered, IsOffered(u, p),
           Node(p) # NoNode
    PROVE  Node(p) \in exposed[u] /\ Node(p) \in 1 .. Len(data)
<1> DEFINE nodes == {link[e] : e \in DOMAIN link}
           P == Users \cup Names
<1>1. PICK q \in offers[u] : IsPrefix(q, p)  BY DEF IsOffered
<1>2. q \in Offered /\ q \in Seq(P) /\ Len(q) \in Nat /\ Len(q) >= 2  BY PathIs DEF Typed
<1>3. p \in Seq(P) /\ Len(p) \in Nat  BY PathIs
<1>4. Len(q) <= Len(p) /\ q = SubSeq(p, 1, Len(q))  BY <1>1, <1>2, Whole DEF IsPrefix
<1>5. Len(q) \in 1 .. Len(p)  BY <1>2, <1>3, <1>4
<1>6. Node(q) # NoNode  BY <1>3, <1>4, <1>5, PathPresent, NothingThere DEF Node
<1>7. Node(q) \in nodes  BY <1>2, <1>6, Deep
<1>8. Node(p) \in nodes /\ Node(p) \in 1 .. Len(data)  BY Deep
<1>9. ASSUME NEW S \in SUBSET nodes, Node(q) \in S,
             \A e \in DOMAIN link : e[1] \in S => link[e] \in S
      PROVE  Node(p) \in S
  <2> DEFINE T == S \cup {NoNode}
  <2>1. ASSUME NEW y \in T, NEW n PROVE Entry(link, y, n) \in T
    <3>1. CASE Entry(link, y, n) = NoNode  BY <3>1
    <3>2. CASE Entry(link, y, n) # NoNode
      <4>1. <<y, n>> \in DOMAIN link /\ Entry(link, y, n) = link[<<y, n>>] /\ y \in dirs
        BY <3>2, EntryIs
      <4>2. y # NoNode  BY <4>1, NothingThere DEF Stored
      <4>3. QED  BY <1>9, <4>1, <4>2
    <3>3. QED  BY <3>1, <3>2
  <2>2. Lookup(link, SubSeq(p, 1, Len(q))) \in T  BY <1>4, <1>9 DEF Node
  <2> HIDE DEF T, P
  <2>3. Len(p) \in 1 .. Len(p) /\ Len(q) \in 1 .. Len(p)  BY <1>3, <1>5
  <2>4. Lookup(link, SubSeq(p, 1, Len(p))) \in T  BY <1>3, <2>1, <2>2, <2>3, LookupIn
  <2>5. Node(p) \in T  BY <1>3, <2>4, Whole DEF Node
  <2>6. QED  BY <2>5 DEF T
<1>10. Node(p) \in NodesAt(link, q)  BY <1>6, <1>8, <1>9 DEF NodesAt, Node
<1>11. QED  BY <1>1, <1>8, <1>10 DEF Exposed

\* A path that nothing happened to led where it leads now.
LEMMA SteadyBack ==
    ASSUME Remembers, NEW u \in Users, work'[u].op = "copy", NEW p \in Seq(Users \cup Names),
           Len(p) >= 1, Steady(u, p)'
    PROVE  Steady(u, p) /\ Lookup(link, p) = Lookup(link', p)
<1>1. touched'[u] = touched[u] \cup {e \in DOMAIN link \cup DOMAIN link' :
                        Entry(link, e[1], e[2]) # Entry(link', e[1], e[2])}
  BY DEF Remembers
<1>2. ASSUME NEW y, NEW n, <<y, n>> \notin touched'[u]
      PROVE  Entry(link, y, n) = Entry(link', y, n)
  <2>1. CASE <<y, n>> \in DOMAIN link \cup DOMAIN link'  BY <1>1, <1>2, <2>1
  <2>2. CASE <<y, n>> \notin DOMAIN link \cup DOMAIN link'  BY <2>2 DEF Entry
  <2>3. QED  BY <2>1, <2>2
<1>3. \A i \in 1 .. Len(p) - 1 : <<Lookup(link', SubSeq(p, 1, i)), p[i + 1]>> \notin touched'[u]
  BY DEF Steady, Node
<1>4. AlikeOn(link, link', p)  BY <1>2, <1>3 DEF AlikeOn
<1>5. /\ \A i \in 1 .. Len(p) : Lookup(link, SubSeq(p, 1, i)) = Lookup(link', SubSeq(p, 1, i))
      /\ Lookup(link, p) = Lookup(link', p)
  <2>1. PICK l, m, P : l = link /\ m = link' /\ P = Users \cup Names  OBVIOUS
  <2>2. AlikeOn(l, m, p) /\ p \in Seq(P) /\ Len(p) >= 1  BY <1>4, <2>1
  <2>3. \A i \in 1 .. Len(p) : Lookup(l, SubSeq(p, 1, i)) = Lookup(m, SubSeq(p, 1, i))
    BY ONLY <2>2, AlikeTo
  <2>4. Lookup(l, p) = Lookup(m, p)  BY ONLY <2>2, Alike
  <2>5. QED  BY <2>1, <2>3, <2>4
<1>6. \A i \in 1 .. Len(p) - 1 : i \in 1 .. Len(p)  BY Whole
<1>7. Steady(u, p)  BY <1>1, <1>3, <1>5, <1>6 DEF Steady, Node
<1>8. QED  BY <1>5, <1>7

\* A step after which a copy goes on, and finds what was in its user's directory.
Onward(u) ==
    /\ Remembers /\ work'[u].op = "copy"
    /\ offers[u] \subseteq offers'[u] /\ dirs \subseteq dirs'
    /\ Persists(u)

LEMMA FrameKept ==
    ASSUME Stored, NEW u \in Users, Onward(u), NEW f \in Frames, FrameFits(u, f)
    PROVE  /\ FrameFits(u, f)'
           /\ \A n \in Names : FrameDone(u, f, n) => FrameDone(u, f, n)'
<1>1. f.src \in Offered /\ f.src \in Seq(Users \cup Names) /\ Len(f.src) >= 1
      /\ f.src \in Under(f.src[1]) /\ f.src[1] \in Users
  <2>1. f.src \in Offered  BY DEF Frames
  <2>2. Len(f.src) \in Nat /\ Len(f.src) >= 2  BY <2>1, PathIs
  <2>3. QED  BY <2>1, <2>2, PathIs DEF Offered
<1>2. f.dst \in Under(u) /\ Node(f.dst) \in dirs  BY DEF FrameFits
<1>3. FrameFits(u, f)'
  <2>1. IsOffered(u, f.src)'  BY DEF IsOffered, FrameFits, Onward
  <2>2. Node(f.dst) # NoNode  BY <1>2, NothingThere DEF Stored
  <2>3. Node(f.dst)' \in dirs'  BY <1>2, <2>2 DEF Onward, Persists, Node
  <2>4. ASSUME Steady(u, f.src)' PROVE Node(f.src)' = f.dir
    BY <1>1, <2>4, SteadyBack DEF FrameFits, Onward, Node
  <2>5. QED  BY <1>2, <2>1, <2>3, <2>4 DEF FrameFits, Under
<1>4. ASSUME NEW n \in Names, FrameDone(u, f, n) PROVE FrameDone(u, f, n)'
  <2>1. Append(f.src, n) \in Offered /\ Append(f.dst, n) \in Under(u)  BY <1>1, <1>2, Longer
  <2> DEFINE p == Append(f.src, n)
             q == Append(f.dst, n)
  <2>2. p \in Seq(Users \cup Names) /\ Len(p) \in Nat /\ Len(p) >= 1
    <3>1. p \in Offered  BY <2>1
    <3> HIDE DEF p
    <3>2. QED  BY <3>1, PathIs
  <2>3. FrameDone(u, f, n) <=> (Lookup(link, p) # NoNode /\ Steady(u, p) => Lookup(link, q) # NoNode)
    BY DEF FrameDone, Untouched, Steady, Node
  <2>4. FrameDone(u, f, n)' <=> (Lookup(link', p) # NoNode /\ Steady(u, p)' => Lookup(link', q) # NoNode)
    BY DEF FrameDone, Untouched, Steady, Node
  <2> HIDE DEF p
  <2>5. ASSUME Lookup(link', p) # NoNode, Steady(u, p)' PROVE Lookup(link', q) # NoNode
    <3>1. Steady(u, p) /\ Lookup(link, p) = Lookup(link', p)
      BY <2>2, <2>5, SteadyBack DEF Onward
    <3>2. Lookup(link, q) # NoNode  BY <1>4, <2>3, <2>5, <3>1
    <3>3. QED  BY <2>1, <3>2 DEF Onward, Persists
  <2>6. QED  BY <2>4, <2>5
<1>5. QED  BY <1>3, <1>4

LEMMA AsideKeeps ==
    ASSUME Stored, Typed, NEW v \in Users, Aside(v), Remembers, offers[v] \subseteq offers'[v],
           work[v].op = "copy", Copying(v), InFrames(v)
    PROVE  Copying(v)' /\ InFrames(v)' /\ work'[v].op = "copy"
<1> DEFINE w == work[v]
           z == work'[v]
<1>1. w \in Copies  BY WorkIs
<1>2. /\ z.op = "copy" /\ z.pc = w.pc /\ z.src = w.src /\ z.dst = w.dst /\ z.frames = w.frames
      /\ z.in = w.in /\ z.out = w.out /\ z.off = w.off
      /\ z.clean => w.clean
  BY <1>1 DEF Aside, Copies
<1>3. Onward(v)  BY <1>2 DEF Onward, Aside
<1>4. Copying(v)'
  <2>1. IsOffered(v, w.src)'  BY <1>2 DEF Copying, IsOffered
  <2>2. w.dst \in Under(v) /\ Front(w.dst) \in Under(v)
    <3>1. w.dst \in Under(v) /\ w.dst \in Offered  BY <1>1 DEF Copying, Copies
    <3>2. w.dst[1] = v  BY <3>1 DEF Under
    <3>3. QED  BY <3>1, <3>2, PathIs
  <2>3. Lookup(link', Front(w.dst)) \in dirs'
    BY <2>2, NothingThere DEF Copying, Aside, Persists, Node, Stored
  <2>4. w.pc = "opendir" => Lookup(link', w.dst) \in dirs'
    BY <2>2, NothingThere DEF Copying, Aside, Persists, Node, Stored
  <2>5. w.pc \in {"openOut", "read"} => w.in \in exposed'[v] /\ w.in \in 1 .. Len(data')
    <3>1. ASSUME w.in \in 1 .. Len(data) PROVE w.in \in 1 .. Len(data')
      BY <3>1, Numbers DEF Aside
    <3>2. QED  BY <3>1, Remembered DEF Copying
  <2>6. ASSUME w.pc = "read", z.clean
        PROVE  /\ w.in # w.out /\ w.off <= Len(data'[w.in])
               /\ data'[w.out] = SubSeq(data'[w.in], 1, w.off)
    BY <1>2, <2>6 DEF Copying, Aside, At
  <2>7. w.dst \in Under(v)'  BY <2>2 DEF Under
  <2>8. QED
    BY <1>2, <2>1, <2>3, <2>4, <2>5, <2>6, <2>7 DEF Copying, Node
<1>5. InFrames(v)'
  <2> SUFFICES ASSUME NEW i \in 1 .. Len(z.frames), NEW f, f = z.frames[i]
               PROVE  /\ FrameFits(v, f)'
                      /\ \A n \in f.seen : FrameDone(v, f, n)' \/ (i = 1 /\ Underway(v, f, n)')
    BY DEF InFrames
  <2>1. f \in Frames /\ i \in 1 .. Len(w.frames) /\ f = w.frames[i]
    BY <1>1, <1>2, ElementOfSeq DEF Copies
  <2>2. FrameFits(v, f) /\ \A n \in f.seen : FrameDone(v, f, n) \/ (i = 1 /\ Underway(v, f, n))
    BY <2>1 DEF InFrames
  <2>3. \A n : Underway(v, f, n) => Underway(v, f, n)'  BY <1>2 DEF Underway
  <2>4. f.seen \subseteq Names  BY <2>1 DEF Frames
  <2>5. QED  BY <1>3, <2>1, <2>2, <2>3, <2>4, FrameKept
<1>6. QED  BY <1>2, <1>4, <1>5

-----------------------------------------------------------------------------
(* What each step does.                                                    *)

WorkSet == {Idle} \cup Uploads \cup Deletes \cup Copies

\* A file of the user's, or one that is new.
Mine(own, u, x) ==
    \/ x \in Files /\ own[x] = u
    \/ x = NewNode /\ Len(data') = NewNode /\ UNCHANGED dirs
HoldsNext(own, u) ==
    /\ work'[u].op = "upload" => Mine(own, u, work'[u].node)
    /\ work'[u].op = "copy" /\ work'[u].pc = "read" => Mine(own, u, work'[u].out)

\* The thread of u goes on with w.
Turns(u, w, x) ==
    /\ work' = [v \in Users |-> work'[v]]
    /\ work'[u] = w /\ w \in WorkSet
    /\ Others(u, x)

Does(own, u) == \E x, w : Changes(own, u, x) /\ Turns(u, w, x) /\ HoldsNext(own, u)

Stained(w, x) == IF w.op = "copy" /\ w.in # NoNode /\ w.in = x THEN [w EXCEPT !.clean = FALSE] ELSE w

LEMMA StainedIs ==
    ASSUME NEW w \in WorkSet, NEW x
    PROVE  /\ Stained(w, x) \in WorkSet /\ Stained(w, x).op = w.op
           /\ w.op # "copy" => Stained(w, x) = w
           /\ w \in Copies =>
                /\ Stained(w, x) \in Copies
                /\ Stained(w, x) = w \/ (w.in = x /\ Stained(w, x) = [w EXCEPT !.clean = FALSE])
                /\ Stained(w, x).pc = w.pc /\ Stained(w, x).out = w.out
  BY DEF WorkSet, Stained, Copies, Idle, Uploads, Deletes

LEMMA Turning ==
    ASSUME NEW u \in Users, NEW w \in WorkSet, NEW x, GoesOn(u, w, x)
    PROVE  Turns(u, Stained(w, x), x)
<1>1. work' = [v \in Users |-> IF v = u THEN Stained(w, x) ELSE
            IF work[v].op = "copy" /\ work[v].in # NoNode /\ work[v].in = x
            THEN [work[v] EXCEPT !.clean = FALSE] ELSE work[v]]
  BY DEF GoesOn, Stained
<1>2. work'[u] = Stained(w, x) /\ work' = [v \in Users |-> work'[v]] /\ Others(u, x)
  BY <1>1 DEF Others
<1>3. QED  BY <1>2, StainedIs DEF Turns

\* Where nothing is written, nobody is disturbed.
LEMMA TurningOnly ==
    ASSUME NEW u \in Users, NEW w \in WorkSet, GoesOn(u, w, NoNode)
    PROVE  Turns(u, w, NoNode)
<1>1. Stained(w, NoNode) = w  BY DEF Stained
<1>2. QED  BY <1>1, Turning

LEMMA Stays ==
    ASSUME Typed, NEW u \in Users, UNCHANGED work
    PROVE  Turns(u, work[u], NoNode)
<1>1. work' = [v \in Users |-> work'[v]] /\ work[u] \in WorkSet  BY DEF Typed, WorkSet
<1>2. \A v \in Users : ~(work[v].op = "copy" /\ work[v].in # NoNode /\ work[v].in = NoNode)
  OBVIOUS
<1>3. Others(u, NoNode)  BY <1>2 DEF Others
<1>4. QED  BY <1>1, <1>3 DEF Turns

LEMMA CallIs ==
    ASSUME NEW u \in Users, work[u] \in Copies, NEW pc \in Calling, Calls(u, pc)
    PROVE  /\ Turns(u, [work[u] EXCEPT !.pc = pc], NoNode)
           /\ [work[u] EXCEPT !.pc = pc] \in Copies
<1>1. [work[u] EXCEPT !.pc = pc] \in Copies  BY DEF Copies
<1>2. QED  BY <1>1, TurningOnly DEF Calls, WorkSet

LEMMA CopyIs ==
    ASSUME NEW pc \in Calling, NEW s \in Offered, NEW d \in Offered, NEW fs \in Seq(Frames)
    PROVE  /\ Copy(pc, s, d, fs) \in Copies
           /\ Copy(pc, s, d, fs).pc = pc /\ Copy(pc, s, d, fs).src = s
           /\ Copy(pc, s, d, fs).dst = d /\ Copy(pc, s, d, fs).frames = fs
           /\ Copy(pc, s, d, fs).off = 0 /\ Copy(pc, s, d, fs).op = "copy"
  BY DEF Copy, Copies

LEMMA HeadIs ==
    ASSUME NEW F, NEW fs \in Seq(F), fs # << >>
    PROVE  /\ Head(fs) \in F /\ Tail(fs) \in Seq(F) /\ Head(fs) = fs[1] /\ 1 \in 1 .. Len(fs)
           /\ Len(fs) \in Nat /\ Len(Tail(fs)) = Len(fs) - 1
           /\ \A i \in 1 .. Len(fs) - 1 : Tail(fs)[i] = fs[i + 1]
<1>1. Len(fs) \in Nat \ {0}  BY EmptySeq
<1>2. QED  BY <1>1, HeadTailProperties

LEMMA HeadFrame ==
    ASSUME NEW fs \in Seq(Frames), fs # << >>
    PROVE  /\ Head(fs) \in Frames /\ Tail(fs) \in Seq(Frames)
           /\ Head(fs).src \in Offered /\ Head(fs).dst \in Offered /\ Head(fs).seen \subseteq Names
<1>1. Head(fs) \in Frames /\ Tail(fs) \in Seq(Frames)  BY HeadIs
<1>2. QED  BY <1>1 DEF Frames

LEMMA Returning ==
    ASSUME NEW u \in Users, NEW fs \in Seq(Frames), Returns(u, fs)
    PROVE  \/ fs = << >> /\ Turns(u, Idle, NoNode)
           \/ /\ fs # << >>
              /\ Turns(u, Copy("readdir", Head(fs).src, Head(fs).dst, fs), NoNode)
              /\ Copy("readdir", Head(fs).src, Head(fs).dst, fs) \in Copies
<1>1. CASE fs = << >>
  <2>1. GoesOn(u, Idle, NoNode)  BY <1>1 DEF Returns
  <2>2. QED  BY <1>1, <2>1, TurningOnly DEF WorkSet
<1>2. CASE fs # << >>
  <2> DEFINE w == Copy("readdir", Head(fs).src, Head(fs).dst, fs)
  <2>1. w \in Copies
    <3>1. "readdir" \in Calling  BY DEF Calling
    <3>2. Head(fs).src \in Offered /\ Head(fs).dst \in Offered  BY <1>2, HeadFrame
    <3>3. QED  BY <3>1, <3>2, CopyIs
  <2>2. GoesOn(u, w, NoNode)  BY <1>2 DEF Returns
  <2> HIDE DEF w
  <2>3. Turns(u, w, NoNode)  BY <2>1, <2>2, TurningOnly DEF WorkSet
  <2>4. QED  BY <1>2, <2>1, <2>3 DEF w
<1>3. QED  BY <1>1, <1>2

\* A thread that turns to anything but writing does not write.
LEMMA DoesQuietly ==
    ASSUME NEW own, NEW u \in Users, NEW x, NEW w, Changes(own, u, x), Turns(u, w, x),
           w.op # "upload", w.op = "copy" => w.pc # "read"
    PROVE  Does(own, u)
  BY DEF Does, HoldsNext, Turns

LEMMA ReturnsQuietly ==
    ASSUME NEW own, NEW u \in Users, NEW fs \in Seq(Frames), Returns(u, fs),
           Changes(own, u, NoNode)
    PROVE  Does(own, u)
<1>1. PICK w : Turns(u, w, NoNode) /\ (w = Idle \/ (w \in Copies /\ w.pc = "readdir"))
  <2>1. CASE fs = << >>  BY <2>1, Returning
  <2>2. CASE fs # << >>
    <3> DEFINE w == Copy("readdir", Head(fs).src, Head(fs).dst, fs)
    <3>1. Turns(u, w, NoNode) /\ w \in Copies  BY <2>2, Returning
    <3>2. w.pc = "readdir"  BY DEF Copy
    <3>3. QED  BY <3>1, <3>2
  <2>3. QED  BY <2>1, <2>2
<1>2. w.op # "upload" /\ (w.op = "copy" => w.pc # "read")  BY <1>1 DEF Idle, Copies
<1>3. QED  BY <1>1, <1>2, DoesQuietly

-----------------------------------------------------------------------------
LEMMA NewAt ==
    ASSUME Stored, NEW own, Tree(own), NEW u \in Users, NEW p \in Under(u), p \in Offered,
           Node(p) = NoNode, Parent(p) \in dirs,
           link' = Linked(<<Parent(p), Last(p)>>, NewNode), data' = Append(data, << >>),
           dirs' = dirs \/ dirs' = dirs \cup {NewNode}
    PROVE  Makes(own, u) /\ Changes(own, u, NoNode) /\ Len(data') = NewNode
<1>1. p[1] = u  BY DEF Under
<1>2. Front(p) \in Under(u) /\ Last(p) \in Names /\ Node(p) = Entry(link, Parent(p), Last(p))
  BY <1>1, PathIs DEF Node, Parent
<1>3. Parent(p) # NoNode  BY NothingThere DEF Stored
<1>4. own[Parent(p)] = u  BY <1>2, <1>3, Owned DEF Parent
<1>5. <<Parent(p), Last(p)>> \notin DOMAIN link
  <2>1. SUFFICES ASSUME <<Parent(p), Last(p)>> \in DOMAIN link PROVE FALSE  OBVIOUS
  <2>2. NoNode = link[<<Parent(p), Last(p)>>]  BY <1>2, <2>1 DEF Entry
  <2>3. NoNode \in 1 .. Len(data)  BY <2>1, <2>2 DEF Stored
  <2>4. QED  BY <2>3, Numbers, SharingAssumption
<1>6. Makes(own, u)  BY <1>2, <1>4, <1>5 DEF Makes
<1>7. Len(data') = NewNode
  <2> DEFINE S == Seq(Users \X Nat)
  <2>1. << >> \in S /\ data \in Seq(S)  BY DEF Stored
  <2> HIDE DEF S
  <2>2. QED  BY <2>1, AppendProperties DEF NewNode
<1>8. QED  BY <1>6, <1>7 DEF Changes

LEMMA OldAt ==
    ASSUME Stored, NEW own, Tree(own), NEW u \in Users, NEW p \in Under(u), p \in Offered,
           Node(p) # NoNode
    PROVE  /\ Node(p) \in 1 .. Len(data) /\ own[Node(p)] = u
           /\ <<Parent(p), Last(p)>> \in DOMAIN link /\ own[Parent(p)] = u
           /\ Parent(p) \in dirs /\ Last(p) \in Names
<1>1. /\ Node(p) \in 1 .. Len(data) /\ Parent(p) \in dirs
      /\ <<Parent(p), Last(p)>> \in DOMAIN link
  BY Deep DEF Parent
<1>2. own[Node(p)] = u  BY Owned
<1>3. Front(p) \in Under(u) /\ Last(p) \in Names  BY PathIs DEF Under
<1>4. Parent(p) # NoNode  BY <1>1, NothingThere DEF Stored
<1>5. own[Parent(p)] = u  BY <1>3, <1>4, Owned DEF Parent
<1>6. QED  BY <1>1, <1>2, <1>3, <1>5

LEMMA DropAt ==
    ASSUME Stored, NEW own, Tree(own), NEW u \in Users, NEW p \in Under(u), p \in Offered,
           Node(p) # NoNode, link' = Unlinked(<<Parent(p), Last(p)>>), UNCHANGED <<dirs, data>>
    PROVE  Changes(own, u, NoNode)
<1>1. <<Parent(p), Last(p)>> \in DOMAIN link /\ own[Parent(p)] = u  BY OldAt
<1>2. PICK e : e = <<Parent(p), Last(p)>>  OBVIOUS
<1>3. e \in DOMAIN link /\ own[e[1]] = u /\ link' = Unlinked(e)  BY <1>1, <1>2
<1>4. QED  BY <1>3 DEF Changes, Drops

\* What a rename does, wherever its new name leads to.
LEMMA RenameIs ==
    ASSUME Stored, NEW own, Tree(own), NEW u \in Users, NEW v \in Users, NEW p \in PathsOf(u),
           NEW q \in PathsOf(v), HandleRenameFile(u, p, q)
    PROVE  \E e \in DOMAIN link, d \in dirs, n \in Names :
              /\ own[e[1]] = u /\ own[d] = v /\ Moved(e, d, n)
              /\ link[e] = Node(p) /\ Entry(link, d, n) = Node(q)
              /\ \A m : Entry(link, Node(q), m) = NoNode
              /\ Node(q) \in dirs => Node(p) \in dirs
<1> DEFINE from == <<Parent(p), Last(p)>>
           d == Parent(q)
           n == Last(q)
<1>1. p \in Offered /\ p \in Under(u) /\ q \in Offered /\ q \in Under(v)  BY Selected
<1>2. Node(p) # NoNode /\ d \in dirs /\ CanRename(p, q)  BY DEF HandleRenameFile
<1>3. from \in DOMAIN link /\ own[from[1]] = u  BY <1>1, <1>2, OldAt
<1>4. link[from] = Node(p)  BY <1>1, <1>2, Deep
<1>5. q[1] = v  BY <1>1 DEF Under
<1>6. Front(q) \in Under(v) /\ n \in Names /\ Node(q) = Entry(link, d, n)
  BY <1>1, <1>5, PathIs DEF Node, Parent
<1>7. d # NoNode  BY <1>2, NothingThere DEF Stored
<1>8. own[d] = v  BY <1>6, <1>7, Owned DEF Parent
<1>9. Moved(from, d, n)  BY DEF HandleRenameFile, Moved
<1>10. Node(q) \in dirs => Node(p) \in dirs /\ Children(Node(q)) = {}
  BY <1>2, NothingThere DEF CanRename, Stored
<1>11. ASSUME NEW m PROVE Entry(link, Node(q), m) = NoNode
  <2>1. SUFFICES ASSUME Entry(link, Node(q), m) # NoNode PROVE FALSE  OBVIOUS
  <2>2. <<Node(q), m>> \in DOMAIN link /\ Node(q) \in dirs  BY <2>1, EntryIs
  <2>3. <<Node(q), m>> \in Children(Node(q))  BY <2>2 DEF Children
  <2>4. QED  BY <1>10, <2>2, <2>3
<1> HIDE DEF from, d, n
<1>12. QED  BY <1>2, <1>3, <1>4, <1>6, <1>8, <1>9, <1>10, <1>11

LEMMA RequestsDo ==
    ASSUME Stored, Typed, NEW own, Tree(own), NEW u \in Users, NEW p \in PathsOf(u),
           \/ HandleDelFile(u, p) \/ RenameAway(u, p) \/ HandleDelDir(u, p)
           \/ \E q \in PathsOf(u) : HandleRenameFile(u, p, q)
    PROVE  Does(own, u)
<1>1. p \in Offered /\ p \in Under(u)  BY Selected
<1>2. Idle.op # "upload" /\ Idle.op # "copy"  BY DEF Idle
<1>4. CASE HandleDelFile(u, p) \/ RenameAway(u, p)
  <2>1. Changes(own, u, NoNode)  BY <1>1, <1>4, DropAt DEF HandleDelFile, RenameAway
  <2>2. Turns(u, Idle, NoNode)  BY <1>4, Stays DEF HandleDelFile, RenameAway, Asks
  <2>3. QED  BY <1>2, <2>1, <2>2, DoesQuietly
<1>5. CASE HandleDelDir(u, p)
  <2> DEFINE w == Delete(p)
  <2>1. w \in WorkSet /\ w.op = "delete"  BY <1>1 DEF Delete, WorkSet, Deletes
  <2> HIDE DEF w
  <2>2. Turns(u, w, NoNode)  BY <1>5, <2>1, TurningOnly DEF HandleDelDir, w
  <2>3. Changes(own, u, NoNode)  BY <1>5 DEF HandleDelDir, Changes
  <2>4. QED  BY <2>1, <2>2, <2>3, DoesQuietly
<1>6. ASSUME NEW q \in PathsOf(u), HandleRenameFile(u, p, q) PROVE Does(own, u)
  <2>1. PICK e \in DOMAIN link, d \in dirs, n \in Names :
          own[e[1]] = u /\ own[d] = u /\ Moved(e, d, n)
    BY <1>6, RenameIs
  <2>2. Changes(own, u, NoNode)  BY <2>1 DEF Moves, Changes
  <2>3. Turns(u, Idle, NoNode)  BY <1>6, Stays DEF HandleRenameFile, Asks
  <2>4. QED  BY <1>2, <2>2, <2>3, DoesQuietly
<1>7. QED  BY <1>4, <1>5, <1>6

\* What is new is found, and what was there is found as before.
LEMMA OnwardNew ==
    ASSUME Stored, NEW u \in Users, NEW d \in Offered, d \in Under(u), Node(d) = NoNode,
           Parent(d) \in dirs, link' = Linked(<<Parent(d), Last(d)>>, NewNode)
    PROVE  /\ \A p \in Under(u) : Lookup(link, p) # NoNode => Lookup(link', p) = Lookup(link, p)
           /\ Lookup(link', d) = NewNode
<1>1. PICK x, n : x = Parent(d) /\ n = Last(d)  OBVIOUS
<1>2. d[1] = u  BY DEF Under
<1>3. /\ Front(d) \in Under(u)
      /\ Node(d) = Entry(link, x, n) /\ Lookup(link', d) = Entry(link', Lookup(link', Front(d)), n)
  BY <1>1, <1>2, PathIs DEF Node, Parent
<1>4. <<x, n>> \notin DOMAIN link
  <2>1. SUFFICES ASSUME <<x, n>> \in DOMAIN link PROVE FALSE  OBVIOUS
  <2>2. NoNode = link[<<x, n>>]  BY <1>3, <2>1 DEF Entry
  <2>3. NoNode \in 1 .. Len(data)  BY <2>1, <2>2 DEF Stored
  <2>4. QED  BY <2>3, Numbers, SharingAssumption
<1>5. PICK e : e = <<x, n>>  OBVIOUS
<1>6. /\ DOMAIN link' = DOMAIN link \cup {e} /\ link'[e] = NewNode
      /\ \A f \in DOMAIN link : link'[f] = link[f]
  BY <1>1, <1>4, <1>5 DEF Linked
<1>7. ASSUME NEW y, NEW m, Entry(link, y, m) # NoNode
      PROVE  Entry(link', y, m) = Entry(link, y, m)
  <2>1. <<y, m>> \in DOMAIN link  BY <1>7, EntryIs
  <2>2. QED  BY <1>6, <2>1 DEF Entry
<1>8. ASSUME NEW p \in Under(u), Lookup(link, p) # NoNode
      PROVE  Lookup(link', p) = Lookup(link, p)
  <2>1. PICK l, m, P : l = link /\ m = link' /\ P = Users \cup Names  OBVIOUS
  <2>2. p \in Seq(P) /\ Len(p) >= 1  BY <2>1 DEF Under
  <2>3. Lookup(l, p) # NoNode /\ \A a : Entry(l, NoNode, a) = NoNode
    BY <1>8, <2>1, NothingThere
  <2>4. \A y, a : Entry(l, y, a) # NoNode => Entry(m, y, a) = Entry(l, y, a)  BY <1>7, <2>1
  <2>5. Lookup(m, p) = Lookup(l, p)  BY ONLY <2>2, <2>3, <2>4, Grows
  <2>6. QED  BY <2>1, <2>5
<1>9. x # NoNode  BY <1>1, NothingThere DEF Stored
<1>10. Lookup(link', Front(d)) = x  BY <1>1, <1>3, <1>8, <1>9 DEF Parent, Node
<1>11. Lookup(link', d) = NewNode  BY <1>3, <1>5, <1>6, <1>10 DEF Entry
<1>12. QED  BY <1>8, <1>11

\* A new directory, whoever has asked for it.
LEMMA CreateDoes ==
    ASSUME Stored, Typed, NEW own, Tree(own), Holds(own), NEW u \in Users, NEW v \in Users,
           NEW p \in PathsOf(v), HandleCreateDir(u, p)
    PROVE  Changes(own, v, NoNode) /\ Turns(v, work[v], NoNode) /\ HoldsNext(own, v)
<1>1. p \in Offered /\ p \in Under(v)  BY Selected
<1>2. Changes(own, v, NoNode)  BY <1>1, NewAt DEF HandleCreateDir, Vacant
<1>3. UNCHANGED work /\ Turns(v, work[v], NoNode)  BY Stays DEF HandleCreateDir
<1>4. HoldsNext(own, v)  BY <1>3 DEF HoldsNext, Holds, Mine, At
<1>5. QED  BY <1>2, <1>3, <1>4

LEMMA EmptyIs == << >> \in Seq(Users \X Nat) /\ ToSet(<< >>) = {}
  BY DEF ToSet

LEMMA UpdateDoes ==
    ASSUME Stored, Typed, NEW own, Tree(own), NEW u \in Users, NEW p \in PathsOf(u),
           HandleUpdateFile(u, p)
    PROVE  Does(own, u)
<1>1. p \in Offered /\ p \in Under(u)  BY Selected
<1>2. ASSUME NEW x \in Nat
      PROVE  Upload(x) \in WorkSet /\ Upload(x).op = "upload" /\ Upload(x).node = x
  BY SharingAssumption DEF Upload, WorkSet, Uploads, Typed
<1>3. CASE Node(p) = NoNode
  <2> DEFINE w == Upload(NewNode)
  <2>1. w \in WorkSet /\ w.op = "upload" /\ w.node = NewNode  BY <1>2, Numbers
  <2>2. Parent(p) \in dirs  BY <1>3 DEF HandleUpdateFile
  <2>3. Changes(own, u, NoNode) /\ Len(data') = NewNode
    BY <1>1, <1>3, <2>2, NewAt DEF HandleUpdateFile
  <2>4. GoesOn(u, w, NoNode) /\ dirs' = dirs  BY <1>3 DEF HandleUpdateFile
  <2> HIDE DEF w
  <2>5. Turns(u, w, NoNode)  BY <2>1, <2>4, TurningOnly
  <2>6. work'[u] = w  BY <2>5 DEF Turns
  <2>7. HoldsNext(own, u)  BY <2>1, <2>3, <2>4, <2>6 DEF HoldsNext, Mine
  <2>8. QED  BY <2>3, <2>5, <2>7 DEF Does
<1>4. CASE Node(p) # NoNode
  <2> DEFINE x == Node(p)
             w == Upload(x)
  <2>1. x \in 1 .. Len(data) /\ own[x] = u  BY <1>1, <1>4, OldAt
  <2>2. x \in Files  BY <2>1 DEF HandleUpdateFile, Files
  <2>3. w \in WorkSet /\ w.op = "upload" /\ w.node = x  BY <1>2, <2>1, Numbers
  <2>4. GoesOn(u, w, x) /\ data' = [data EXCEPT ![x] = << >>] /\ UNCHANGED <<link, dirs>>
    BY <1>4 DEF HandleUpdateFile
  <2> HIDE DEF x, w
  <2>5. Writes(own, u, x)
    <3>1. \A b \in ToSet(<< >>) : b \in ToSet(data[x]) \/ b[1] = u \/ b \in given[u]  BY EmptyIs
    <3>2. QED  BY <2>1, <2>2, <2>4, <3>1, EmptyIs DEF Writes
  <2>6. Turns(u, w, x)
    <3>1. Stained(w, x) = w  BY <2>3 DEF Stained
    <3>2. QED  BY <2>3, <2>4, <3>1, Turning
  <2>7. work'[u] = w  BY <2>6 DEF Turns
  <2>8. HoldsNext(own, u)  BY <2>1, <2>2, <2>3, <2>7 DEF HoldsNext, Mine
  <2>9. QED  BY <2>5, <2>6, <2>8 DEF Does, Changes
<1>5. QED  BY <1>3, <1>4

LEMMA Extended ==
    ASSUME Stored, NEW x \in 1 .. Len(data), NEW b \in Users \X Nat
    PROVE  /\ Append(data[x], b) \in Seq(Users \X Nat)
           /\ Len(Append(data[x], b)) = Len(data[x]) + 1 /\ Len(data[x]) \in Nat
           /\ \A i \in 1 .. Len(data[x]) : Append(data[x], b)[i] = data[x][i]
           /\ Append(data[x], b)[Len(data[x]) + 1] = b
           /\ ToSet(Append(data[x], b)) \subseteq ToSet(data[x]) \cup {b}
<1> DEFINE B == Users \X Nat
           s == data[x]
           t == Append(s, b)
<1>1. s \in Seq(B) /\ b \in B  BY Numbers
<1> HIDE DEF B, s
<1>2. /\ t \in Seq(B) /\ Len(t) = Len(s) + 1 /\ Len(s) \in Nat
      /\ \A i \in 1 .. Len(s) : t[i] = s[i]
      /\ t[Len(s) + 1] = b
  BY <1>1, AppendProperties, LenProperties
<1> HIDE DEF t
<1>3. DOMAIN t = 1 .. Len(t) /\ DOMAIN s = 1 .. Len(s)  BY <1>1, <1>2, LenProperties
<1>4. \A i \in 1 .. Len(t) : i \in 1 .. Len(s) \/ i = Len(s) + 1  BY <1>2
<1>5. ToSet(t) \subseteq ToSet(s) \cup {b}  BY <1>2, <1>3, <1>4 DEF ToSet
<1>6. QED  BY <1>2, <1>5 DEF t, s, B

LEMMA AppendDoes ==
    ASSUME Stored, NEW own, Tree(own), NEW u \in Users, NEW x \in Files, own[x] = u,
           NEW b \in Users \X Nat, b[1] = u \/ b \in given[u],
           data' = [data EXCEPT ![x] = Append(@, b)], UNCHANGED <<link, dirs>>
    PROVE  Changes(own, u, x)
<1>1. x \in 1 .. Len(data)  BY DEF Files
<1>2. PICK s : s = Append(data[x], b)  OBVIOUS
<1>3. data' = [data EXCEPT ![x] = s]  BY <1>1, <1>2 DEF Stored
<1>4. s \in Seq(Users \X Nat) /\ \A c \in ToSet(s) : c \in ToSet(data[x]) \/ c[1] = u \/ c \in given[u]
  <2>1. Append(data[x], b) \in Seq(Users \X Nat) /\ ToSet(Append(data[x], b)) \subseteq ToSet(data[x]) \cup {b}
    BY <1>1, Extended
  <2>2. QED  BY <1>2, <2>1
<1>5. QED  BY <1>3, <1>4 DEF Changes, Writes

LEMMA UploadDoes ==
    ASSUME Stored, Typed, NEW own, Tree(own), Holds(own), NEW u \in Users,
           WriteUploadData(u) \/ Abandon(u)
    PROVE  Does(own, u)
<1>1. work[u].op = "upload"  BY DEF WriteUploadData, Abandon
<1>2. PICK w : w = work[u]  OBVIOUS
<1>3. w \in Uploads /\ w.op = "upload"  BY <1>1, <1>2, WorkIs
<1>4. w.node \in Files /\ own[w.node] = u  BY <1>1, <1>2 DEF Holds
<1>5. Idle \in WorkSet /\ Idle.op # "upload" /\ Idle.op # "copy"  BY DEF WorkSet, Idle
<1>6. CASE Abandon(u)
  <2>1. Turns(u, Idle, NoNode)  BY <1>5, <1>6, TurningOnly DEF Abandon
  <2>2. Changes(own, u, NoNode)  BY <1>6 DEF Abandon, Changes, SameFiles
  <2>3. QED  BY <1>5, <2>1, <2>2, DoesQuietly
<1>7. CASE WriteUploadData(u)
  <2>1. PICK z : z = IF w.left = 1 THEN Idle ELSE [w EXCEPT !.left = @ - 1]  OBVIOUS
  <2>2. z \in WorkSet /\ z.op # "copy" /\ (z.op = "upload" => z.node = w.node)
    BY <1>3, <1>5, <2>1 DEF WorkSet, Uploads, Idle
  <2>3. GoesOn(u, z, w.node)  BY <1>2, <1>7, <2>1 DEF WriteUploadData
  <2>4. Stained(z, w.node) = z  BY <2>2 DEF Stained
  <2>5. Turns(u, z, w.node)  BY <2>2, <2>3, <2>4, Turning
  <2>6. PICK b : b = <<u, w.no>>  OBVIOUS
  <2>7. b \in Users \X Nat /\ b[1] = u  BY <1>3, <2>6 DEF Uploads
  <2>8. data' = [data EXCEPT ![w.node] = Append(@, b)] /\ UNCHANGED <<link, dirs>>
    BY <1>2, <1>7, <2>6 DEF WriteUploadData
  <2>9. Changes(own, u, w.node)  BY <1>4, <2>7, <2>8, AppendDoes
  <2>10. work'[u] = z  BY <2>5 DEF Turns
  <2>11. HoldsNext(own, u)  BY <1>4, <2>2, <2>10 DEF HoldsNext, Mine
  <2>12. QED  BY <2>5, <2>9, <2>11 DEF Does
<1>8. QED  BY <1>6, <1>7

LEMMA DeleteDoes ==
    ASSUME Stored, Typed, NEW own, Tree(own), NEW u \in Users, DeleteNext(u)
    PROVE  Does(own, u)
<1>1. PICK p \in Present(u) :
        /\ IsPrefix(work[u].path, p)
        /\ link' = Unlinked(<<Parent(p), Last(p)>>)
        /\ GoesOn(u, IF p = work[u].path THEN Idle ELSE work[u], NoNode)
        /\ UNCHANGED <<dirs, data>>
  BY DEF DeleteNext
<1>2. p \in Offered /\ p \in Under(u) /\ Node(p) # NoNode  BY <1>1, Selected DEF Present
<1>3. Changes(own, u, NoNode)  BY <1>1, <1>2, DropAt
<1>4. PICK w : w = IF p = work[u].path THEN Idle ELSE work[u]  OBVIOUS
<1>5. w \in WorkSet /\ w.op # "upload" /\ w.op # "copy"
  <2>1. work[u] \in Deletes  BY WorkIs DEF DeleteNext
  <2>2. QED  BY <1>4, <2>1 DEF WorkSet, Deletes, Idle
<1>6. Turns(u, w, NoNode)  BY <1>1, <1>4, <1>5, TurningOnly
<1>7. QED  BY <1>3, <1>5, <1>6, DoesQuietly

LEMMA ShareDoes ==
    ASSUME Stored, Typed, NEW own, Tree(own), Holds(own), NEW u \in Users,
           \/ \E v \in Users, p \in PathsOf(u) : HandleShareFile(u, v, p)
           \/ Refuse(u)
    PROVE  Does(own, u)
<1>1. UNCHANGED files /\ UNCHANGED work  BY DEF HandleShareFile, Refuse
<1>2. Turns(u, work[u], NoNode)  BY <1>1, Stays
<1>3. Changes(own, u, NoNode)  BY <1>1 DEF Changes, SameFiles
<1>4. HoldsNext(own, u)  BY <1>1 DEF Holds, HoldsNext, Mine, At
<1>5. QED  BY <1>2, <1>3, <1>4 DEF Does

LEMMA AcceptIs ==
    ASSUME Typed, NEW u \in Users, notes[u] # << >>
    PROVE  LET p == Head(notes[u]) IN
           /\ p \in Offered /\ p \in offers[u]
           /\ <<u, Last(p)>> \in Offered /\ <<u, Last(p)>> \in Under(u)
           /\ Node(Front(<<u, Last(p)>>)) = u
           /\ Copy("isDir", p, <<u, Last(p)>>, << >>) \in Copies
           /\ Tail(notes[u]) \in Seq(Offered)
           /\ \A i \in 1 .. Len(Tail(notes[u])) : Tail(notes[u])[i] \in offers[u]
<1>1. PICK s : s = notes[u]  OBVIOUS
<1>2. s \in Seq(Offered) /\ s # << >>  BY <1>1 DEF Typed
<1>3. /\ Head(s) = s[1] /\ Head(s) \in Offered /\ Tail(s) \in Seq(Offered)
      /\ Len(Tail(s)) = Len(s) - 1 /\ Len(s) \in Nat /\ Len(s) >= 1
      /\ \A i \in 1 .. Len(s) - 1 : Tail(s)[i] = s[i + 1]
  <2>1. PICK P : P = Offered  OBVIOUS
  <2>2. s \in Seq(P)  BY <1>2, <2>1
  <2>3. QED  BY ONLY <1>2, <2>1, <2>2, HeadTailProperties, EmptySeq, LenProperties
<1>4. \A i \in 1 .. Len(s) : s[i] \in offers[u]  BY <1>1 DEF Typed
<1>5. PICK n : n = Last(Head(s))  OBVIOUS
<1>6. n \in Names  BY <1>3, <1>5, PathIs
<1>7. Append(<<u>>, n) = <<u, n>>
  <2> DEFINE S == Users \cup Names
  <2>1. PICK r, t : r = <<u>> /\ t = <<u, n>>  OBVIOUS
  <2>2. /\ r \in Seq(S) /\ Len(r) = 1 /\ r[1] = u /\ n \in S
        /\ t \in Seq(S) /\ Len(t) = 2 /\ t[1] = u /\ t[2] = n
    BY <1>6, <2>1
  <2> HIDE DEF S
  <2>3. Append(r, n) \in Seq(S) /\ Len(Append(r, n)) = Len(r) + 1
    BY <2>2, AppendProperties
  <2>4. PICK s2 : s2 = Append(r, n)  OBVIOUS
  <2>5. s2 \in Seq(S) /\ Len(s2) = Len(t) /\ \A i \in 1 .. Len(s2) : s2[i] = t[i]
    <3>1. Append(r, n)[Len(r) + 1] = n  BY <2>2, AppendProperties
    <3>2. s2[1] = u /\ s2[2] = n
      <4>1. 1 \in 1 .. Len(r) /\ Len(r) + 1 = 2  BY <2>2
      <4>2. Append(r, n)[1] = r[1]  BY <2>2, <4>1, AppendProperties
      <4>3. QED  BY <2>2, <2>4, <3>1, <4>1, <4>2
    <3>3. Len(s2) = 2 /\ s2 \in Seq(S)  BY <2>2, <2>3, <2>4
    <3>4. \A i \in 1 .. 2 : i = 1 \/ i = 2  OBVIOUS
    <3>5. QED  BY <2>2, <3>2, <3>3, <3>4
  <2>6. s2 = t  BY ONLY <2>2, <2>5, SeqEqual
  <2>7. QED  BY <2>1, <2>4, <2>6
<1>8. /\ <<u, n>> \in Offered /\ <<u, n>> \in Under(u)
      /\ Front(<<u, n>>) = <<u>>
  BY <1>6, <1>7, Root, Longer
<1>9. Node(Front(<<u, n>>)) = u  BY <1>8, Root DEF Node
<1>10. << >> \in Seq(Frames) /\ "isDir" \in Calling  BY DEF Calling
<1>11. Copy("isDir", Head(s), <<u, n>>, << >>) \in Copies
  <2>1. PICK d : d = <<u, n>>  OBVIOUS
  <2>2. d \in Offered  BY <1>8, <2>1
  <2>3. Copy("isDir", Head(s), d, << >>) \in Copies  BY <1>3, <1>10, <2>2, CopyIs
  <2>4. QED  BY <2>1, <2>3
<1>12. \A i \in 1 .. Len(Tail(s)) : i + 1 \in 1 .. Len(s) /\ Tail(s)[i] = s[i + 1]  BY <1>3
<1>13. 1 \in 1 .. Len(s)  BY <1>3
<1>14. QED  BY <1>1, <1>3, <1>4, <1>5, <1>8, <1>9, <1>11, <1>12, <1>13

LEMMA AcceptDoes ==
    ASSUME Typed, NEW own, NEW u \in Users, HandleShareNoteResponse(u)
    PROVE  /\ Does(own, u)
           /\ Turns(u, Copy("isDir", Head(notes[u]), <<u, Last(Head(notes[u]))>>, << >>), NoNode)
<1>1. PICK w : w = Copy("isDir", Head(notes[u]), <<u, Last(Head(notes[u]))>>, << >>)  OBVIOUS
<1>2. w \in Copies  BY <1>1, AcceptIs DEF HandleShareNoteResponse
<1>3. w.op = "copy" /\ w.pc = "isDir"  BY <1>1 DEF Copy
<1>4. GoesOn(u, w, NoNode) /\ UNCHANGED files  BY <1>1 DEF HandleShareNoteResponse
<1>5. Turns(u, w, NoNode)  BY <1>2, <1>4, TurningOnly DEF WorkSet
<1>6. Changes(own, u, NoNode)  BY <1>4 DEF Changes, SameFiles
<1>7. QED  BY <1>1, <1>3, <1>5, <1>6, DoesQuietly

\* A call after which another one follows, or the loop or the handler goes on.
LEMMA CallsQuietly ==
    ASSUME NEW own, NEW u \in Users, work[u] \in Copies, NEW pc \in Calling, pc # "read",
           Calls(u, pc), Changes(own, u, NoNode)
    PROVE  Does(own, u)
<1>1. PICK w : w = [work[u] EXCEPT !.pc = pc]  OBVIOUS
<1>2. Turns(u, w, NoNode)  BY <1>1, CallIs
<1>3. w.op = "copy" /\ w.pc = pc  BY <1>1 DEF Copies
<1>4. QED  BY <1>2, <1>3, DoesQuietly

LEMMA CopyTyped ==
    ASSUME Typed, NEW u \in Users, work[u].op = "copy"
    PROVE  /\ work[u] \in Copies /\ work[u].frames \in Seq(Frames) /\ << >> \in Seq(Frames)
           /\ work[u].src \in Offered /\ work[u].dst \in Offered
<1>1. work[u] \in Copies  BY WorkIs
<1>2. QED  BY <1>1 DEF Copies

LEMMA PushIs ==
    ASSUME NEW f \in Frames, NEW fs \in Seq(Frames)
    PROVE  /\ <<f>> \o fs \in Seq(Frames) /\ <<f>> \o fs # << >>
           /\ Head(<<f>> \o fs) = f
           /\ Len(<<f>> \o fs) = Len(fs) + 1 /\ Len(fs) \in Nat
           /\ (<<f>> \o fs)[1] = f
           /\ \A i \in 1 .. Len(fs) : (<<f>> \o fs)[i + 1] = fs[i]
<1>1. PICK F, g : F = Frames /\ g = <<f>>  OBVIOUS
<1>2. g \in Seq(F) /\ fs \in Seq(F) /\ Len(g) = 1 /\ g[1] = f  BY <1>1
<1>3. /\ g \o fs \in Seq(F) /\ Len(g \o fs) = Len(fs) + 1 /\ Len(fs) \in Nat
      /\ \A i \in 1 .. Len(fs) + 1 : (g \o fs)[i] = IF i <= 1 THEN g[i] ELSE fs[i - 1]
  <2>1. /\ g \o fs \in Seq(F) /\ Len(g \o fs) = Len(g) + Len(fs)
        /\ \A i \in 1 .. Len(g) + Len(fs) :
              (g \o fs)[i] = IF i <= Len(g) THEN g[i] ELSE fs[i - Len(g)]
    BY <1>2, ConcatProperties
  <2>2. Len(fs) \in Nat  BY <1>2, LenProperties
  <2>3. QED  BY <1>2, <2>1, <2>2
<1>4. 1 \in 1 .. Len(fs) + 1 /\ (g \o fs)[1] = f  BY <1>2, <1>3
<1>5. \A i \in 1 .. Len(fs) : i + 1 \in 1 .. Len(fs) + 1 /\ ~(i + 1 <= 1) /\ i + 1 - 1 = i
  BY <1>3
<1>6. \A i \in 1 .. Len(fs) : (g \o fs)[i + 1] = fs[i]  BY <1>3, <1>5
<1>7. PICK t : t = g \o fs  OBVIOUS
<1>8. t \in Seq(F) /\ Len(t) = Len(fs) + 1 /\ t[1] = f  BY <1>3, <1>4, <1>7
<1>9. t # << >>  BY <1>3, <1>8
<1>10. Head(t) = f  BY <1>8, <1>9
<1>11. QED  BY <1>1, <1>3, <1>6, <1>7, <1>8, <1>9, <1>10

LEMMA FindingDoes ==
    ASSUME Stored, Typed, Sound, NEW own, Tree(own), NEW u \in Users,
           IsDir(u) \/ FileExists(u) \/ CreateDir(u) \/ Stat(u)
    PROVE  Does(own, u)
<1>1. work[u].op = "copy"  BY DEF IsDir, FileExists, CreateDir, Stat, At
<1>2. work[u] \in Copies /\ work[u].frames \in Seq(Frames) /\ << >> \in Seq(Frames)
      /\ work[u].dst \in Offered
  BY <1>1, CopyTyped
<1>3. {"createDir", "exists", "openIn", "opendir"} \subseteq Calling  BY DEF Calling
<1>4. SameFiles => Changes(own, u, NoNode)  BY DEF Changes
<1>5. CASE IsDir(u)
  BY <1>2, <1>3, <1>4, <1>5, CallsQuietly DEF IsDir
<1>6. CASE FileExists(u)
  BY <1>2, <1>3, <1>4, <1>6, CallsQuietly, ReturnsQuietly DEF FileExists
<1>7. CASE Stat(u)
  BY <1>2, <1>3, <1>4, <1>7, CallsQuietly, ReturnsQuietly DEF Stat
<1>8. CASE CreateDir(u)
  <2> DEFINE d == work[u].dst
  <2>1. CASE Node(d) # NoNode
    BY <1>2, <1>3, <1>4, <1>8, <2>1, CallsQuietly, ReturnsQuietly DEF CreateDir
  <2>2. CASE Node(d) = NoNode
    <3>1. /\ link' = Linked(<<Parent(d), Last(d)>>, NewNode)
          /\ dirs' = dirs \cup {NewNode} /\ data' = Append(data, << >>)
          /\ Calls(u, "opendir")
      BY <1>8, <2>2 DEF CreateDir
    <3>2. d \in Under(u) /\ Parent(d) \in dirs /\ d \in Offered
      BY <1>1, <1>2 DEF Sound, Copying, Parent
    <3> HIDE DEF d
    <3>3. Changes(own, u, NoNode)  BY <2>2, <3>1, <3>2, NewAt
    <3>4. QED  BY <1>2, <1>3, <3>1, <3>3, CallsQuietly
  <2>3. QED  BY <2>1, <2>2
<1>9. QED  BY <1>5, <1>6, <1>7, <1>8

LEMMA LinksAreNodes == ASSUME Stored, NEW p \in Offered, Node(p) \in dirs PROVE Node(p) \in Users \cup Nat
  BY NothingThere, Numbers DEF Stored, Nodes

LEMMA OpendirDoes ==
    ASSUME Stored, Typed, NEW own, NEW u \in Users, Opendir(u)
    PROVE  Does(own, u)
<1>1. work[u].op = "copy"  BY DEF Opendir, At
<1>2. PICK w : w = work[u]  OBVIOUS
<1>3. w \in Copies /\ w.frames \in Seq(Frames) /\ w.src \in Offered /\ w.dst \in Offered
  BY <1>1, <1>2, CopyTyped
<1>4. Changes(own, u, NoNode)  BY DEF Opendir, Changes
<1>5. CASE Node(w.src) \in dirs
  <2>1. PICK f : f = Frame(w.src, w.dst, Node(w.src))  OBVIOUS
  <2>2. f \in Frames  BY <1>3, <1>5, <2>1, LinksAreNodes DEF Frame, Frames
  <2>3. Returns(u, <<f>> \o w.frames)  BY <1>2, <1>5, <2>1 DEF Opendir
  <2>4. <<f>> \o w.frames \in Seq(Frames)  BY <1>3, <2>2, PushIs
  <2>5. QED  BY <1>4, <2>3, <2>4, ReturnsQuietly
<1>6. CASE Node(w.src) \notin dirs
  <2>1. Returns(u, << >> \o w.frames)  BY <1>2, <1>6 DEF Opendir
  <2>2. << >> \o w.frames = w.frames  BY <1>3, ConcatEmptySeq
  <2>3. QED  BY <1>3, <1>4, <2>1, <2>2, ReturnsQuietly
<1>7. QED  BY <1>5, <1>6

\* readdir returns an entry, or the end.
Entered(u, n) ==
    LET fs == work[u].frames
        f == Head(fs)
    IN  /\ n \in Names /\ n \notin f.seen
        /\ GoesOn(u, Copy("stat", Append(f.src, n), Append(f.dst, n),
                          <<[f EXCEPT !.seen = @ \cup {n}]>> \o Tail(fs)), NoNode)
Ended(u) ==
    /\ \A e \in Children(Head(work[u].frames).dir) \ touched[u] : e[2] \in Head(work[u].frames).seen
    /\ Returns(u, Tail(work[u].frames))

LEMMA ReaddirIs == ASSUME Stored, NEW u \in Users, Readdir(u)
    PROVE  At(u, "readdir") /\ SameFiles /\ CopyKeeps /\ ((\E n : Entered(u, n)) \/ Ended(u))
<1>1. At(u, "readdir") /\ SameFiles /\ CopyKeeps  BY DEF Readdir
<1>2. CASE Ended(u)  BY <1>1, <1>2
<1>3. ASSUME NEW e \in Children(Head(work[u].frames).dir),
             e[2] \notin Head(work[u].frames).seen,
             GoesOn(u, Copy("stat", Append(Head(work[u].frames).src, e[2]), Append(Head(work[u].frames).dst, e[2]),
                          <<[Head(work[u].frames) EXCEPT !.seen = @ \cup {e[2]}]>> \o Tail(work[u].frames)), NoNode)
      PROVE  \E n : Entered(u, n)
  <2>1. e[2] \in Names  BY <1>3 DEF Children, Stored
  <2>2. Entered(u, e[2])  BY <1>3, <2>1 DEF Entered
  <2>3. QED  BY <2>2
<1>4. QED  BY <1>1, <1>2, <1>3 DEF Readdir, Ended

\* The frame, and what is called, after readdir has returned n.
LEMMA EnteredIs ==
    ASSUME Typed, NEW u \in Users, At(u, "readdir"), Copying(u), InFrames(u), NEW n, Entered(u, n)
    PROVE  \E f \in Frames, g \in Frames, fs \in Seq(Frames), t \in Seq(Frames), w \in Copies :
           /\ fs = work[u].frames /\ fs # << >> /\ f = Head(fs) /\ g = [f EXCEPT !.seen = @ \cup {n}]
           /\ t = <<g>> \o Tail(fs) /\ n \in Names
           /\ w = Copy("stat", Append(f.src, n), Append(f.dst, n), t)
           /\ f.dst \in Under(u) /\ Turns(u, w, NoNode)
<1>1. work[u].op = "copy"  BY DEF At
<1>2. PICK fs : fs = work[u].frames  OBVIOUS
<1>3. fs \in Seq(Frames) /\ fs # << >>  BY <1>1, <1>2, CopyTyped DEF Copying, At
<1>4. PICK f : f = Head(fs)  OBVIOUS
<1>5. f \in Frames /\ Tail(fs) \in Seq(Frames) /\ f = fs[1] /\ 1 \in 1 .. Len(fs)
      /\ f.src \in Offered /\ f.dst \in Offered
  <2>1. Head(fs) = fs[1] /\ 1 \in 1 .. Len(fs)  BY <1>3, HeadIs
  <2>2. QED  BY <1>3, <1>4, <2>1, HeadFrame
<1>6. PICK g : g = [f EXCEPT !.seen = @ \cup {n}]  OBVIOUS
<1>7. n \in Names  BY DEF Entered
<1>8. g \in Frames  BY <1>5, <1>6, <1>7 DEF Frames
<1>9. PICK t : t = <<g>> \o Tail(fs)  OBVIOUS
<1>10. t \in Seq(Frames)  BY <1>5, <1>8, <1>9, PushIs
<1>11. f.dst \in Under(u)  BY <1>2, <1>5 DEF InFrames, FrameFits
<1>12. Append(f.src, n) \in Offered /\ Append(f.dst, n) \in Offered
  <2>1. f.src \in Under(f.src[1]) /\ f.src[1] \in Users  BY <1>5, PathIs DEF Offered
  <2>2. QED  BY <1>7, <1>11, <2>1, Longer
<1>13. PICK w : w = Copy("stat", Append(f.src, n), Append(f.dst, n), t)  OBVIOUS
<1>14. w \in Copies  BY <1>10, <1>12, <1>13, CopyIs DEF Calling
<1>15. GoesOn(u, w, NoNode)  BY <1>2, <1>4, <1>6, <1>9, <1>13 DEF Entered
<1>16. Turns(u, w, NoNode)  BY <1>14, <1>15, TurningOnly DEF WorkSet
<1>17. QED
  BY <1>2, <1>3, <1>4, <1>5, <1>6, <1>7, <1>8, <1>9, <1>10, <1>11, <1>13, <1>14, <1>16

LEMMA ReaddirDoes ==
    ASSUME Stored, Typed, Sound, NEW own, NEW u \in Users, Readdir(u)
    PROVE  Does(own, u)
<1>1. At(u, "readdir") /\ SameFiles /\ ((\E n : Entered(u, n)) \/ Ended(u))  BY ReaddirIs
<1>2. Changes(own, u, NoNode)  BY <1>1 DEF Changes
<1>3. Copying(u) /\ InFrames(u) /\ work[u].op = "copy"  BY <1>1 DEF Sound, At
<1>4. ASSUME NEW n, Entered(u, n) PROVE Does(own, u)
  <2>1. PICK w \in Copies : Turns(u, w, NoNode) /\ w.pc = "stat"
    <3>1. PICK f \in Frames, g \in Frames, fs \in Seq(Frames), t \in Seq(Frames), w \in Copies :
              w = Copy("stat", Append(f.src, n), Append(f.dst, n), t) /\ Turns(u, w, NoNode)
      BY <1>1, <1>3, <1>4, EnteredIs
    <3>2. w.pc = "stat"  BY <3>1 DEF Copy
    <3>3. QED  BY <3>1, <3>2
  <2>2. w.op = "copy"  BY DEF Copies
  <2>3. QED  BY <1>2, <2>1, <2>2, DoesQuietly
<1>5. CASE Ended(u)
  <2>1. work[u].frames \in Seq(Frames) /\ work[u].frames # << >>
    BY <1>1, <1>3, CopyTyped DEF At, Copying
  <2>2. Tail(work[u].frames) \in Seq(Frames)  BY <2>1, HeadFrame
  <2>3. QED  BY <1>2, <1>5, <2>2, ReturnsQuietly DEF Ended
<1>6. QED  BY <1>1, <1>4, <1>5

LEMMA OpenInIs ==
    ASSUME Stored, Typed, NEW u \in Users, OpenIn(u), Node(work[u].src) # NoNode
    PROVE  \E z \in Copies :
              /\ z = [work[u] EXCEPT !.pc = "openOut", !.in = Node(work[u].src), !.clean = TRUE]
              /\ Turns(u, z, NoNode)
<1>1. work[u].op = "copy"  BY DEF OpenIn, At
<1>2. PICK w, x : w = work[u] /\ x = Node(work[u].src)  OBVIOUS
<1>3. w \in Copies /\ w.src \in Offered  BY <1>1, <1>2, CopyTyped
<1>4. x \in Nat
  <2>1. x \in 1 .. Len(data)  BY <1>2, <1>3, Deep
  <2>2. QED  BY <2>1, Numbers
<1>5. PICK z : z = [w EXCEPT !.pc = "openOut", !.in = x, !.clean = TRUE]  OBVIOUS
<1>6. z \in Copies  BY <1>3, <1>4, <1>5 DEF Copies, Calling
<1>7. GoesOn(u, z, NoNode)  BY <1>2, <1>5 DEF OpenIn
<1>8. Turns(u, z, NoNode)  BY <1>6, <1>7, TurningOnly DEF WorkSet
<1>9. QED  BY <1>2, <1>5, <1>6, <1>8

LEMMA OpenInDoes ==
    ASSUME Stored, Typed, NEW own, NEW u \in Users, OpenIn(u)
    PROVE  Does(own, u)
<1>1. Changes(own, u, NoNode)  BY DEF OpenIn, Changes
<1>2. work[u].op = "copy"  BY DEF OpenIn, At
<1>3. work[u] \in Copies /\ work[u].frames \in Seq(Frames)  BY <1>2, CopyTyped
<1>4. CASE Node(work[u].src) = NoNode
  BY <1>1, <1>3, <1>4, ReturnsQuietly DEF OpenIn
<1>5. CASE Node(work[u].src) # NoNode
  <2>1. PICK z \in Copies :
            /\ z = [work[u] EXCEPT !.pc = "openOut", !.in = Node(work[u].src), !.clean = TRUE]
            /\ Turns(u, z, NoNode)
    BY <1>5, OpenInIs
  <2>2. z.op = "copy" /\ z.pc = "openOut"  BY <1>3, <2>1 DEF Copies
  <2>3. QED  BY <1>1, <2>1, <2>2, DoesQuietly
<1>6. QED  BY <1>4, <1>5

\* The open file that a copy is written to: a new one, or one that is emptied.
Opened(u, x, z) ==
    /\ z \in Copies
    /\ z = [work[u] EXCEPT !.pc = "read", !.out = x]
    /\ \/ /\ Node(work[u].dst) = NoNode /\ x = NewNode
          /\ link' = Linked(<<Parent(work[u].dst), Last(work[u].dst)>>, NewNode)
          /\ data' = Append(data, << >>) /\ UNCHANGED dirs
          /\ Turns(u, z, NoNode)
       \/ /\ x = Node(work[u].dst) /\ x \in Files
          /\ data' = [data EXCEPT ![x] = << >>] /\ UNCHANGED <<link, dirs>>
          /\ Turns(u, Stained(z, x), x)

LEMMA OpenOutIs ==
    ASSUME Stored, Typed, NEW u \in Users, OpenOut(u)
    PROVE  /\ At(u, "openOut") /\ CopyKeeps
           /\ \/ Node(work[u].dst) \in dirs /\ Returns(u, work[u].frames) /\ SameFiles
              \/ \E x, z : Opened(u, x, z)
<1>1. At(u, "openOut") /\ CopyKeeps  BY DEF OpenOut
<1>2. PICK w : w = work[u]  OBVIOUS
<1>3. w \in Copies /\ w.dst \in Offered  BY <1>1, <1>2, CopyTyped DEF At
<1>4. ASSUME NEW x \in Nat
      PROVE  [w EXCEPT !.pc = "read", !.out = x] \in Copies
  BY <1>3 DEF Copies, Calling
<1>5. CASE Node(w.dst) \in dirs  BY <1>1, <1>2, <1>5 DEF OpenOut
<1>6. CASE Node(w.dst) = NoNode
  <2>1. NoNode \notin dirs /\ NewNode \in Nat  BY NothingThere, Numbers DEF Stored
  <2>2. PICK z : z = [w EXCEPT !.pc = "read", !.out = NewNode]  OBVIOUS
  <2>3. /\ link' = Linked(<<Parent(w.dst), Last(w.dst)>>, NewNode)
        /\ data' = Append(data, << >>) /\ UNCHANGED dirs
        /\ GoesOn(u, z, NoNode)
    BY <1>2, <1>6, <2>1, <2>2 DEF OpenOut
  <2>4. z \in Copies  BY <1>4, <2>1, <2>2
  <2>5. Turns(u, z, NoNode)  BY <2>3, <2>4, TurningOnly DEF WorkSet
  <2>6. Opened(u, NewNode, z)  BY <1>2, <1>6, <2>2, <2>3, <2>4, <2>5 DEF Opened
  <2>7. QED  BY <1>1, <2>6
<1>7. CASE Node(w.dst) \notin dirs /\ Node(w.dst) # NoNode
  <2>1. PICK x, z : x = Node(w.dst) /\ z = [w EXCEPT !.pc = "read", !.out = x]  OBVIOUS
  <2>2. x \in Files /\ x \in Nat
    <3>1. x \in 1 .. Len(data)  BY <1>3, <1>7, <2>1, Deep
    <3>2. QED  BY <1>7, <2>1, <3>1, Numbers DEF Files
  <2>3. /\ data' = [data EXCEPT ![x] = << >>] /\ UNCHANGED <<link, dirs>>
        /\ GoesOn(u, z, x)
    BY <1>2, <1>7, <2>1 DEF OpenOut
  <2>4. z \in Copies  BY <1>4, <2>1, <2>2
  <2>5. Turns(u, Stained(z, x), x)  BY <2>3, <2>4, Turning DEF WorkSet
  <2>6. Opened(u, x, z)  BY <1>2, <2>1, <2>2, <2>3, <2>4, <2>5 DEF Opened
  <2>7. QED  BY <1>1, <2>6
<1>8. QED  BY <1>5, <1>6, <1>7

LEMMA OpenOutDoes ==
    ASSUME Stored, Typed, Sound, NEW own, Tree(own), NEW u \in Users, OpenOut(u)
    PROVE  Does(own, u)
<1>1. At(u, "openOut")  BY OpenOutIs
<1>2. PICK w : w = work[u]  OBVIOUS
<1>3. /\ w \in Copies /\ w.dst \in Offered /\ w.frames \in Seq(Frames)
      /\ w.dst \in Under(u) /\ Parent(w.dst) \in dirs
  BY <1>1, <1>2, CopyTyped DEF At, Sound, Copying, Parent
<1>4. CASE Returns(u, w.frames) /\ SameFiles
  BY <1>3, <1>4, ReturnsQuietly DEF Changes
<1>5. ASSUME NEW x, NEW z, Opened(u, x, z) PROVE Does(own, u)
  <2>1. z \in Copies /\ z \in WorkSet /\ z.out = x  BY <1>2, <1>3, <1>5 DEF Opened, Copies, WorkSet
  <2>2. CASE Node(w.dst) = NoNode /\ x = NewNode
    <3>1. /\ link' = Linked(<<Parent(w.dst), Last(w.dst)>>, NewNode)
          /\ data' = Append(data, << >>) /\ dirs' = dirs /\ Turns(u, z, NoNode)
      BY <1>2, <1>5, <2>2, Numbers DEF Opened, Files
    <3>2. Changes(own, u, NoNode) /\ Len(data') = NewNode  BY <1>3, <2>2, <3>1, NewAt
    <3>3. Mine(own, u, x)  BY <2>2, <3>1, <3>2 DEF Mine
    <3>4. work'[u] = z  BY <3>1 DEF Turns
    <3>5. HoldsNext(own, u)  BY <2>1, <3>3, <3>4 DEF HoldsNext, Copies
    <3>6. QED  BY <3>1, <3>2, <3>5 DEF Does
  <2>3. CASE x = Node(w.dst) /\ x \in Files /\ Turns(u, Stained(z, x), x)
             /\ data' = [data EXCEPT ![x] = << >>] /\ UNCHANGED <<link, dirs>>
    <3>1. x # NoNode  BY <2>3, NothingThere DEF Files, Nodes
    <3>2. own[x] = u
      <4>1. PICK d : d = w.dst  OBVIOUS
      <4>2. d \in Under(u) /\ d \in Offered /\ Node(d) # NoNode /\ x = Node(d)
        BY <1>3, <2>3, <3>1, <4>1
      <4>3. own[Node(d)] = u  BY <4>2, OldAt
      <4>4. QED  BY <4>2, <4>3
    <3>3. \A b \in ToSet(<< >>) : b \in ToSet(data[x]) \/ b[1] = u \/ b \in given[u]  BY EmptyIs
    <3>4. Changes(own, u, x)  BY <2>3, <3>2, <3>3, EmptyIs DEF Changes, Writes
    <3>5. PICK y : y = Stained(z, x)  OBVIOUS
    <3>6. y.op = "copy" /\ y.out = x  BY <2>1, <3>5, StainedIs DEF Copies
    <3>7. work'[u] = y  BY <2>3, <3>5 DEF Turns
    <3>8. HoldsNext(own, u)  BY <2>3, <3>2, <3>6, <3>7 DEF HoldsNext, Mine
    <3>9. QED  BY <2>3, <3>4, <3>8 DEF Does
  <2>4. QED  BY <1>2, <1>5, <2>2, <2>3 DEF Opened
<1>6. QED  BY <1>2, <1>4, <1>5, OpenOutIs

\* One block more.
CopiedBlock(u, b, z) == LET w == work[u] IN
    /\ w.in \notin dirs /\ w.off < Len(data[w.in])
    /\ b = data[w.in][w.off + 1]
    /\ data' = [data EXCEPT ![w.out] = Append(@, b)] /\ UNCHANGED <<link, dirs>>
    /\ z = [w EXCEPT !.off = @ + 1] /\ z \in Copies
    /\ Turns(u, Stained(z, w.out), w.out)

LEMMA CopyBlockIs ==
    ASSUME Typed, NEW u \in Users, CopyBlock(u)
    PROVE  /\ At(u, "read") /\ CopyKeeps
           /\ \/ /\ ~(work[u].in \notin dirs /\ work[u].off < Len(data[work[u].in]))
                 /\ Returns(u, work[u].frames) /\ SameFiles
              \/ \E b, z : CopiedBlock(u, b, z)
<1>1. At(u, "read") /\ CopyKeeps  BY DEF CopyBlock
<1>2. PICK w : w = work[u]  OBVIOUS
<1>3. w \in Copies  BY <1>1, <1>2, CopyTyped DEF At
<1>4. CASE ~(w.in \notin dirs /\ w.off < Len(data[w.in]))
  BY <1>1, <1>2, <1>4 DEF CopyBlock, SameFiles, files
<1>5. CASE w.in \notin dirs /\ w.off < Len(data[w.in])
  <2>1. PICK b, z : b = data[w.in][w.off + 1] /\ z = [w EXCEPT !.off = @ + 1]  OBVIOUS
  <2>2. z \in Copies /\ z \in WorkSet
    <3>1. PICK k : k = w.off + 1  OBVIOUS
    <3>2. k \in Nat /\ z = [w EXCEPT !.off = k]  BY <1>3, <2>1, <3>1 DEF Copies
    <3>3. QED  BY <1>3, <3>2 DEF Copies, WorkSet
  <2>3. data' = [data EXCEPT ![w.out] = Append(@, b)] /\ GoesOn(u, z, w.out)
        /\ UNCHANGED <<link, dirs>>
    BY <1>2, <1>5, <2>1 DEF CopyBlock
  <2>4. Turns(u, Stained(z, w.out), w.out)  BY <2>2, <2>3, Turning
  <2>5. CopiedBlock(u, b, z)  BY <1>2, <1>5, <2>1, <2>2, <2>3, <2>4 DEF CopiedBlock
  <2>6. QED  BY <1>1, <2>5
<1>6. QED  BY <1>4, <1>5

LEMMA ElementsIn == ASSUME NEW S, NEW s \in Seq(S), NEW i \in 1 .. Len(s)
    PROVE s[i] \in S /\ s[i] \in ToSet(s)
  BY ElementOfSeq, LenProperties DEF ToSet

LEMMA CopyBlockDoes ==
    ASSUME Stored, Typed, Sound, Exposed, NEW own, Tree(own), Holds(own), NEW u \in Users, CopyBlock(u)
    PROVE  Does(own, u)
<1>1. At(u, "read")  BY CopyBlockIs
<1>2. PICK w : w = work[u]  OBVIOUS
<1>3. w \in Copies /\ w.frames \in Seq(Frames)  BY <1>1, <1>2, CopyTyped DEF At
<1>4. /\ w.out \in Files /\ own[w.out] = u
      /\ w.in \in exposed[u] /\ w.in \in 1 .. Len(data)
  BY <1>1, <1>2 DEF Holds, Sound, Copying, At
<1>5. CASE Returns(u, w.frames) /\ SameFiles
  BY <1>3, <1>5, ReturnsQuietly DEF Changes
<1>6. ASSUME NEW b, NEW z, CopiedBlock(u, b, z) PROVE Does(own, u)
  <2>1. /\ w.in \notin dirs /\ w.off < Len(data[w.in]) /\ b = data[w.in][w.off + 1]
        /\ data' = [data EXCEPT ![w.out] = Append(@, b)] /\ UNCHANGED <<link, dirs>>
        /\ z = [w EXCEPT !.off = @ + 1] /\ z \in Copies
        /\ Turns(u, Stained(z, w.out), w.out)
    BY <1>2, <1>6 DEF CopiedBlock
  <2>2. b \in Users \X Nat /\ b \in ToSet(data[w.in])
    <3>1. PICK s : s = data[w.in]  OBVIOUS
    <3>2. s \in Seq(Users \X Nat) /\ Len(s) \in Nat  BY <1>4, <3>1, Numbers, LenProperties
    <3>3. w.off \in Nat  BY <1>3 DEF Copies
    <3>4. w.off + 1 \in 1 .. Len(s)  BY <2>1, <3>1, <3>2, <3>3
    <3>5. QED  BY <2>1, <3>1, <3>2, <3>4, ElementsIn
  <2>3. b \in given[u]  BY <1>4, <2>1, <2>2 DEF Exposed
  <2>4. Changes(own, u, w.out)  BY <1>4, <2>1, <2>2, <2>3, AppendDoes
  <2>5. PICK y : y = Stained(z, w.out)  OBVIOUS
  <2>6. z.out = w.out  BY <1>3, <2>1 DEF Copies
  <2>7. y.op = "copy" /\ y.out = w.out  BY <2>1, <2>5, <2>6, StainedIs DEF Copies, WorkSet
  <2>8. work'[u] = y  BY <2>1, <2>5 DEF Turns
  <2>9. HoldsNext(own, u)  BY <1>4, <2>7, <2>8 DEF HoldsNext, Mine
  <2>10. QED  BY <2>1, <2>4, <2>9 DEF Does
<1>7. QED  BY <1>2, <1>5, <1>6, CopyBlockIs

LEMMA ThreadDoes ==
    ASSUME Stored, Typed, Sound, Exposed, NEW own, Tree(own), Holds(own), NEW u \in Users,
           Requests(u) \/ Works(u)
    PROVE  Does(own, u)
<1>1. CASE Requests(u)
  <2>1. ASSUME NEW p \in PathsOf(u),
               \/ HandleDelFile(u, p) \/ RenameAway(u, p) \/ HandleDelDir(u, p)
               \/ \E q \in PathsOf(u) : HandleRenameFile(u, p, q)
        PROVE  Does(own, u)
    BY <2>1, RequestsDo
  <2>7. ASSUME NEW p \in PathsOf(u), HandleCreateDir(u, p) PROVE Does(own, u)
    BY <2>7, CreateDoes DEF Does
  <2>2. ASSUME NEW p \in PathsOf(u), HandleUpdateFile(u, p) PROVE Does(own, u)
    BY <2>2, UpdateDoes
  <2>3. ASSUME \/ \E v \in Users, p \in PathsOf(u) : HandleShareFile(u, v, p)
               \/ Refuse(u)
        PROVE  Does(own, u)
    BY <2>3, ShareDoes
  <2>4. CASE HandleShareNoteResponse(u)  BY <2>4, AcceptDoes
  <2>5. CASE WriteUploadData(u) \/ Abandon(u)  BY <2>5, UploadDoes
  <2>6. QED  BY <1>1, <2>1, <2>2, <2>3, <2>4, <2>5, <2>7 DEF Requests
<1>2. CASE Works(u)
  BY <1>2, DeleteDoes, FindingDoes, OpendirDoes, ReaddirDoes, OpenInDoes, OpenOutDoes,
     CopyBlockDoes DEF Works
<1>3. QED  BY <1>1, <1>2

-----------------------------------------------------------------------------
(* What holds after each step, whoever takes it.                           *)

LEMMA Spreads ==
    ASSUME Stored, NEW own, Tree(own), NEW u \in Users, NEW x, Changes(own, u, x)
    PROVE  /\ Stored' /\ Spared(own, u, x)
           /\ x = NoNode \/ (x \in Files /\ own[x] = u)
  BY ChangesSpare DEF Changes, Writes

LEMMA HoldsStep ==
    ASSUME Stored, Typed, NEW own, Tree(own), Holds(own), NEW u \in Users, NEW x, NEW w,
           Spared(own, u, x), Turns(u, w, x), HoldsNext(own, u),
           NEW new, Tree(new)', Extends(own, new, u)
    PROVE  Holds(new)'
<1>1. ASSUME NEW y \in Files PROVE y \in Files' /\ new[y] = own[y]
  <2>1. y \in Nodes  BY DEF Files, Nodes
  <2>2. y \notin dirs'  BY <2>1 DEF Files, Spared
  <2>3. y \in 1 .. Len(data')  BY Numbers DEF Files, Spared
  <2>4. QED  BY <2>1, <2>2, <2>3 DEF Files, Extends
<1>2. ASSUME NEW y, Mine(own, u, y) PROVE y \in Files' /\ new[y] = u
  <2>1. CASE y \in Files /\ own[y] = u  BY <1>1, <2>1
  <2>2. CASE y = NewNode /\ Len(data') = NewNode /\ UNCHANGED dirs
    <3>1. y \notin dirs /\ y \in 1 .. NewNode  BY <2>2, Numbers DEF Stored
    <3>2. QED  BY <2>2, <3>1 DEF Files, Extends
  <2>3. QED  BY <1>2, <2>1, <2>2 DEF Mine
<1>3. ASSUME NEW v \in Users
      PROVE  /\ work'[v].op = "upload" => work'[v].node \in Files' /\ new[work'[v].node] = v
             /\ work'[v].op = "copy" /\ work'[v].pc = "read"
                    => work'[v].out \in Files' /\ new[work'[v].out] = v
  <2>1. CASE v = u  BY <1>2, <2>1 DEF HoldsNext
  <2>2. CASE v # u
    <3>1. CASE work'[v] = work[v]  BY <1>1, <3>1 DEF Holds, At
    <3>2. CASE work[v].op = "copy" /\ work'[v] = [work[v] EXCEPT !.clean = FALSE]
      <4>1. work[v] \in Copies  BY <3>2, WorkIs
      <4>2. work'[v].op = "copy" /\ work'[v].pc = work[v].pc /\ work'[v].out = work[v].out
        BY <3>2, <4>1 DEF Copies
      <4>3. QED  BY <1>1, <3>2, <4>2 DEF Holds, At
    <3>3. QED  BY <2>2, <3>1, <3>2 DEF Turns, Others
  <2>3. QED  BY <2>1, <2>2
<1>4. QED  BY <1>3 DEF Holds, At

LEMMA ContentsStep ==
    ASSUME Stored, NEW own, Tree(own), Contents(own), NEW u \in Users, NEW x,
           Changes(own, u, x), Spared(own, u, x), Remembers, UNCHANGED brought,
           NEW new, Extends(own, new, u)
    PROVE  Contents(new)'
<1>1. ASSUME NEW y \in 1 .. Len(data'), NEW b \in ToSet(data'[y])
      PROVE  b[1] = new[y] \/ b \in given'[new[y]] \cup brought'[new[y]]
  <2>1. \A v \in Users : given[v] \subseteq given'[v]  BY Remembered
  <2>2. CASE y \in 1 .. Len(data)
    <3>1. new[y] = own[y] /\ own[y] \in Users  BY <2>2 DEF Extends, Nodes, Tree
    <3>2. CASE y # x
      <4>1. data'[y] = data[y]  BY <2>2, <3>2 DEF Spared
      <4>2. b[1] = own[y] \/ b \in given[own[y]] \cup brought[own[y]]  BY <1>1, <2>2, <4>1 DEF Contents
      <4>3. QED  BY <2>1, <3>1, <4>2
    <3>3. CASE y = x
      <4>1. x # NoNode  BY <2>2, <3>3, Numbers, SharingAssumption
      <4>2. PICK s \in Seq(Users \X Nat) :
              /\ own[x] = u /\ data' = [data EXCEPT ![x] = s]
              /\ \A c \in ToSet(s) : c \in ToSet(data[x]) \/ c[1] = u \/ c \in given[u]
        BY <4>1 DEF Changes, Writes
      <4>3. data'[x] = s  BY <2>2, <3>3, <4>2, LenProperties DEF Stored
      <4>4. b \in ToSet(data[x]) \/ b[1] = u \/ b \in given[u]  BY <1>1, <3>3, <4>2, <4>3
      <4>5. b[1] = own[y] \/ b \in given[own[y]] \cup brought[own[y]]
        BY <2>2, <3>3, <4>2, <4>4 DEF Contents
      <4>6. QED  BY <2>1, <3>1, <4>5
    <3>4. QED  BY <3>2, <3>3
  <2>3. CASE y \notin 1 .. Len(data)
    <3>1. y = NewNode /\ Len(data') = NewNode  BY <2>3, Numbers DEF Spared
    <3>2. data'[y] = << >>  BY <3>1 DEF Spared
    <3>3. QED  BY <1>1, <3>2, EmptyIs
  <2>4. QED  BY <2>2, <2>3
<1>2. QED  BY <1>1 DEF Contents

-----------------------------------------------------------------------------
(* A rename whose new name leads to another user's directory.              *)

LEMMA NodesAtIs ==
    ASSUME Stored, NEW e \in DOMAIN link, NEW p, Node(p) = link[e], NEW M, M = NodesAt(link, p)
    PROVE  /\ link[e] \in M /\ M \subseteq 1 .. Len(data)
           /\ \A f \in DOMAIN link : f[1] \in M => link[f] \in M
           /\ \A S \in SUBSET {link[f] : f \in DOMAIN link} :
                 link[e] \in S /\ (\A f \in DOMAIN link : f[1] \in S => link[f] \in S) => M \subseteq S
<1> DEFINE nodes == {link[f] : f \in DOMAIN link}
           complete == {S \in SUBSET nodes :
                          /\ link[e] \in S
                          /\ \A f \in DOMAIN link : f[1] \in S => link[f] \in S}
<1>1. link[e] # NoNode  BY Numbers, SharingAssumption DEF Stored
<1>2. M = {x \in nodes : \A S \in complete : x \in S}  BY <1>1 DEF NodesAt, Node
<1>3. link[e] \in M  BY <1>2
<1>4. M \subseteq 1 .. Len(data)  BY <1>2 DEF Stored
<1>5. ASSUME NEW f \in DOMAIN link, f[1] \in M PROVE link[f] \in M
  <2>1. link[f] \in nodes  OBVIOUS
  <2>2. \A S \in complete : link[f] \in S  BY <1>2, <1>5
  <2>3. QED  BY <1>2, <2>1, <2>2
<1>6. QED  BY <1>2, <1>3, <1>4, <1>5

\* The moved nodes belong to the other user then, and no other node does that
\* did not before.
LEMMA Transplant ==
    ASSUME Stored, NEW own, Tree(own), NEW u \in Users, NEW v \in Users,
           NEW e \in DOMAIN link, NEW d \in dirs, NEW n \in Names,
           own[e[1]] = u, own[d] = v, Moved(e, d, n), NEW p, Node(p) = link[e],
           NEW M, M = NodesAt(link, p)
    PROVE  /\ Stored'
           /\ \A y \in M : y \in 1 .. Len(data) /\ own[y] = u
           /\ \E new : Tree(new)' /\ \A y \in Nodes : new[y] = IF y \in M THEN v ELSE own[y]
<1>1. PICK t : t = <<d, n>> /\ Rewired(e, d, n, t)  BY MovedLink
<1>2. /\ link' \in [DOMAIN link' -> 1 .. Len(data)] /\ DOMAIN link' \subseteq dirs \X Names
      /\ \A f, g \in DOMAIN link' : link'[f] = link'[g] => f = g
      /\ DOMAIN link' = (DOMAIN link \ {e}) \cup {t} /\ t[1] = d
      /\ \A f \in DOMAIN link' : link'[f] = IF f = t THEN link[e] ELSE link[f]
      /\ UNCHANGED <<dirs, data>>
  BY <1>1 DEF Rewired
<1>3. Nodes' = Nodes  BY <1>2 DEF Nodes
<1>4. Stored'  BY <1>2, <1>3 DEF Stored
<1>5. /\ link[e] \in M /\ M \subseteq 1 .. Len(data)
      /\ \A f \in DOMAIN link : f[1] \in M => link[f] \in M
      /\ \A S \in SUBSET {link[f] : f \in DOMAIN link} :
            link[e] \in S /\ (\A f \in DOMAIN link : f[1] \in S => link[f] \in S) => M \subseteq S
  BY NodesAtIs
<1>6. \A y \in M : y \in 1 .. Len(data) /\ own[y] = u
  <2>1. PICK S : S = {y \in {link[f] : f \in DOMAIN link} : own[y] = u}  OBVIOUS
  <2>2. link[e] \in S  BY <2>1 DEF Tree
  <2>3. \A f \in DOMAIN link : f[1] \in S => link[f] \in S  BY <2>1 DEF Tree
  <2>4. M \subseteq S  BY <1>5, <2>1, <2>2, <2>3
  <2>5. QED  BY <1>5, <2>1, <2>4
<1>7. ASSUME NEW f \in DOMAIN link, f # e, link[f] \in M PROVE f[1] \in M
  <2>1. SUFFICES ASSUME f[1] \notin M PROVE FALSE  OBVIOUS
  <2>2. PICK S : S = (M \cap {link[g] : g \in DOMAIN link}) \ {link[f]}  OBVIOUS
  <2>3. link[e] \in S  BY <1>5, <1>7, <2>2 DEF Stored
  <2>4. \A g \in DOMAIN link : g[1] \in S => link[g] \in S  BY <1>5, <2>1, <2>2 DEF Stored
  <2>5. M \subseteq S  BY <1>5, <2>2, <2>3, <2>4
  <2>6. QED  BY <1>7, <2>2, <2>5
<1>8. PICK new : new = [y \in Nodes |-> IF y \in M THEN v ELSE own[y]]  OBVIOUS
<1>9. new \in [Nodes -> Users]  BY <1>8 DEF Tree
<1>10. ASSUME NEW w \in Users PROVE new[w] = w
  <2>1. w \notin M
    <3>1. w \notin 1 .. Len(data)  BY Numbers, SharingAssumption
    <3>2. QED  BY <1>5, <3>1
  <2>2. w \in Nodes /\ own[w] = w  BY DEF Nodes, Tree
  <2>3. QED  BY <1>8, <2>1, <2>2
<1>11. ASSUME NEW f \in DOMAIN link' PROVE new[link'[f]] = new[f[1]]
  <2>1. CASE f = t
    <3>1. link'[f] = link[e] /\ link[e] \in Nodes /\ d \in Nodes  BY <1>2, <2>1 DEF Stored, Nodes
    <3>2. new[link[e]] = v  BY <1>5, <1>8, <3>1
    <3>3. new[d] = v  BY <1>8, <3>1
    <3>4. QED  BY <1>2, <2>1, <3>1, <3>2, <3>3
  <2>2. CASE f # t
    <3>1. f \in DOMAIN link /\ f # e /\ link'[f] = link[f]  BY <1>2, <2>2
    <3>2. link[f] \in M <=> f[1] \in M  BY <1>5, <1>7, <3>1
    <3>3. link[f] \in Nodes /\ f[1] \in Nodes /\ own[link[f]] = own[f[1]]
      BY <3>1 DEF Stored, Nodes, Tree
    <3>4. QED  BY <1>8, <3>1, <3>2, <3>3
  <2>3. QED  BY <2>1, <2>2
<1>12. Tree(new)'  BY <1>3, <1>9, <1>10, <1>11 DEF Tree
<1>13. QED  BY <1>4, <1>6, <1>8, <1>12

\* The requests of u whose typed name leads to v's directory.
Creates(u, v) == \E q \in PathsOf(v) : HandleCreateDir(u, q) /\ UNCHANGED brought
Sends(u, v, p, q) ==
    /\ p \in PathsOf(u) /\ q \in PathsOf(v) /\ HandleRenameFile(u, p, q)
    /\ brought' = [brought EXCEPT ![v] = @ \cup UNION {ToSet(data[x]) : x \in NodesAt(link, p)}]

LEMMA ThreadIs ==
    ASSUME NEW u \in Users, Thread(u)
    PROVE  \/ (Requests(u) \/ Works(u)) /\ UNCHANGED brought
           \/ \E v \in Users \ {u} : Strays(u, v) /\ (Creates(u, v) \/ \E p, q : Sends(u, v, p, q))
  BY DEF Thread, Strays, Creates, Sends

LEMMA StraysAsk == ASSUME NEW u \in Users, NEW v \in Users, Strays(u, v) PROVE Asks(u) /\ UNCHANGED work
  BY DEF Strays, HandleCreateDir, HandleRenameFile

LEMMA SentApart ==
    ASSUME Stored, Typed, NEW own, Tree(own), Holds(own), Contents(own), Remembers,
           brought \in [Users -> SUBSET (Users \X Nat)],
           NEW u \in Users, NEW v \in Users, NEW p, NEW q, Sends(u, v, p, q)
    PROVE  Stored' /\ Apart'
<1>1. PICK e \in DOMAIN link, d \in dirs, n \in Names :
        own[e[1]] = u /\ own[d] = v /\ Moved(e, d, n) /\ link[e] = Node(p)
  BY RenameIs DEF Sends
<1>2. PICK M : M = NodesAt(link, p)  OBVIOUS
<1>3. /\ Stored' /\ \A y \in M : y \in 1 .. Len(data) /\ own[y] = u
      /\ \E new : Tree(new)' /\ \A y \in Nodes : new[y] = IF y \in M THEN v ELSE own[y]
  BY <1>1, <1>2, Transplant
<1>4. PICK new : Tree(new)' /\ \A y \in Nodes : new[y] = IF y \in M THEN v ELSE own[y]  BY <1>3
<1>5. /\ UNCHANGED <<dirs, data, work>> /\ work[u] = Idle
      /\ brought' = [brought EXCEPT ![v] = @ \cup UNION {ToSet(data[x]) : x \in M}]
  BY <1>2 DEF Sends, HandleRenameFile, Asks
<1>6. Nodes' = Nodes /\ Files' = Files /\ Files \subseteq Nodes  BY <1>5 DEF Nodes, Files
<1>7. Holds(new)'
  <2>1. ASSUME NEW w \in Users, NEW y \in Files, own[y] = w, w # u PROVE new[y] = w
    BY <1>3, <1>4, <1>6, <2>1
  <2>2. ASSUME NEW w \in Users, work[w].op \in {"upload", "copy"} PROVE w # u
    BY <1>5, <2>2 DEF Idle
  <2>3. QED  BY <1>5, <1>6, <2>1, <2>2 DEF Holds, At
<1>8. Contents(new)'
  <2> SUFFICES ASSUME NEW y \in 1 .. Len(data), NEW b \in ToSet(data[y])
               PROVE  b[1] = new[y] \/ b \in given'[new[y]] \cup brought'[new[y]]
    BY <1>5 DEF Contents
  <2>1. y \in Nodes  BY DEF Nodes
  <2>2. CASE y \in M
    <3>1. new[y] = v  BY <1>4, <2>1, <2>2
    <3>2. b \in brought'[v]  BY <1>5, <2>2
    <3>3. QED  BY <3>1, <3>2
  <2>3. CASE y \notin M
    <3>1. new[y] = own[y] /\ own[y] \in Users  BY <1>4, <2>1, <2>3 DEF Tree
    <3>2. given[own[y]] \subseteq given'[own[y]]  BY <3>1, Remembered
    <3>3. brought[own[y]] \subseteq brought'[own[y]]  BY <1>5, <3>1
    <3>4. QED  BY <3>1, <3>2, <3>3 DEF Contents
  <2>4. QED  BY <2>2, <2>3
<1>9. new \in [Nodes' -> Users]  BY <1>4 DEF Tree
<1>10. QED  BY <1>3, <1>4, <1>7, <1>8, <1>9 DEF Apart

\* Where it leads to, what was there stays or is replaced; elsewhere it is as if
\* nothing had happened.
LEMMA SentAside ==
    ASSUME Stored, Stored', Typed, Sound, NEW own, Tree(own), Holds(own),
           NEW u \in Users, NEW v \in Users, u # v, NEW p, NEW q, Sends(u, v, p, q), NEW w \in Users, w # u
    PROVE  /\ Aside(w) /\ UNCHANGED <<dirs, data>>
           /\ w # v => \A r \in Under(w) : Lookup(link', r) = Lookup(link, r)
<1>1. PICK e \in DOMAIN link, d \in dirs, n \in Names :
        /\ own[e[1]] = u /\ own[d] = v /\ Moved(e, d, n)
        /\ link[e] = Node(p) /\ Entry(link, d, n) = Node(q)
        /\ \A m : Entry(link, Node(q), m) = NoNode
        /\ Node(q) \in dirs => Node(p) \in dirs
  BY RenameIs DEF Sends
<1>2. PICK t : t = <<d, n>> /\ Rewired(e, d, n, t)  BY <1>1, MovedLink
<1>3. /\ \A y, m : <<y, m>> # e /\ <<y, m>> # t => Entry(link', y, m) = Entry(link, y, m)
      /\ Entry(link', d, n) = link[e] /\ UNCHANGED <<dirs, data>>
  BY <1>2 DEF Rewired
<1>4. UNCHANGED work  BY DEF Sends, HandleRenameFile
<1>5. ASSUME w # v, NEW r \in Under(w) PROVE Lookup(link', r) = Lookup(link, r)
  <2>1. ASSUME NEW y \in Nodes, NEW m \in Names, own[y] = w PROVE Entry(link', y, m) = Entry(link, y, m)
    <3>1. <<y, m>> # e /\ <<y, m>> # t  BY <1>1, <1>2, <1>5, <2>1
    <3>2. QED  BY <1>3, <3>1
  <2>2. QED  BY <2>1, LookupSpared
<1>6. ASSUME w = v, NEW r \in Under(w), Lookup(link, r) # NoNode
      PROVE  Lookup(link', r) = Lookup(link, r) \/ (Lookup(link, r) = Node(q) /\ Lookup(link', r) = Node(p))
  <2>1. r \in Seq(Users \cup Names) /\ Len(r) \in Nat /\ Len(r) >= 1 /\ r[1] = v
    BY <1>6, Whole DEF Under
  <2>2. PICK T : T = {NoNode} \cup {y \in Nodes : own[y] = v}  OBVIOUS
  <2>3. r[1] \in T  BY <2>1, <2>2 DEF Nodes, Tree
  <2>4. ASSUME NEW y \in T, NEW m \in Names
        PROVE  /\ Entry(link, y, m) \in T
               /\ \/ Entry(link', y, m) = Entry(link, y, m)
                  \/ Entry(link, y, m) = Node(q) /\ Entry(link', y, m) = Node(p)
    <3>1. CASE y = NoNode
      <4>1. NoNode \notin dirs' /\ Entry(link, y, m) = NoNode  BY <3>1, NothingThere, NothingThen
      <4>2. Entry(link', y, m) = NoNode  BY <3>1, <4>1 DEF Stored, Entry
      <4>3. QED  BY <2>2, <4>1, <4>2
    <3>2. CASE y # NoNode
      <4>1. y \in Nodes /\ own[y] = v  BY <2>2, <2>4, <3>2
      <4>2. Entry(link, y, m) \in T  BY <2>2, <4>1, Within
      <4>3. <<y, m>> # e  BY <1>1, <4>1
      <4>4. CASE <<y, m>> = t
        <5>1. y = d /\ m = n  BY <1>2, <4>4
        <5>2. QED  BY <1>1, <1>3, <4>2, <5>1
      <4>5. CASE <<y, m>> # t  BY <1>3, <4>2, <4>3, <4>5
      <4>6. QED  BY <4>4, <4>5
    <3>3. QED  BY <3>1, <3>2
  <2>5. \A y \in T, i \in 2 .. Len(r) :
          /\ Entry(link, y, r[i]) \in T
          /\ \/ Entry(link', y, r[i]) = Entry(link, y, r[i])
             \/ Entry(link, y, r[i]) = Node(q) /\ Entry(link', y, r[i]) = Node(p)
    BY <1>6, <2>4 DEF Under
  <2>6. \A m : Entry(link, NoNode, m) = NoNode  BY NothingThere
  <2>7. PICK old, new : old = Node(q) /\ new = Node(p)  OBVIOUS
  <2>8. /\ \A m : Entry(link, old, m) = NoNode
        /\ \A y \in T, i \in 2 .. Len(r) :
             /\ Entry(link, y, r[i]) \in T
             /\ \/ Entry(link', y, r[i]) = Entry(link, y, r[i])
                \/ Entry(link, y, r[i]) = old /\ Entry(link', y, r[i]) = new
    BY <1>1, <2>5, <2>7
  <2>9. PICK l, m, S : l = link /\ m = link' /\ S = Users \cup Names  OBVIOUS
  <2>10. KeptBut(l, m, r, T, old, new)  BY <2>3, <2>6, <2>8, <2>9 DEF KeptBut
  <2>11. Lookup(m, r) = Lookup(l, r) \/ (Lookup(l, r) = old /\ Lookup(m, r) = new)
    BY <1>6, <2>1, <2>9, <2>10, PathKept
  <2>12. QED  BY <2>7, <2>9, <2>11
<1>7. Persists(w)
  <2>1. link[e] # NoNode  BY Numbers, SharingAssumption DEF Stored
  <2>2. QED  BY <1>1, <1>3, <1>5, <1>6, <2>1 DEF Persists
<1>8. Aside(w)  BY <1>3, <1>4, <1>7, Numbers DEF Aside
<1>9. QED  BY <1>3, <1>5, <1>8

-----------------------------------------------------------------------------
LEMMA StoredApartStep ==
    ASSUME IInv, NEW u \in Users, Thread(u), Remembers
    PROVE  Stored' /\ Apart'
<1>1. Stored /\ Typed /\ Exposed /\ Sound  BY DEF IInv
<1>2. PICK own \in [Nodes -> Users] : Tree(own) /\ Holds(own) /\ Contents(own)
  BY DEF IInv, Apart
<1>3. ASSUME NEW v \in Users, NEW x, NEW w,
             Changes(own, v, x), Turns(v, w, x), HoldsNext(own, v), UNCHANGED brought
      PROVE  Stored' /\ Apart'
  <2>1. Stored' /\ Spared(own, v, x)  BY <1>1, <1>2, <1>3, Spreads
  <2>2. PICK new : Tree(new)' /\ Extends(own, new, v)  BY <1>1, <1>2, <1>3, ChangesSpare
  <2>3. Holds(new)'  BY <1>1, <1>2, <1>3, <2>1, <2>2, HoldsStep
  <2>4. Contents(new)'  BY <1>1, <1>2, <1>3, <2>1, <2>2, ContentsStep
  <2>5. new \in [Nodes' -> Users]  BY <2>2 DEF Tree
  <2>6. QED  BY <2>1, <2>2, <2>3, <2>4, <2>5 DEF Apart
<1>4. CASE (Requests(u) \/ Works(u)) /\ UNCHANGED brought
  BY <1>1, <1>2, <1>3, <1>4, ThreadDoes DEF Does
<1>5. ASSUME NEW v \in Users, Creates(u, v) PROVE Stored' /\ Apart'
  BY <1>1, <1>2, <1>3, <1>5, CreateDoes DEF Creates
<1>6. ASSUME NEW v \in Users, NEW p, NEW q, Sends(u, v, p, q) PROVE Stored' /\ Apart'
  BY <1>1, <1>2, <1>6, SentApart DEF Typed
<1>7. QED  BY <1>4, <1>5, <1>6, ThreadIs

\* What a user finds does not change where his paths lead to what they led to.
LEMMA SameView ==
    ASSUME NEW v \in Users, NEW X, \A p \in Under(v) : Lookup(link', p) = Lookup(link, p),
           \A p \in Under(v) : Lookup(link, p) \in {NoNode} \cup X,
           \A y \in X : (y \in dirs' <=> y \in dirs) /\ (y \notin dirs => data'[y] = data[y])
    PROVE  View(v)' = View(v)
<1>1. ASSUME NEW p \in PathsOf(v) PROVE Found(Node(p))' = Found(Node(p))
  <2>1. Lookup(link', p) = Lookup(link, p) /\ Lookup(link, p) \in {NoNode} \cup X  BY Selected
  <2>2. QED  BY <2>1 DEF Found, Node
<1>2. View(v)' = [p \in PathsOf(v) |-> Found(Node(p))']  BY DEF View
<1>3. QED  BY <1>1, <1>2 DEF View

\* Each thread but the one that takes the step is left where it was, and finds
\* what it has found, unless a name leads to its user's directory.
LEMMA OthersAside ==
    ASSUME IInv, NEW u \in Users, Thread(u), Remembers, NEW v \in Users, v # u
    PROVE  /\ Aside(v)
           /\ View(v)' = View(v) \/ Strays(u, v)
<1>1. Stored /\ Typed /\ Exposed /\ Sound  BY DEF IInv
<1>2. PICK own \in [Nodes -> Users] : Tree(own) /\ Holds(own) /\ Contents(own)
  BY DEF IInv, Apart
<1>3. ASSUME NEW y \in Users, v # y, NEW x, NEW w, Changes(own, y, x), Turns(y, w, x)
      PROVE  Aside(v) /\ View(v)' = View(v)
  <2>1. Stored' /\ Spared(own, y, x) /\ (x = NoNode \/ (x \in Files /\ own[x] = y))
    BY <1>1, <1>2, <1>3, Spreads
  <2>2. Others(y, x)  BY <1>3 DEF Turns
  <2>3. Aside(v) /\ \A p \in Under(v) : Lookup(link', p) = Lookup(link, p)
    BY <1>1, <1>2, <1>3, <2>1, <2>2, Bystander
  <2>4. PICK X : X = {z \in Nodes : own[z] = v}  OBVIOUS
  <2>5. \A p \in Under(v) : Lookup(link, p) \in {NoNode} \cup X  BY <1>1, <1>2, <2>4, Owned DEF Node
  <2>6. \A z \in X : (z \in dirs' <=> z \in dirs)  BY <2>1, <2>4 DEF Spared
  <2>7. ASSUME NEW z \in X, z \notin dirs PROVE data'[z] = data[z]
    <3>1. z \in Nodes /\ own[z] = v  BY <2>4
    <3>2. z \in 1 .. Len(data)  BY <1>1, <2>7, <3>1 DEF Stored, Nodes
    <3>3. z # NoNode  BY <1>1, <3>1, NothingThere
    <3>4. z # x  BY <1>3, <2>1, <3>1, <3>3
    <3>5. QED  BY <2>1, <3>2, <3>4 DEF Spared
  <2>8. QED  BY <2>3, <2>5, <2>6, <2>7, SameView
<1>4. CASE (Requests(u) \/ Works(u)) /\ UNCHANGED brought
  <2>1. PICK x, w : Changes(own, u, x) /\ Turns(u, w, x)  BY <1>1, <1>2, <1>4, ThreadDoes DEF Does
  <2>2. QED  BY <1>3, <2>1
<1>5. ASSUME NEW y \in Users \ {u}, Strays(u, y), Creates(u, y)
      PROVE  Aside(v) /\ (View(v)' = View(v) \/ Strays(u, v))
  <2>1. Changes(own, y, NoNode) /\ Turns(y, work[y], NoNode)
    BY <1>1, <1>2, <1>5, CreateDoes DEF Creates
  <2>2. CASE v # y  BY <1>3, <2>1, <2>2
  <2>3. CASE v = y
    <3>1. PICK d \in PathsOf(v) : HandleCreateDir(u, d)  BY <1>5, <2>3 DEF Creates
    <3>2. d \in Offered /\ d \in Under(v)  BY <3>1, Selected
    <3>3. \A p \in Under(v) : Lookup(link, p) # NoNode => Lookup(link', p) = Lookup(link, p)
      BY <1>1, <3>1, <3>2, OnwardNew DEF HandleCreateDir, Vacant
    <3>4. UNCHANGED work  BY <3>1 DEF HandleCreateDir
    <3>5. Stored' /\ Spared(own, v, NoNode)  BY <1>1, <1>2, <2>1, <2>3, Spreads
    <3>6. Persists(v)  BY <3>3, <3>5 DEF Persists, Spared
    <3>7. ASSUME At(v, "read")
          PROVE  data'[work[v].out] = data[work[v].out] /\ data'[work[v].in] = data[work[v].in]
      <4>1. work[v].out \in 1 .. Len(data) /\ work[v].in \in 1 .. Len(data)
        BY <1>1, <1>2, <3>7 DEF Holds, Files, At, Sound, Copying
      <4>2. NoNode \notin 1 .. Len(data)  BY <1>1, Numbers, SharingAssumption
      <4>3. QED  BY <3>5, <4>1, <4>2 DEF Spared
    <3>8. Aside(v)  BY <3>4, <3>5, <3>6, <3>7 DEF Aside, Spared
    <3>9. QED  BY <1>5, <2>3, <3>8
  <2>4. QED  BY <2>2, <2>3
<1>6. ASSUME NEW y \in Users \ {u}, Strays(u, y), NEW p, NEW q, Sends(u, y, p, q)
      PROVE  Aside(v) /\ (View(v)' = View(v) \/ Strays(u, v))
  <2>1. Stored'  BY <1>6, StoredApartStep
  <2>2. /\ Aside(v) /\ UNCHANGED <<dirs, data>>
        /\ v # y => \A r \in Under(v) : Lookup(link', r) = Lookup(link, r)
    BY <1>1, <1>2, <1>6, <2>1, SentAside
  <2>3. CASE v = y  BY <1>6, <2>2, <2>3
  <2>4. CASE v # y
    <3>1. PICK X : X = {Lookup(link, r) : r \in Under(v)}  OBVIOUS
    <3>2. \A r \in Under(v) : Lookup(link, r) \in {NoNode} \cup X  BY <3>1
    <3>3. \A z \in X : (z \in dirs' <=> z \in dirs) /\ data'[z] = data[z]  BY <2>2
    <3>4. QED  BY <2>2, <2>4, <3>2, <3>3, SameView
  <2>5. QED  BY <2>3, <2>4
<1>7. QED  BY <1>4, <1>3, <1>5, <1>6, ThreadIs

\* What is offered is not forgotten, and nobody is asked about anything else.
LEMMA LedgerStep ==
    ASSUME Typed, NEW u \in Users, Thread(u)
    PROVE  /\ changes' \in Nat
           /\ notes' \in [Users -> Seq(Offered)] /\ offers' \in [Users -> SUBSET Offered]
           /\ \A v \in Users : offers[v] \subseteq offers'[v]
           /\ \A v \in Users : \A i \in 1 .. Len(notes'[v]) : notes'[v][i] \in offers'[v]
<1>1. ASSUME UNCHANGED <<notes, offers>>, changes' \in Nat
      PROVE  /\ changes' \in Nat
             /\ notes' \in [Users -> Seq(Offered)] /\ offers' \in [Users -> SUBSET Offered]
             /\ \A v \in Users : offers[v] \subseteq offers'[v]
             /\ \A v \in Users : \A i \in 1 .. Len(notes'[v]) : notes'[v][i] \in offers'[v]
  BY <1>1 DEF Typed
<1>2. CASE \/ UNCHANGED <<notes, offers, changes>>
           \/ UNCHANGED <<notes, offers>> /\ changes' = changes + 1
  <2>1. changes' \in Nat  BY <1>2 DEF Typed
  <2>2. QED  BY <1>1, <1>2, <2>1
<1>3. ASSUME UNCHANGED <<offers, changes>>, notes[u] # << >>,
             notes' = [notes EXCEPT ![u] = Tail(@)]
      PROVE  /\ changes' \in Nat
             /\ notes' \in [Users -> Seq(Offered)] /\ offers' \in [Users -> SUBSET Offered]
             /\ \A v \in Users : offers[v] \subseteq offers'[v]
             /\ \A v \in Users : \A i \in 1 .. Len(notes'[v]) : notes'[v][i] \in offers'[v]
  <2>1. PICK t : t = Tail(notes[u])  OBVIOUS
  <2>2. t \in Seq(Offered) /\ \A i \in 1 .. Len(t) : t[i] \in offers[u]  BY <1>3, <2>1, AcceptIs
  <2>3. notes' = [notes EXCEPT ![u] = t]  BY <1>3, <2>1 DEF Typed
  <2>4. QED  BY <1>3, <2>2, <2>3 DEF Typed
<1>4. ASSUME NEW v \in Users, NEW p \in PathsOf(u), HandleShareFile(u, v, p)
      PROVE  /\ changes' \in Nat
             /\ notes' \in [Users -> Seq(Offered)] /\ offers' \in [Users -> SUBSET Offered]
             /\ \A y \in Users : offers[y] \subseteq offers'[y]
             /\ \A y \in Users : \A i \in 1 .. Len(notes'[y]) : notes'[y][i] \in offers'[y]
  <2>1. p \in Offered  BY Selected
  <2>2. PICK s, t, o : s = notes[v] /\ t = Append(s, p) /\ o = offers[v] \cup {p}  OBVIOUS
  <2>3. /\ notes' = [notes EXCEPT ![v] = t] /\ offers' = [offers EXCEPT ![v] = o]
        /\ changes' = changes
    BY <1>4, <2>2 DEF HandleShareFile, Typed
  <2>4. s \in Seq(Offered) /\ \A i \in 1 .. Len(s) : s[i] \in offers[v]  BY <2>2 DEF Typed
  <2>5. t \in Seq(Offered) /\ \A i \in 1 .. Len(t) : t[i] \in o
    <3>1. PICK P : P = Offered  OBVIOUS
    <3>2. s \in Seq(P) /\ p \in P  BY <2>1, <2>4, <3>1
    <3>3. Append(s, p) \in Seq(P) /\ Len(Append(s, p)) = Len(s) + 1
      BY ONLY <3>2, AppendProperties
    <3>4. Len(s) \in Nat  BY <3>2, LenProperties
    <3>5. ASSUME NEW i \in 1 .. Len(s) PROVE t[i] \in o
      <4>1. Append(s, p)[i] = s[i]  BY <3>2, <3>5, AppendProperties
      <4>2. QED  BY <2>2, <2>4, <4>1
    <3>6. t[Len(s) + 1] \in o
      <4>1. Append(s, p)[Len(s) + 1] = p  BY <3>2, AppendProperties
      <4>2. QED  BY <2>2, <4>1
    <3>7. \A i \in 1 .. Len(s) + 1 : i \in 1 .. Len(s) \/ i = Len(s) + 1  BY <3>4
    <3>8. QED  BY <2>2, <3>1, <3>3, <3>5, <3>6, <3>7
  <2>6. o \in SUBSET Offered  BY <2>1, <2>2 DEF Typed
  <2>7. QED  BY <2>2, <2>3, <2>5, <2>6 DEF Typed
<1>5. CASE Requests(u)
  <2>1. CASE \E p \in PathsOf(u) :
              \/ HandleCreateDir(u, p) \/ HandleDelFile(u, p) \/ HandleDelDir(u, p)
              \/ HandleUpdateFile(u, p)
              \/ RenameAway(u, p) \/ \E q \in PathsOf(u) : HandleRenameFile(u, p, q)
    <3>1. Asks(u)
      BY <2>1 DEF HandleCreateDir, HandleDelFile, HandleDelDir, HandleUpdateFile, HandleRenameFile, RenameAway
    <3>2. QED  BY <1>2, <3>1 DEF Asks
  <2>2. CASE \E p \in PathsOf(u), v \in Users : HandleShareFile(u, v, p)  BY <1>4, <2>2
  <2>3. CASE Refuse(u) \/ HandleShareNoteResponse(u)
    BY <1>3, <2>3 DEF Refuse, HandleShareNoteResponse, bounds
  <2>4. CASE WriteUploadData(u) \/ Abandon(u)
    BY <1>2, <2>4 DEF WriteUploadData, Abandon, bounds
  <2>5. QED  BY <1>5, <2>1, <2>2, <2>3, <2>4 DEF Requests
<1>6. CASE Works(u)
  BY <1>2, <1>6 DEF Works, DeleteNext, IsDir, FileExists, CreateDir, Opendir, Readdir, Stat,
     OpenIn, OpenOut, CopyBlock, CopyKeeps, bounds
<1>7. ASSUME NEW v \in Users, Strays(u, v)
      PROVE  UNCHANGED <<notes, offers>> /\ changes' = changes + 1
  BY <1>7, StraysAsk DEF Asks
<1>8. QED  BY <1>2, <1>5, <1>6, <1>7, ThreadIs

LEMMA TypedStep ==
    ASSUME IInv, NEW u \in Users, Thread(u)
    PROVE  Typed'
<1>1. Stored /\ Typed /\ Exposed /\ Sound  BY DEF IInv
<1>2. PICK own \in [Nodes -> Users] : Tree(own) /\ Holds(own) /\ Contents(own)
  BY DEF IInv, Apart
<1>3. CASE (Requests(u) \/ Works(u)) /\ UNCHANGED brought
  <2>1. PICK x, w : Turns(u, w, x)  BY <1>1, <1>2, <1>3, ThreadDoes DEF Does
  <2>2. ASSUME NEW v \in Users PROVE work'[v] \in WorkSet
    <3>1. CASE v = u  BY <2>1, <3>1 DEF Turns
    <3>2. CASE v # u
      <4>1. work[v] \in WorkSet  BY <1>1 DEF Typed, WorkSet
      <4>2. work'[v] = Stained(work[v], x)  BY <2>1, <3>2 DEF Turns, Others, Stained
      <4>3. QED  BY <4>1, <4>2, StainedIs
    <3>3. QED  BY <3>1, <3>2
  <2>3. work' = [v \in Users |-> work'[v]]  BY <2>1 DEF Turns
  <2>4. work' \in [Users -> WorkSet]  BY <2>2, <2>3
  <2>5. QED  BY <1>1, <1>3, <2>4, LedgerStep DEF Typed, WorkSet
<1>4. ASSUME NEW v \in Users, Strays(u, v), Creates(u, v) \/ \E p, q : Sends(u, v, p, q)
      PROVE  Typed'
  <2>1. UNCHANGED work  BY <1>4, StraysAsk
  <2>2. brought' \in [Users -> SUBSET (Users \X Nat)]
    <3>1. CASE Creates(u, v)  BY <1>1, <3>1 DEF Creates, Typed
    <3>2. ASSUME NEW p, NEW q, Sends(u, v, p, q) PROVE brought' \in [Users -> SUBSET (Users \X Nat)]
      <4>1. PICK e \in DOMAIN link : link[e] = Node(p)  BY <1>1, <1>2, <3>2, RenameIs DEF Sends
      <4>2. PICK B : B = UNION {ToSet(data[x]) : x \in NodesAt(link, p)}  OBVIOUS
      <4>3. B \subseteq Users \X Nat
        <5>1. NodesAt(link, p) \subseteq 1 .. Len(data)  BY <1>1, <4>1, NodesAtIs
        <5>2. \A x \in 1 .. Len(data) : ToSet(data[x]) \subseteq Users \X Nat
          <6>1. ASSUME NEW x \in 1 .. Len(data), NEW b \in ToSet(data[x]) PROVE b \in Users \X Nat
            <7>1. data[x] \in Seq(Users \X Nat)  BY <1>1, Numbers
            <7>2. PICK i \in DOMAIN data[x] : b = data[x][i]  BY DEF ToSet
            <7>3. QED  BY <7>1, <7>2
          <6>2. QED  BY <6>1
        <5>3. QED  BY <4>2, <5>1, <5>2
      <4>4. brought' = [brought EXCEPT ![v] = @ \cup B]  BY <3>2, <4>2 DEF Sends
      <4>5. QED  BY <1>1, <4>3, <4>4 DEF Typed
    <3>3. QED  BY <1>4, <3>1, <3>2
  <2>3. QED  BY <1>1, <2>1, <2>2, LedgerStep DEF Typed
<1>5. QED  BY <1>3, <1>4, ThreadIs

-----------------------------------------------------------------------------
(* The copy of the thread that takes the step.                             *)

SoundNext(u) == work'[u].op = "copy" => Copying(u)' /\ InFrames(u)'

\* What readdir has returned is there, or was not left alone.
Framed(u, fs) == \A i \in 1 .. Len(fs) :
    FrameFits(u, fs[i]) /\ \A n \in fs[i].seen : FrameDone(u, fs[i], n)

LEMMA AllFramed ==
    ASSUME NEW u \in Users, InFrames(u),
           \/ work[u].pc \notin {"stat", "createDir", "openIn", "openOut"}
           \/ Node(work[u].src) = NoNode
           \/ Node(work[u].dst) # NoNode
    PROVE  Framed(u, work[u].frames)
<1> SUFFICES ASSUME NEW i \in 1 .. Len(work[u].frames), NEW f, f = work[u].frames[i]
             PROVE  FrameFits(u, f) /\ \A n \in f.seen : FrameDone(u, f, n)
  BY DEF Framed
<1>1. FrameFits(u, f) /\ \A n \in f.seen : FrameDone(u, f, n) \/ Underway(u, f, n)
  BY DEF InFrames
<1>2. ASSUME NEW n, Underway(u, f, n) PROVE FrameDone(u, f, n)
  BY <1>2 DEF Underway, FrameDone, Untouched
<1>3. QED  BY <1>1, <1>2

LEMMA FramedKept ==
    ASSUME Stored, NEW u \in Users, Onward(u), NEW fs \in Seq(Frames), Framed(u, fs),
           work'[u].frames = fs
    PROVE  InFrames(u)'
<1> SUFFICES ASSUME NEW i \in 1 .. Len(fs), NEW f, f = fs[i]
             PROVE  FrameFits(u, f)' /\ \A n \in f.seen : FrameDone(u, f, n)'
  BY DEF InFrames
<1>1. f \in Frames  BY ElementOfSeq
<1>2. FrameFits(u, f) /\ \A n \in f.seen : FrameDone(u, f, n)  BY DEF Framed
<1>3. f.seen \subseteq Names  BY <1>1 DEF Frames
<1>4. QED  BY <1>1, <1>2, <1>3, FrameKept

LEMMA OnwardThere ==
    ASSUME NEW u \in Users, Remembers, work'[u].op = "copy", UNCHANGED <<link, dirs, offers>>
    PROVE  Onward(u)
  BY DEF Onward, Persists

\* Where the loop that a return leads to goes on.
LEMMA ReturnsSound ==
    ASSUME Stored, NEW u \in Users, NEW fs \in Seq(Frames), Returns(u, fs),
           SameFiles, UNCHANGED offers, Remembers, Framed(u, fs)
    PROVE  SoundNext(u)
<1>1. CASE fs = << >>
  <2>1. Turns(u, Idle, NoNode)  BY <1>1, Returning
  <2>2. work'[u] = Idle  BY <2>1 DEF Turns
  <2>3. QED  BY <2>2 DEF SoundNext, Idle
<1>2. CASE fs # << >>
  <2>1. PICK f : f = Head(fs)  OBVIOUS
  <2>2. f \in Frames /\ f = fs[1] /\ 1 \in 1 .. Len(fs)
    <3>1. Head(fs) = fs[1] /\ 1 \in 1 .. Len(fs)  BY <1>2, HeadIs
    <3>2. QED  BY <1>2, <2>1, <3>1, HeadFrame
  <2>3. f.src \in Offered /\ f.dst \in Offered  BY <2>2 DEF Frames
  <2>4. PICK z : z = Copy("readdir", f.src, f.dst, fs)  OBVIOUS
  <2>5. work'[u] = z  BY <1>2, <2>1, <2>4, Returning DEF Turns
  <2>6. /\ z.op = "copy" /\ z.pc = "readdir" /\ z.src = f.src /\ z.dst = f.dst
        /\ z.frames = fs /\ z.off = 0
    BY <2>4 DEF Copy
  <2>7. UNCHANGED <<link, dirs, data>>  BY DEF SameFiles, files
  <2>8. Onward(u)  BY <2>5, <2>6, <2>7, OnwardThere
  <2>9. InFrames(u)'  BY <2>5, <2>6, <2>8, FramedKept
  <2>10. FrameFits(u, f)  BY <2>2 DEF Framed
  <2>11. Copying(u)'
    <3>1. IsOffered(u, f.src)'  BY <2>10 DEF FrameFits, IsOffered
    <3>2. f.dst \in Under(u)' /\ Node(f.dst) \in dirs  BY <2>10 DEF FrameFits, Under
    <3>3. Node(f.dst) # NoNode  BY <3>2, NothingThere DEF Stored
    <3>4. Lookup(link', Front(f.dst)) \in dirs'  BY <2>3, <2>7, <3>3, Deep DEF Node
    <3>5. QED  BY <1>2, <2>5, <2>6, <3>1, <3>2, <3>4 DEF Copying, Node
  <2>12. QED  BY <2>9, <2>11 DEF SoundNext
<1>3. QED  BY <1>1, <1>2

LEMMA CallsSound ==
    ASSUME Stored, Stored', Typed, NEW u \in Users, Copying(u), InFrames(u), work[u].op = "copy",
           NEW pc \in {"createDir", "exists", "opendir", "openIn"}, Calls(u, pc),
           work[u].pc # "read", Remembers, offers[u] \subseteq offers'[u], dirs \subseteq dirs',
           \A p \in Under(u) : Lookup(link, p) # NoNode => Lookup(link', p) = Lookup(link, p),
           pc = "exists" => work[u].frames = << >>,
           pc = "opendir" => Lookup(link', work[u].dst) \in dirs'
    PROVE  SoundNext(u)
<1>1. PICK w, z : w = work[u] /\ z = [w EXCEPT !.pc = pc]  OBVIOUS
<1>2. w \in Copies /\ w.frames \in Seq(Frames)  BY <1>1, CopyTyped
<1>3. pc \in Calling  BY DEF Calling
<1>4. work'[u] = z  BY <1>1, <1>2, <1>3, CallIs DEF Turns
<1>5. /\ z.op = "copy" /\ z.pc = pc /\ z.src = w.src /\ z.dst = w.dst /\ z.frames = w.frames
      /\ z.off = 0
  BY <1>1, <1>2 DEF Copies, Copying
<1>6. Onward(u)  BY <1>4, <1>5 DEF Onward, Persists
<1>7. w.dst \in Under(u) /\ Front(w.dst) \in Under(u) /\ Node(Front(w.dst)) \in dirs
  <2>1. w.dst \in Under(u) /\ w.dst \in Offered /\ Node(Front(w.dst)) \in dirs
    BY <1>1, <1>2 DEF Copying, Copies
  <2>2. w.dst[1] = u  BY <2>1 DEF Under
  <2>3. QED  BY <2>1, <2>2, PathIs
<1>8. Copying(u)'
  <2>1. IsOffered(u, w.src)'  BY <1>1 DEF Copying, IsOffered
  <2>2. Node(Front(w.dst)) # NoNode  BY <1>7, NothingThere DEF Stored
  <2>3. Lookup(link', Front(w.dst)) \in dirs'  BY <1>7, <2>2 DEF Node
  <2>4. w.dst \in Under(u)'  BY <1>7 DEF Under
  <2>5. QED  BY <1>1, <1>4, <1>5, <2>1, <2>3, <2>4 DEF Copying, Node
<1>9. InFrames(u)'
  <2> SUFFICES ASSUME NEW i \in 1 .. Len(w.frames), NEW f, f = w.frames[i]
               PROVE  /\ FrameFits(u, f)'
                      /\ \A n \in f.seen : FrameDone(u, f, n)' \/ (i = 1 /\ Underway(u, f, n)')
    BY <1>4, <1>5 DEF InFrames
  <2>1. f \in Frames /\ f.seen \subseteq Names
    <3>1. f \in Frames  BY <1>2, ElementOfSeq
    <3>2. QED  BY <3>1 DEF Frames
  <2>2. FrameFits(u, f) /\ \A n \in f.seen : FrameDone(u, f, n) \/ (i = 1 /\ Underway(u, f, n))
    BY <1>1 DEF InFrames
  <2>3. ASSUME NEW n, Underway(u, f, n), i = 1
        PROVE  Underway(u, f, n)' \/ FrameDone(u, f, n)'
    <3>1. w.src = Append(f.src, n) /\ w.dst = Append(f.dst, n)  BY <1>1, <2>3 DEF Underway
    <3>2. CASE pc \in {"createDir", "openIn"}  BY <1>4, <1>5, <3>1, <3>2 DEF Underway
    <3>3. CASE pc = "opendir"
      <4>1. Lookup(link', Append(f.dst, n)) \in dirs'  BY <1>1, <3>1, <3>3
      <4>2. NoNode \notin dirs'  BY NothingThen
      <4>3. QED  BY <4>1, <4>2 DEF FrameDone, Node
    <3>4. CASE pc = "exists"  BY <1>1, <2>3, <3>4, EmptySeq
    <3>5. QED  BY <3>2, <3>3, <3>4
  <2>4. QED  BY <1>6, <2>1, <2>2, <2>3, FrameKept
<1>10. QED  BY <1>8, <1>9 DEF SoundNext

LEMMA FindingSound ==
    ASSUME Stored, Stored', Typed, NEW u \in Users, work[u].op = "copy", Copying(u), InFrames(u),
           Remembers, IsDir(u) \/ FileExists(u) \/ CreateDir(u) \/ Stat(u)
    PROVE  SoundNext(u)
<1>1. PICK w : w = work[u]  OBVIOUS
<1>2. /\ w \in Copies /\ w.frames \in Seq(Frames) /\ << >> \in Seq(Frames)
      /\ w.dst \in Offered /\ w.dst \in Under(u) /\ Parent(w.dst) \in dirs
  BY <1>1, CopyTyped DEF Copying, Parent
<1>3. UNCHANGED offers  BY DEF IsDir, FileExists, CreateDir, Stat, CopyKeeps
<1>4. w.pc # "read" /\ w.pc \in {"isDir", "exists", "createDir", "stat"}
  BY <1>1 DEF IsDir, FileExists, CreateDir, Stat, At
<1>5. ASSUME SameFiles, NEW pc \in {"createDir", "exists", "opendir", "openIn"}, Calls(u, pc),
             pc = "exists" => w.frames = << >>,
             pc = "opendir" => Node(w.dst) \in dirs
      PROVE  SoundNext(u)
  <2>1. UNCHANGED <<link, dirs, data>>  BY <1>5 DEF SameFiles, files
  <2>2. pc = "opendir" => Lookup(link', work[u].dst) \in dirs'  BY <1>1, <1>5, <2>1 DEF Node
  <2>3. QED  BY <1>1, <1>3, <1>4, <1>5, <2>1, <2>2, CallsSound
<1>6. ASSUME SameFiles, Returns(u, w.frames), Node(w.src) = NoNode \/ Node(w.dst) # NoNode
      PROVE  SoundNext(u)
  <2>1. Framed(u, w.frames)  BY <1>1, <1>6, AllFramed
  <2>2. QED  BY <1>2, <1>3, <1>6, <2>1, ReturnsSound
<1>7. CASE IsDir(u)
  <2>1. w.frames = << >>  BY <1>1, <1>7 DEF IsDir, At, Copying
  <2>2. QED  BY <1>1, <1>5, <1>7, <2>1 DEF IsDir
<1>8. CASE FileExists(u)
  <2>1. w.frames = << >> /\ SameFiles  BY <1>1, <1>8 DEF FileExists, At, Copying
  <2>2. CASE Node(w.src) = NoNode  BY <1>1, <1>6, <1>8, <2>1, <2>2 DEF FileExists
  <2>3. CASE Node(w.src) # NoNode  BY <1>1, <1>5, <1>8, <2>1, <2>3 DEF FileExists
  <2>4. QED  BY <2>2, <2>3
<1>9. CASE Stat(u)
  BY <1>1, <1>5, <1>6, <1>9 DEF Stat
<1>10. CASE CreateDir(u)
  <2>1. CASE Node(w.dst) # NoNode
    BY <1>1, <1>5, <1>6, <1>10, <2>1 DEF CreateDir
  <2>2. CASE Node(w.dst) = NoNode
    <3>1. PICK d : d = w.dst  OBVIOUS
    <3>2. /\ link' = Linked(<<Parent(d), Last(d)>>, NewNode)
          /\ dirs' = dirs \cup {NewNode} /\ Calls(u, "opendir")
      BY <1>1, <1>10, <2>2, <3>1 DEF CreateDir
    <3>3. /\ \A p \in Under(u) : Lookup(link, p) # NoNode => Lookup(link', p) = Lookup(link, p)
          /\ Lookup(link', d) = NewNode
      BY <1>2, <2>2, <3>1, <3>2, OnwardNew
    <3>4. dirs \subseteq dirs' /\ Lookup(link', work[u].dst) \in dirs'
      BY <1>1, <3>1, <3>2, <3>3
    <3>5. PICK pc : pc = "opendir"  OBVIOUS
    <3>6. QED  BY <1>1, <1>3, <1>4, <3>2, <3>3, <3>4, <3>5, CallsSound
  <2>3. QED  BY <2>1, <2>2
<1>11. QED  BY <1>7, <1>8, <1>9, <1>10

LEMMA OpendirSound ==
    ASSUME Stored, Typed, NEW u \in Users, Copying(u), InFrames(u), Remembers, Opendir(u)
    PROVE  SoundNext(u)
<1>1. At(u, "opendir") /\ SameFiles /\ UNCHANGED offers  BY DEF Opendir, CopyKeeps
<1>2. PICK w : w = work[u]  OBVIOUS
<1>3. w \in Copies /\ w.frames \in Seq(Frames) /\ w.src \in Offered /\ w.dst \in Offered
  BY <1>1, <1>2, CopyTyped DEF At
<1>4. Framed(u, w.frames)  BY <1>1, <1>2, AllFramed DEF At
<1>5. CASE Node(w.src) \in dirs
  <2>1. PICK f : f = Frame(w.src, w.dst, Node(w.src))  OBVIOUS
  <2>2. f \in Frames  BY <1>3, <1>5, <2>1, LinksAreNodes DEF Frame, Frames
  <2>3. f.src = w.src /\ f.dst = w.dst /\ f.dir = Node(w.src) /\ f.seen = {}  BY <2>1 DEF Frame
  <2>4. FrameFits(u, f) /\ \A n \in f.seen : FrameDone(u, f, n)
    BY <1>1, <1>2, <2>3 DEF FrameFits, Copying, At
  <2>5. PICK t : t = <<f>> \o w.frames  OBVIOUS
  <2>6. Returns(u, t)  BY <1>2, <1>5, <2>1, <2>5 DEF Opendir
  <2>7. /\ t \in Seq(Frames) /\ Len(t) = Len(w.frames) + 1 /\ Len(w.frames) \in Nat /\ t[1] = f
        /\ \A i \in 1 .. Len(w.frames) : t[i + 1] = w.frames[i]
    BY <1>3, <2>2, <2>5, PushIs
  <2>8. ASSUME NEW i \in 1 .. Len(t)
        PROVE  FrameFits(u, t[i]) /\ \A n \in t[i].seen : FrameDone(u, t[i], n)
    <3>1. CASE i = 1  BY <2>4, <2>7, <3>1
    <3>2. CASE i # 1
      <4>1. PICK j : j = i - 1  OBVIOUS
      <4>2. j \in 1 .. Len(w.frames) /\ i = j + 1  BY <2>7, <2>8, <3>2, <4>1
      <4>3. t[i] = w.frames[j]  BY <2>7, <4>2
      <4>4. QED  BY <1>4, <4>2, <4>3 DEF Framed
    <3>3. QED  BY <3>1, <3>2
  <2>9. Framed(u, t)  BY <2>8 DEF Framed
  <2>10. QED  BY <1>1, <2>6, <2>7, <2>9, ReturnsSound
<1>6. CASE Node(w.src) \notin dirs
  <2>1. Returns(u, << >> \o w.frames)  BY <1>2, <1>6 DEF Opendir
  <2>2. << >> \o w.frames = w.frames  BY <1>3, ConcatEmptySeq
  <2>3. QED  BY <1>1, <1>3, <1>4, <2>1, <2>2, ReturnsSound
<1>7. QED  BY <1>5, <1>6

LEMMA EndedSound ==
    ASSUME Stored, Typed, NEW u \in Users, Copying(u), InFrames(u), At(u, "readdir"), Remembers,
           Ended(u), SameFiles, UNCHANGED offers
    PROVE  SoundNext(u)
<1>1. PICK fs, t : fs = work[u].frames /\ t = Tail(fs)  OBVIOUS
<1>2. fs \in Seq(Frames) /\ fs # << >>  BY <1>1, CopyTyped DEF At, Copying
<1>3. /\ t \in Seq(Frames) /\ Len(fs) \in Nat /\ Len(t) = Len(fs) - 1
      /\ \A i \in 1 .. Len(fs) - 1 : t[i] = fs[i + 1]
  BY <1>1, <1>2, HeadIs
<1>4. Framed(u, fs)  BY <1>1, AllFramed DEF At
<1>5. ASSUME NEW i \in 1 .. Len(t)
      PROVE  FrameFits(u, t[i]) /\ \A n \in t[i].seen : FrameDone(u, t[i], n)
  <2>1. i + 1 \in 1 .. Len(fs) /\ t[i] = fs[i + 1]  BY <1>3
  <2>2. QED  BY <1>4, <2>1 DEF Framed
<1>6. Framed(u, t)  BY <1>5 DEF Framed
<1>7. Returns(u, t)  BY <1>1 DEF Ended
<1>8. QED  BY <1>3, <1>6, <1>7, ReturnsSound

LEMMA EnteredSound ==
    ASSUME Stored, Typed, NEW u \in Users, Copying(u), InFrames(u), At(u, "readdir"), Remembers,
           NEW n, Entered(u, n), SameFiles, UNCHANGED offers
    PROVE  SoundNext(u)
<1>1. PICK f \in Frames, g \in Frames, fs \in Seq(Frames), t \in Seq(Frames), w \in Copies :
          /\ fs = work[u].frames /\ fs # << >> /\ f = Head(fs) /\ g = [f EXCEPT !.seen = @ \cup {n}]
          /\ t = <<g>> \o Tail(fs) /\ n \in Names
          /\ w = Copy("stat", Append(f.src, n), Append(f.dst, n), t)
          /\ f.dst \in Under(u) /\ Turns(u, w, NoNode)
  BY EnteredIs
<1>2. /\ w.op = "copy" /\ w.pc = "stat" /\ w.src = Append(f.src, n) /\ w.dst = Append(f.dst, n)
      /\ w.frames = t /\ w.off = 0 /\ work'[u] = w
  <2>1. PICK s, d : s = Append(f.src, n) /\ d = Append(f.dst, n)  OBVIOUS
  <2>2. w = Copy("stat", s, d, t)  BY <1>1, <2>1
  <2>3. /\ w.op = "copy" /\ w.pc = "stat" /\ w.src = s /\ w.dst = d /\ w.frames = t /\ w.off = 0
    BY <2>2 DEF Copy
  <2>4. work'[u] = w  BY <1>1 DEF Turns
  <2>5. QED  BY <2>1, <2>3, <2>4
<1>3. UNCHANGED <<link, dirs, data>>  BY DEF SameFiles, files
<1>4. Onward(u)  BY <1>2, <1>3, OnwardThere
<1>5. f = fs[1] /\ 1 \in 1 .. Len(fs) /\ Len(fs) \in Nat  BY <1>1, HeadIs
<1>6. Framed(u, fs)  BY <1>1, AllFramed DEF At
<1>7. FrameFits(u, f) /\ \A m \in f.seen : FrameDone(u, f, m)  BY <1>5, <1>6 DEF Framed
<1>8. g.src = f.src /\ g.dst = f.dst /\ g.dir = f.dir /\ g.seen = f.seen \cup {n}
  BY <1>1 DEF Frames
<1>9. f.src \in Offered /\ f.src \in Under(f.src[1]) /\ f.src[1] \in Users
  <2>1. f.src \in Offered  BY DEF Frames
  <2>2. QED  BY <2>1, PathIs DEF Offered
<1>10. Copying(u)'
  <2>1. IsOffered(u, Append(f.src, n))'
    <3>1. PICK q \in offers[u] : IsPrefix(q, f.src)  BY <1>7 DEF FrameFits, IsOffered
    <3>2. q \in Offered  BY DEF Typed
    <3>3. Len(q) \in Nat  BY <3>2, PathIs
    <3>4. IsPrefix(q, Append(f.src, n))  BY <1>1, <1>9, <3>1, <3>3, Longer
    <3>5. QED  BY <3>4 DEF IsOffered
  <2>2. Append(f.dst, n) \in Under(u) /\ Front(Append(f.dst, n)) = f.dst  BY <1>1, Longer
  <2>3. Lookup(link', f.dst) \in dirs'  BY <1>3, <1>7 DEF FrameFits, Node
  <2>4. Append(f.dst, n) \in Under(u)'  BY <2>2 DEF Under
  <2>5. QED  BY <1>2, <2>1, <2>2, <2>3, <2>4 DEF Copying, Node
<1>11. InFrames(u)'
  <2> SUFFICES ASSUME NEW i \in 1 .. Len(t), NEW h, h = t[i]
               PROVE  /\ FrameFits(u, h)'
                      /\ \A m \in h.seen : FrameDone(u, h, m)' \/ (i = 1 /\ Underway(u, h, m)')
    BY <1>2 DEF InFrames
  <2>1. PICK r : r = Tail(fs)  OBVIOUS
  <2>2. r \in Seq(Frames) /\ Len(r) = Len(fs) - 1 /\ \A j \in 1 .. Len(fs) - 1 : r[j] = fs[j + 1]
    BY <1>1, <2>1, HeadIs
  <2>3. Len(t) = Len(r) + 1 /\ t[1] = g /\ \A j \in 1 .. Len(r) : t[j + 1] = r[j]
    <3>1. t = <<g>> \o r  BY <1>1, <2>1
    <3>2. QED  BY <2>2, <3>1, PushIs
  <2>4. CASE i = 1
    <3>1. h = g  BY <2>3, <2>4
    <3>2. FrameFits(u, f)' /\ \A m \in f.seen : FrameDone(u, f, m)'
      <4>1. f.seen \subseteq Names  BY DEF Frames
      <4>2. QED  BY <1>4, <1>7, <4>1, FrameKept
    <3>3. FrameFits(u, g)'  BY <1>8, <3>2 DEF FrameFits
    <3>4. \A m \in f.seen : FrameDone(u, g, m)'  BY <1>8, <3>2 DEF FrameDone
    <3>5. Underway(u, g, n)'  BY <1>2, <1>8 DEF Underway
    <3>6. QED  BY <1>8, <2>4, <3>1, <3>3, <3>4, <3>5
  <2>5. CASE i # 1
    <3>1. PICK j : j = i - 1  OBVIOUS
    <3>2. j \in 1 .. Len(r) /\ i = j + 1 /\ j \in 1 .. Len(fs) - 1 /\ i \in 1 .. Len(fs)
      BY <1>5, <2>2, <2>3, <2>5, <3>1
    <3>3. h = fs[i]  BY <2>2, <2>3, <3>2
    <3>4. h \in Frames  BY <3>2, <3>3, ElementOfSeq
    <3>5. FrameFits(u, h) /\ \A m \in h.seen : FrameDone(u, h, m)  BY <1>6, <3>2, <3>3 DEF Framed
    <3>6. h.seen \subseteq Names  BY <3>4 DEF Frames
    <3>7. QED  BY <1>4, <3>4, <3>5, <3>6, FrameKept
  <2>6. QED  BY <2>4, <2>5
<1>12. QED  BY <1>10, <1>11 DEF SoundNext

LEMMA OpenInSound ==
    ASSUME Stored, Typed, Exposed, NEW u \in Users, Copying(u), InFrames(u), Remembers, OpenIn(u)
    PROVE  SoundNext(u)
<1>1. At(u, "openIn") /\ SameFiles /\ UNCHANGED offers  BY DEF OpenIn, CopyKeeps
<1>2. PICK w, x : w = work[u] /\ x = Node(work[u].src)  OBVIOUS
<1>3. w \in Copies /\ w.frames \in Seq(Frames) /\ w.src \in Offered  BY <1>1, <1>2, CopyTyped DEF At
<1>4. CASE x = NoNode
  <2>1. Framed(u, w.frames)  BY <1>2, <1>4, AllFramed
  <2>2. Returns(u, w.frames)  BY <1>2, <1>4 DEF OpenIn
  <2>3. QED  BY <1>1, <1>3, <2>1, <2>2, ReturnsSound
<1>5. CASE x # NoNode
  <2>1. PICK z \in Copies :
            /\ z = [w EXCEPT !.pc = "openOut", !.in = x, !.clean = TRUE] /\ Turns(u, z, NoNode)
    BY <1>2, <1>5, OpenInIs
  <2>2. /\ z.op = "copy" /\ z.pc = "openOut" /\ z.src = w.src /\ z.dst = w.dst
        /\ z.frames = w.frames /\ z.in = x /\ z.off = w.off /\ work'[u] = z
    BY <1>3, <2>1 DEF Copies, Turns
  <2>3. UNCHANGED <<link, dirs, data>>  BY <1>1 DEF SameFiles, files
  <2>4. Onward(u)  BY <1>1, <2>2, <2>3, OnwardThere
  <2>5. x \in exposed[u] /\ x \in 1 .. Len(data)
    BY <1>2, <1>3, <1>5, BelowOffered DEF Copying
  <2>6. x \in exposed'[u] /\ x \in 1 .. Len(data')  BY <2>3, <2>5, Remembered
  <2>7. Copying(u)'
    <3>1. IsOffered(u, w.src)'  BY <1>1, <1>2 DEF Copying, IsOffered
    <3>2. w.dst \in Under(u)' /\ Lookup(link', Front(w.dst)) \in dirs' /\ w.off = 0
      BY <1>1, <1>2, <2>3 DEF Copying, Under, Node, At
    <3>3. QED  BY <2>2, <2>6, <3>1, <3>2 DEF Copying, Node
  <2>8. InFrames(u)'
    <3> SUFFICES ASSUME NEW i \in 1 .. Len(w.frames), NEW f, f = w.frames[i]
                 PROVE  /\ FrameFits(u, f)'
                        /\ \A n \in f.seen : FrameDone(u, f, n)' \/ (i = 1 /\ Underway(u, f, n)')
      BY <2>2 DEF InFrames
    <3>1. f \in Frames  BY <1>3, ElementOfSeq
    <3>2. f.seen \subseteq Names  BY <3>1 DEF Frames
    <3>3. FrameFits(u, f) /\ \A n \in f.seen : FrameDone(u, f, n) \/ (i = 1 /\ Underway(u, f, n))
      BY <1>2 DEF InFrames
    <3>4. \A n : Underway(u, f, n) => Underway(u, f, n)'  BY <1>2, <2>2 DEF Underway
    <3>5. QED  BY <2>4, <3>1, <3>2, <3>3, <3>4, FrameKept
  <2>9. QED  BY <2>7, <2>8 DEF SoundNext
<1>6. QED  BY <1>4, <1>5

\* A copy that is reading or about to: its frames are as they were.
LEMMA ReadingFramed ==
    ASSUME Stored, Typed, NEW u \in Users, work[u].op = "copy", InFrames(u), Onward(u),
           work'[u].frames = work[u].frames,
           work[u].pc = "read" \/ (NoNode \notin dirs' /\ Lookup(link', work[u].dst) # NoNode)
    PROVE  InFrames(u)'
<1>1. PICK w : w = work[u]  OBVIOUS
<1>2. w \in Copies /\ w.frames \in Seq(Frames)  BY <1>1, CopyTyped
<1> SUFFICES ASSUME NEW i \in 1 .. Len(w.frames), NEW f, f = w.frames[i]
             PROVE  FrameFits(u, f)' /\ \A n \in f.seen : FrameDone(u, f, n)'
  BY <1>1 DEF InFrames
<1>3. f \in Frames  BY <1>2, ElementOfSeq
<1>4. f.seen \subseteq Names  BY <1>3 DEF Frames
<1>5. FrameFits(u, f) /\ \A n \in f.seen : FrameDone(u, f, n) \/ Underway(u, f, n)
  BY <1>1 DEF InFrames
<1>6. ASSUME NEW n, Underway(u, f, n) PROVE FrameDone(u, f, n)'
  <2>1. work[u].dst = Append(f.dst, n) /\ work[u].pc # "read"  BY <1>6 DEF Underway
  <2>2. Lookup(link', Append(f.dst, n)) # NoNode  BY <2>1
  <2>3. QED  BY <2>2 DEF FrameDone, Node
<1>7. QED  BY <1>3, <1>4, <1>5, <1>6, FrameKept

LEMMA OpenOutSound ==
    ASSUME Stored, Stored', Typed, NEW u \in Users, Copying(u), InFrames(u), Remembers, OpenOut(u)
    PROVE  SoundNext(u)
<1>1. At(u, "openOut") /\ UNCHANGED offers  BY OpenOutIs DEF CopyKeeps
<1>2. PICK w : w = work[u]  OBVIOUS
<1>3. /\ w \in Copies /\ w.frames \in Seq(Frames) /\ w.dst \in Offered
      /\ w.dst \in Under(u) /\ Parent(w.dst) \in dirs /\ w.off = 0
      /\ w.in \in exposed[u] /\ w.in \in 1 .. Len(data) /\ w.in # NoNode
  <2>1. w.in \in 1 .. Len(data) => w.in # NoNode  BY Numbers, SharingAssumption
  <2>2. QED  BY <1>1, <1>2, <2>1, CopyTyped DEF At, Copying, Parent
<1>4. CASE Node(w.dst) \in dirs /\ Returns(u, w.frames) /\ SameFiles
  <2>1. Node(w.dst) # NoNode  BY <1>4, NothingThere DEF Stored
  <2>2. Framed(u, w.frames)  BY <1>2, <2>1, AllFramed
  <2>3. QED  BY <1>1, <1>3, <1>4, <2>2, ReturnsSound
<1>5. ASSUME NEW x, NEW z, Opened(u, x, z) PROVE SoundNext(u)
  <2>1. z \in Copies /\ z = [w EXCEPT !.pc = "read", !.out = x]  BY <1>2, <1>5 DEF Opened
  <2>2. ASSUME NEW y \in Copies, y = z \/ y = [z EXCEPT !.clean = FALSE], work'[u] = y,
               dirs \subseteq dirs', Lookup(link', w.dst) # NoNode,
               \A p \in Under(u) : Lookup(link, p) # NoNode => Lookup(link', p) = Lookup(link, p),
               Len(data) <= Len(data'), Len(data') \in Nat,
               y.clean => w.in # x /\ data'[x] = << >>
        PROVE  SoundNext(u)
    <3>1. /\ y.op = "copy" /\ y.pc = "read" /\ y.src = w.src /\ y.dst = w.dst
          /\ y.frames = w.frames /\ y.in = w.in /\ y.out = x /\ y.off = 0
      BY <1>3, <2>1, <2>2 DEF Copies
    <3>2. Onward(u)  BY <1>1, <2>2, <3>1 DEF Onward, Persists
    <3>3. InFrames(u)'  BY <1>1, <1>2, <2>2, <3>1, <3>2, NothingThen, ReadingFramed DEF At
    <3>4. IsOffered(u, w.src)'  BY <1>1, <1>2 DEF Copying, IsOffered
    <3>5. Lookup(link', Front(w.dst)) \in dirs'
      <4>1. Front(w.dst) \in Under(u)
        <5>1. w.dst[1] = u  BY <1>3 DEF Under
        <5>2. QED  BY <1>3, <5>1, PathIs
      <4>2. Node(Front(w.dst)) \in dirs /\ Node(Front(w.dst)) # NoNode
        BY <1>3, NothingThere DEF Stored, Parent
      <4>3. QED  BY <2>2, <4>1, <4>2 DEF Node
    <3>6. w.in \in exposed'[u]  BY <1>3, Remembered
    <3>7. w.in \in 1 .. Len(data')  BY <1>3, <2>2, Numbers
    <3>8. ASSUME y.clean
          PROVE  /\ w.in # x /\ 0 <= Len(data'[w.in])
                 /\ data'[x] = SubSeq(data'[w.in], 1, 0)
      <4>1. data'[w.in] \in Seq(Users \X Nat)  BY <3>7, ElementOfSeq DEF Stored
      <4>2. PICK s : s = data'[w.in]  OBVIOUS
      <4>3. Len(s) \in Nat  BY <4>1, <4>2, LenProperties
      <4>4. SubSeq(s, 1, 0) = << >>  BY SubSeqEmpty
      <4>5. w.in # x /\ data'[x] = << >>  BY <2>2, <3>8
      <4>6. 0 <= Len(s)  BY <4>3
      <4>7. QED  BY <4>2, <4>4, <4>5, <4>6
    <3>9. w.dst \in Under(u)'  BY <1>3 DEF Under
    <3>10. Copying(u)'
      BY <2>2, <3>1, <3>4, <3>5, <3>6, <3>7, <3>8, <3>9 DEF Copying, Node
    <3>11. QED  BY <3>3, <3>10 DEF SoundNext
  <2>3. CASE /\ Node(w.dst) = NoNode /\ x = NewNode
             /\ link' = Linked(<<Parent(w.dst), Last(w.dst)>>, NewNode)
             /\ data' = Append(data, << >>) /\ UNCHANGED dirs
             /\ Turns(u, z, NoNode)
    <3>1. PICK d : d = w.dst  OBVIOUS
    <3>2. /\ \A p \in Under(u) : Lookup(link, p) # NoNode => Lookup(link', p) = Lookup(link, p)
          /\ Lookup(link', d) = NewNode
      BY <1>3, <2>3, <3>1, OnwardNew
    <3>3. Len(data') = NewNode /\ data'[NewNode] = << >>
      <4> DEFINE S == Seq(Users \X Nat)
      <4>1. << >> \in S /\ data \in Seq(S)  BY DEF Stored
      <4> HIDE DEF S
      <4>2. QED  BY <2>3, <4>1, AppendProperties DEF NewNode
    <3>4. Len(data) <= Len(data') /\ Len(data') \in Nat /\ w.in # x /\ NewNode # NoNode
      <4>1. Len(data) \in Nat /\ NewNode \in Nat /\ NewNode = Len(data) + 1  BY Numbers
      <4>2. QED  BY <1>3, <2>3, <3>3, <4>1, SharingAssumption
    <3>5. work'[u] = z  BY <2>3 DEF Turns
    <3>6. QED  BY <2>1, <2>2, <2>3, <3>1, <3>2, <3>3, <3>4, <3>5
  <2>4. CASE /\ x = Node(w.dst) /\ x \in Files
             /\ data' = [data EXCEPT ![x] = << >>] /\ UNCHANGED <<link, dirs>>
             /\ Turns(u, Stained(z, x), x)
    <3>1. PICK y : y = Stained(z, x)  OBVIOUS
    <3>2. /\ y \in Copies /\ (y = z \/ y = [z EXCEPT !.clean = FALSE])
          /\ y.clean => w.in # x
      <4>1. z.in = w.in /\ z.op = "copy"  BY <1>3, <2>1 DEF Copies
      <4>2. CASE w.in = x
        <5>1. y = [z EXCEPT !.clean = FALSE]  BY <1>3, <3>1, <4>1, <4>2 DEF Stained
        <5>2. y \in Copies /\ y.clean = FALSE  BY <2>1, <5>1 DEF Copies
        <5>3. QED  BY <5>1, <5>2
      <4>3. CASE w.in # x
        <5>1. y = z  BY <3>1, <4>1, <4>3 DEF Stained
        <5>2. QED  BY <2>1, <4>3, <5>1
      <4>4. QED  BY <4>2, <4>3
    <3>3. x \in 1 .. Len(data)  BY <2>4 DEF Files
    <3>4. Len(data') = Len(data) /\ data'[x] = << >> /\ Len(data) \in Nat
      <4> DEFINE S == Seq(Users \X Nat)
      <4>1. << >> \in S /\ data \in Seq(S)  BY DEF Stored
      <4> HIDE DEF S
      <4>2. QED  BY <2>4, <3>3, <4>1, ExceptSeq, LenProperties
    <3>5. Lookup(link', w.dst) # NoNode /\ work'[u] = y /\ dirs' = dirs /\ link' = link
      <4>1. x # NoNode  BY <3>3, <3>4, SharingAssumption
      <4>2. QED  BY <2>4, <3>1, <4>1 DEF Turns, Node
    <3>6. Len(data) <= Len(data') /\ Len(data') \in Nat  BY <3>4
    <3>7. QED  BY <2>1, <2>2, <3>2, <3>4, <3>5, <3>6
  <2>5. QED  BY <1>2, <1>5, <2>3, <2>4 DEF Opened
<1>6. QED  BY <1>2, <1>4, <1>5, OpenOutIs

LEMMA OneMore ==
    ASSUME NEW S, NEW s \in Seq(S), NEW k \in Nat, k < Len(s)
    PROVE  Append(SubSeq(s, 1, k), s[k + 1]) = SubSeq(s, 1, k + 1)
<1>1. Len(s) \in Nat /\ k \in 0 .. Len(s) /\ k + 1 \in 0 .. Len(s) /\ k + 1 \in 1 .. Len(s)
  BY LenProperties
<1>2. s[k + 1] \in S  BY <1>1, ElementOfSeq
<1>3. PICK a, b, e : a = SubSeq(s, 1, k) /\ b = SubSeq(s, 1, k + 1) /\ e = s[k + 1]  OBVIOUS
<1>4. /\ a \in Seq(S) /\ Len(a) = k /\ \A i \in 1 .. k : a[i] = s[i]
      /\ b \in Seq(S) /\ Len(b) = k + 1 /\ \A i \in 1 .. k + 1 : b[i] = s[i]
  BY <1>1, <1>3, Prefix
<1>5. PICK c : c = Append(a, e)  OBVIOUS
<1>6. /\ c \in Seq(S) /\ Len(c) = k + 1 /\ \A i \in 1 .. k : c[i] = a[i]
      /\ c[k + 1] = e
  BY <1>2, <1>3, <1>4, <1>5, AppendProperties
<1>7. \A i \in 1 .. k + 1 : i \in 1 .. k \/ i = k + 1  OBVIOUS
<1>8. \A i \in 1 .. Len(c) : c[i] = b[i]  BY <1>3, <1>4, <1>6, <1>7
<1>9. c = b  BY <1>4, <1>6, <1>8, SeqEqual
<1>10. QED  BY <1>3, <1>5, <1>9

LEMMA CopyBlockSound ==
    ASSUME Stored, Stored', Typed, NEW own, Holds(own), NEW u \in Users, Copying(u), InFrames(u),
           Remembers, CopyBlock(u)
    PROVE  SoundNext(u)
<1>1. At(u, "read") /\ UNCHANGED offers  BY CopyBlockIs DEF CopyKeeps
<1>2. PICK w : w = work[u]  OBVIOUS
<1>3. /\ w \in Copies /\ w.frames \in Seq(Frames) /\ w.off \in Nat
      /\ w.dst \in Under(u) /\ Node(Front(w.dst)) \in dirs
      /\ w.in \in exposed[u] /\ w.in \in 1 .. Len(data) /\ w.in # NoNode
      /\ w.out \in 1 .. Len(data)
  <2>1. w.in \in 1 .. Len(data) => w.in # NoNode  BY Numbers, SharingAssumption
  <2>2. w \in Copies  BY <1>1, <1>2, CopyTyped DEF At
  <2>3. w.off \in Nat  BY <2>2 DEF Copies
  <2>4. w.out \in 1 .. Len(data)  BY <1>1, <1>2 DEF Holds, Files
  <2>5. QED  BY <1>1, <1>2, <2>1, <2>2, <2>3, <2>4, CopyTyped DEF At, Copying
<1>4. CASE Returns(u, w.frames) /\ SameFiles
  <2>1. Framed(u, w.frames)  BY <1>1, <1>2, AllFramed DEF At
  <2>2. QED  BY <1>1, <1>3, <1>4, <2>1, ReturnsSound
<1>5. ASSUME NEW b, NEW z, CopiedBlock(u, b, z) PROVE SoundNext(u)
  <2>1. /\ w.in \notin dirs /\ w.off < Len(data[w.in]) /\ b = data[w.in][w.off + 1]
        /\ data' = [data EXCEPT ![w.out] = Append(@, b)] /\ UNCHANGED <<link, dirs>>
        /\ z = [w EXCEPT !.off = @ + 1] /\ z \in Copies
        /\ Turns(u, Stained(z, w.out), w.out)
    BY <1>2, <1>5 DEF CopiedBlock
  <2>2. PICK y, k, s : y = Stained(z, w.out) /\ k = w.off + 1 /\ s = data[w.in]  OBVIOUS
  <2>3. z.in = w.in /\ z.op = "copy" /\ z.clean = w.clean  BY <1>3, <2>1 DEF Copies
  <2>4. y = z \/ y = [z EXCEPT !.clean = FALSE]  BY <2>2 DEF Stained
  <2>5. /\ y.op = "copy" /\ y.pc = "read" /\ y.src = w.src /\ y.dst = w.dst
        /\ y.frames = w.frames /\ y.in = w.in /\ y.out = w.out /\ y.off = k
    <3>1. z = [w EXCEPT !.off = k]  BY <1>3, <2>1, <2>2 DEF Copies
    <3>2. k \in Nat  BY <1>3, <2>2
    <3>3. w.pc = "read"  BY <1>1, <1>2 DEF At
    <3>4. QED  BY <1>3, <2>4, <3>1, <3>2, <3>3 DEF Copies
  <2>6. y.clean => w.clean /\ w.in # w.out
    <3>1. CASE w.in = w.out
      <4>1. y = [z EXCEPT !.clean = FALSE]  BY <1>3, <2>2, <2>3, <3>1 DEF Stained
      <4>2. y.clean = FALSE  BY <2>1, <4>1 DEF Copies
      <4>3. QED  BY <4>2
    <3>2. CASE w.in # w.out
      <4>1. y = z  BY <2>2, <2>3, <3>2 DEF Stained
      <4>2. QED  BY <2>3, <3>2, <4>1
    <3>3. QED  BY <3>1, <3>2
  <2>7. work'[u] = y  BY <2>1, <2>2 DEF Turns
  <2>8. Onward(u)  BY <1>1, <2>1, <2>5, <2>7, OnwardThere
  <2>9. InFrames(u)'  BY <1>1, <1>2, <2>5, <2>7, <2>8, ReadingFramed DEF At
  <2>10. s \in Seq(Users \X Nat) /\ Len(s) \in Nat  BY <1>3, <2>2, Numbers, LenProperties
  <2>11. b \in Users \X Nat
    <3>1. k \in 1 .. Len(s) /\ b = s[k]  BY <1>3, <2>1, <2>2, <2>10
    <3>2. QED  BY <2>10, <3>1, ElementsIn
  <2>12. PICK t : t = Append(data[w.out], b)  OBVIOUS
  <2>13. data' = [data EXCEPT ![w.out] = t] /\ t \in Seq(Users \X Nat)
    <3>1. t \in Seq(Users \X Nat)  BY <1>3, <2>11, <2>12, Extended
    <3>2. QED  BY <1>3, <2>1, <2>12, <3>1 DEF Stored
  <2>14. /\ Len(data') = Len(data)
         /\ \A i \in 1 .. Len(data) : data'[i] = IF i = w.out THEN t ELSE data[i]
    <3> DEFINE S == Seq(Users \X Nat)
    <3>1. t \in S /\ data \in Seq(S)  BY <2>13 DEF Stored
    <3> HIDE DEF S
    <3>2. QED  BY <1>3, <2>13, <3>1, ExceptSeq
  <2>15. ASSUME y.clean
         PROVE  /\ w.in # w.out /\ k <= Len(data'[w.in])
                /\ data'[w.out] = SubSeq(data'[w.in], 1, k)
    <3>1. w.clean /\ w.in # w.out  BY <2>6, <2>15
    <3>2. data[w.out] = SubSeq(s, 1, w.off)  BY <1>1, <1>2, <2>2, <3>1 DEF Copying, At
    <3>3. data'[w.in] = s /\ data'[w.out] = t  BY <1>3, <2>2, <2>14, <3>1
    <3>4. w.off < Len(s) /\ b = s[w.off + 1]  BY <2>1, <2>2
    <3>5. k <= Len(s)  BY <1>3, <2>2, <2>10, <3>4
    <3>6. Append(SubSeq(s, 1, w.off), s[w.off + 1]) = SubSeq(s, 1, w.off + 1)
      BY <1>3, <2>10, <3>4, OneMore
    <3>7. t = SubSeq(s, 1, k)  BY <2>2, <2>12, <3>2, <3>4, <3>6
    <3>8. QED  BY <3>1, <3>3, <3>5, <3>7
  <2>16. Copying(u)'
    <3>1. IsOffered(u, w.src)'  BY <1>1, <1>2 DEF Copying, IsOffered
    <3>2. w.dst \in Under(u)' /\ Lookup(link', Front(w.dst)) \in dirs'
      BY <1>3, <2>1 DEF Under, Node
    <3>3. w.in \in exposed'[u] /\ w.in \in 1 .. Len(data')  BY <1>3, <2>14, Remembered
    <3>4. QED  BY <2>5, <2>7, <2>15, <3>1, <3>2, <3>3 DEF Copying, Node
  <2>17. QED  BY <2>9, <2>16 DEF SoundNext
<1>6. QED  BY <1>2, <1>4, <1>5, CopyBlockIs

LEMMA AcceptSound ==
    ASSUME Stored, Typed, NEW u \in Users, HandleShareNoteResponse(u)
    PROVE  SoundNext(u)
<1>1. PICK p, d, w : p = Head(notes[u]) /\ d = <<u, Last(p)>> /\ w = Copy("isDir", p, d, << >>)  OBVIOUS
<1>2. /\ p \in Offered /\ p \in offers[u] /\ d \in Under(u) /\ Node(Front(d)) = u
  BY <1>1, AcceptIs DEF HandleShareNoteResponse
<1>3. Turns(u, w, NoNode)  BY <1>1, AcceptDoes
<1>4. work'[u] = w  BY <1>3 DEF Turns
<1>5. /\ w.op = "copy" /\ w.pc = "isDir" /\ w.src = p /\ w.dst = d /\ w.frames = << >> /\ w.off = 0
  BY <1>1 DEF Copy
<1>6. UNCHANGED <<link, dirs, data, offers>>  BY DEF HandleShareNoteResponse, files
<1>7. Len(p) \in Nat  BY <1>2, PathIs
<1>8. IsPrefix(p, p)  BY <1>7 DEF IsPrefix
<1>9. IsOffered(u, p)'  BY <1>2, <1>6, <1>8 DEF IsOffered
<1>10. Lookup(link', Front(d)) \in dirs'  BY <1>2, <1>6 DEF Node, Stored
<1>11. d \in Under(u)'  BY <1>2 DEF Under
<1>12. Copying(u)'  BY <1>4, <1>5, <1>9, <1>10, <1>11 DEF Copying, Node
<1>13. Len(<< >>) = 0  OBVIOUS
<1>14. InFrames(u)'  BY <1>4, <1>5, <1>13 DEF InFrames
<1>15. QED  BY <1>12, <1>14 DEF SoundNext

LEMMA GoneOn == ASSUME NEW u \in Users, NEW w, NEW x, GoesOn(u, w, x), w.op # "copy"
    PROVE work'[u] = w
  BY DEF GoesOn

\* The handlers that begin and end without a copy.
LEMMA NoCopy ==
    ASSUME Typed, NEW u \in Users,
           \/ \E p \in PathsOf(u) :
               \/ HandleCreateDir(u, p) \/ HandleDelFile(u, p) \/ HandleDelDir(u, p)
               \/ HandleUpdateFile(u, p)
               \/ RenameAway(u, p) \/ \E q \in PathsOf(u) : HandleRenameFile(u, p, q)
               \/ \E v \in Users : HandleShareFile(u, v, p)
           \/ WriteUploadData(u) \/ Abandon(u) \/ DeleteNext(u)
    PROVE  work'[u].op # "copy"
<1>1. Idle.op # "copy" /\ \A p : Delete(p).op # "copy" /\ \A x : Upload(x).op # "copy"
  BY DEF Idle, Delete, Upload
<1>2. CASE UNCHANGED work /\ work[u] = Idle  BY <1>1, <1>2
<1>3. ASSUME NEW p, HandleDelDir(u, p) \/ HandleUpdateFile(u, p) PROVE work'[u].op # "copy"
  <2>1. PICK w, x : GoesOn(u, w, x) /\ w.op # "copy"
    BY <1>1, <1>3 DEF HandleDelDir, HandleUpdateFile
  <2>2. QED  BY <2>1, GoneOn
<1>4. CASE WriteUploadData(u) \/ Abandon(u)
  <2>1. PICK z : z = [work[u] EXCEPT !.left = @ - 1]  OBVIOUS
  <2>2. work[u] \in Uploads  BY <1>4, WorkIs DEF WriteUploadData, Abandon
  <2>3. z.op # "copy"  BY <2>1, <2>2 DEF Uploads
  <2>4. PICK w, x : GoesOn(u, w, x) /\ w.op # "copy"
    BY <1>1, <1>4, <2>1, <2>3 DEF WriteUploadData, Abandon
  <2>5. QED  BY <2>4, GoneOn
<1>5. CASE DeleteNext(u)
  <2>1. PICK w, x : GoesOn(u, w, x) /\ w.op # "copy"  BY <1>1, <1>5 DEF DeleteNext
  <2>2. QED  BY <2>1, GoneOn
<1>6. QED
  BY <1>2, <1>3, <1>4, <1>5 DEF HandleCreateDir, HandleDelFile, HandleRenameFile, RenameAway,
     HandleShareFile, Asks

LEMMA OwnSound ==
    ASSUME IInv, Stored', NEW u \in Users, Thread(u), Remembers
    PROVE  SoundNext(u)
<1>1. Stored /\ Typed /\ Exposed /\ Sound /\ Remembers  BY DEF IInv
<1>2. PICK own \in [Nodes -> Users] : Holds(own)  BY DEF IInv, Apart
<1>3. CASE Refuse(u)
  <2>1. work' = work /\ UNCHANGED <<link, dirs, data, offers>>  BY <1>3 DEF Refuse, files
  <2>2. Aside(u)  BY <1>1, <2>1, Numbers DEF Aside, Persists
  <2>3. ASSUME work'[u].op = "copy" PROVE Copying(u)' /\ InFrames(u)'
    <3>1. work[u].op = "copy" /\ Copying(u) /\ InFrames(u)  BY <1>1, <2>1, <2>3 DEF Sound
    <3>2. QED  BY <1>1, <2>1, <2>2, <3>1, AsideKeeps
  <2>4. QED  BY <2>3 DEF SoundNext
<1>4. CASE HandleShareNoteResponse(u)  BY <1>1, <1>4, AcceptSound
<1>5. CASE \/ \E p \in PathsOf(u) :
               \/ HandleCreateDir(u, p) \/ HandleDelFile(u, p) \/ HandleDelDir(u, p)
               \/ HandleUpdateFile(u, p)
               \/ RenameAway(u, p) \/ \E q \in PathsOf(u) : HandleRenameFile(u, p, q)
               \/ \E v \in Users : HandleShareFile(u, v, p)
           \/ WriteUploadData(u) \/ Abandon(u) \/ DeleteNext(u)
  BY <1>1, <1>5, NoCopy DEF SoundNext
<1>6. CASE \/ IsDir(u) \/ FileExists(u) \/ CreateDir(u) \/ Opendir(u) \/ Readdir(u)
           \/ Stat(u) \/ OpenIn(u) \/ OpenOut(u) \/ CopyBlock(u)
  <2>1. work[u].op = "copy"
    BY <1>6 DEF IsDir, FileExists, CreateDir, Opendir, Readdir, Stat, OpenIn, OpenOut, CopyBlock, At
  <2>2. Copying(u) /\ InFrames(u)  BY <1>1, <2>1 DEF Sound
  <2>3. CASE IsDir(u) \/ FileExists(u) \/ CreateDir(u) \/ Stat(u)
    BY <1>1, <2>1, <2>2, <2>3, FindingSound
  <2>4. CASE Opendir(u)  BY <1>1, <2>2, <2>4, OpendirSound
  <2>5. CASE Readdir(u)
    <3>1. At(u, "readdir") /\ SameFiles /\ UNCHANGED offers /\ ((\E n : Entered(u, n)) \/ Ended(u))
      BY <1>1, <2>5, ReaddirIs DEF CopyKeeps
    <3>2. QED  BY <1>1, <2>2, <3>1, EnteredSound, EndedSound
  <2>6. CASE OpenIn(u)  BY <1>1, <2>2, <2>6, OpenInSound
  <2>7. CASE OpenOut(u)  BY <1>1, <2>2, <2>7, OpenOutSound
  <2>8. CASE CopyBlock(u)  BY <1>1, <1>2, <2>2, <2>8, CopyBlockSound
  <2>9. QED  BY <1>6, <2>3, <2>4, <2>5, <2>6, <2>7, <2>8
<1>7. CASE \E v \in Users : Strays(u, v)
  <2>1. work'[u] = Idle  BY <1>7, StraysAsk DEF Asks
  <2>2. QED  BY <2>1 DEF SoundNext, Idle
<1>8. QED  BY <1>3, <1>4, <1>5, <1>6, <1>7, ThreadIs DEF Requests, Works

-----------------------------------------------------------------------------
(* The inductive invariant.                                                *)

LEMMA SoundStep ==
    ASSUME IInv, Stored', NEW u \in Users, Thread(u), Remembers
    PROVE  Sound'
<1> SUFFICES ASSUME NEW v \in Users, work'[v].op = "copy" PROVE Copying(v)' /\ InFrames(v)'
  BY DEF Sound
<1>1. CASE v = u  BY <1>1, OwnSound DEF SoundNext
<1>2. CASE v # u
  <2>1. Stored /\ Typed /\ Sound /\ Remembers  BY DEF IInv
  <2>2. Aside(v)  BY <1>2, OthersAside
  <2>3. work[v].op = "copy"
    <3>1. CASE work'[v] = work[v]  BY <3>1
    <3>2. CASE work'[v] # work[v]  BY <2>2, <3>2 DEF Aside
    <3>3. QED  BY <3>1, <3>2
  <2>4. Copying(v) /\ InFrames(v)  BY <2>1, <2>3 DEF Sound
  <2>5. offers[v] \subseteq offers'[v]  BY <2>1, LedgerStep
  <2>6. QED  BY <2>1, <2>2, <2>3, <2>4, <2>5, AsideKeeps
<1>3. QED  BY <1>1, <1>2

LEMMA InitIInv == Init => IInv
<1> SUFFICES ASSUME Init PROVE IInv  OBVIOUS
<1>1. /\ link = InitLink /\ dirs = InitDirs /\ data = InitData
      /\ \A u \in Users : /\ notes[u] = << >> /\ work[u] = Idle /\ offers[u] = {}
                          /\ exposed[u] = {} /\ given[u] = {} /\ brought[u] = {}
      /\ changes = 0
  BY DEF Init
<1>2. Stored  BY <1>1, SharingAssumption DEF Stored, Nodes
<1>3. Typed
  <2>1. work \in [Users -> {Idle} \cup Uploads \cup Deletes \cup Copies]  BY DEF Init
  <2>2. notes \in [Users -> Seq(Offered)] /\ offers \in [Users -> SUBSET Offered]  BY DEF Init
  <2>3. changes \in Nat  BY <1>1
  <2>4. \A u \in Users : \A i \in 1 .. Len(notes[u]) : notes[u][i] \in offers[u]
    <3>1. Len(<< >>) = 0  OBVIOUS
    <3>2. QED  BY <1>1, <3>1
  <2>5. brought \in [Users -> SUBSET (Users \X Nat)]  BY DEF Init
  <2>6. QED  BY <2>1, <2>2, <2>3, <2>4, <2>5 DEF Typed
<1>4. Apart
  <2>1. PICK own \in [Users \cup 1 .. Len(InitData) -> Users] :
          /\ \A u \in Users : own[u] = u
          /\ \A e \in DOMAIN InitLink : own[InitLink[e]] = own[e[1]]
          /\ \A x \in 1 .. Len(InitData) : \A b \in ToSet(InitData[x]) : b[1] = own[x]
    BY SharingAssumption
  <2>2. own \in [Nodes -> Users] /\ Tree(own)  BY <1>1, <2>1 DEF Tree, Nodes
  <2>3. Contents(own)  BY <1>1, <2>1 DEF Contents
  <2>4. Holds(own)  BY <1>1 DEF Holds, At, Idle
  <2>5. QED  BY <2>2, <2>3, <2>4 DEF Apart
<1>5. Exposed  BY <1>1 DEF Exposed
<1>6. Sound  BY <1>1 DEF Sound, Idle
<1>7. QED  BY <1>2, <1>3, <1>4, <1>5, <1>6 DEF IInv

LEMMA NextIInv == IInv /\ [Next]_vars => IInv'
<1> SUFFICES ASSUME IInv, [Next]_vars PROVE IInv'  OBVIOUS
<1>1. ASSUME NEW u \in Users, Thread(u), Remembers PROVE IInv'
  <2>1. Stored' /\ Apart'  BY <1>1, StoredApartStep
  <2>2. Typed'  BY <1>1, TypedStep
  <2>3. Exposed'  BY <1>1, ExposedStep
  <2>4. Sound'  BY <1>1, <2>1, SoundStep
  <2>5. QED  BY <2>1, <2>2, <2>3, <2>4 DEF IInv
<1>2. CASE UNCHANGED vars
  <2>1. UNCHANGED <<link, dirs, data, notes, work, changes, shares, touched, offers, exposed, given, brought>>
    BY <1>2 DEF vars, files, bounds, history
  <2>2. Stored' /\ Typed' /\ Exposed'
    <3>1. Stored'  BY <2>1 DEF IInv, Stored, Nodes
    <3>2. Typed'  BY <2>1 DEF IInv, Typed
    <3>3. Exposed'  BY <2>1 DEF IInv, Exposed
    <3>4. QED  BY <3>1, <3>2, <3>3
  <2>3. Apart'
    BY <2>1 DEF IInv, Apart, Tree, Holds, Contents, Nodes, Files, At
  <2>4. Sound'
    <3>1. ASSUME NEW u \in Users, Copying(u) PROVE Copying(u)'
      BY <2>1, <3>1 DEF Copying, IsOffered, Under, Node
    <3>2. ASSUME NEW u \in Users, NEW f PROVE FrameFits(u, f) => FrameFits(u, f)'
      BY <2>1 DEF FrameFits, IsOffered, Steady, Under, Node
    <3>3. ASSUME NEW u \in Users, NEW f, NEW n
          PROVE  /\ FrameDone(u, f, n) => FrameDone(u, f, n)'
                 /\ Underway(u, f, n) => Underway(u, f, n)'
      BY <2>1 DEF FrameDone, Underway, Untouched, Node
    <3>4. ASSUME NEW u \in Users, InFrames(u) PROVE InFrames(u)'
      BY <2>1, <3>2, <3>3, <3>4 DEF InFrames
    <3>5. QED  BY <2>1, <3>1, <3>4 DEF IInv, Sound
  <2>5. QED  BY <2>2, <2>3, <2>4 DEF IInv
<1>3. QED  BY <1>1, <1>2 DEF Next

LEMMA Invariance == Spec => []IInv
<1>1. Init => IInv  BY InitIInv
<1>2. IInv /\ [Next]_vars => IInv'  BY NextIInv
<1>3. QED  BY <1>1, <1>2, PTL DEF Spec

-----------------------------------------------------------------------------
\* A step of another thread changes nothing of what a user finds below his
\* directory, unless it is a request whose typed name leads there: every other
\* path that a handler writes to begins with its own user, and so does that of
\* a copy, a deletion and an upload.
THEOREM OwnersWriteAlone == Spec => OnlyOwnerWrites
<1>1. ASSUME IInv, [Next]_vars
      PROVE  [\A u \in Users : View(u)' # View(u) =>
                 Thread(u) \/ \E v \in Users \ {u} : Strays(v, u)]_vars
  <2>1. CASE UNCHANGED vars  BY <2>1
  <2>2. ASSUME NEW u \in Users, Thread(u), Remembers, NEW v \in Users, View(v)' # View(v)
        PROVE  Thread(v) \/ \E w \in Users \ {v} : Strays(w, v)
    <3>1. CASE v = u  BY <2>2, <3>1
    <3>2. CASE v # u  BY <1>1, <2>2, <3>2, OthersAside
    <3>3. QED  BY <3>1, <3>2
  <2>3. QED  BY <1>1, <2>1, <2>2 DEF Next
<1>2. QED  BY <1>1, Invariance, PTL DEF Spec, OnlyOwnerWrites

\* What a user has of others lay, since he was offered it, where the offer
\* pointed to, or another user's rename has put it there.
THEOREM ArrivesAsOffered == Spec => []OnlyOfferedArrives
<1>1. ASSUME IInv PROVE OnlyOfferedArrives
  <2>1. Stored  BY <1>1 DEF IInv
  <2>2. PICK own \in [Nodes -> Users] : Tree(own) /\ Contents(own)  BY <1>1 DEF IInv, Apart
  <2>3. ASSUME NEW u \in Users, NEW p \in Present(u), NEW b \in ToSet(data[Node(p)])
        PROVE  b[1] = u \/ b \in given[u] \cup brought[u]
    <3>1. p \in Offered /\ p \in Under(u) /\ Node(p) # NoNode  BY <2>3, Selected DEF Present
    <3>2. Node(p) \in 1 .. Len(data) /\ own[Node(p)] = u  BY <2>1, <2>2, <3>1, OldAt
    <3>3. QED  BY <2>2, <2>3, <3>2 DEF Contents
  <2>4. QED  BY <2>3 DEF OnlyOfferedArrives
<1>2. QED  BY <1>1, Invariance, PTL

\* What a step leaves of a copy that it is not about.
LEMMA CopyAside ==
    ASSUME IInv, NEW u \in Users, Thread(u), Remembers, NEW v \in Users, v # u, work[v].op = "copy"
    PROVE  /\ work'[v].op = "copy" /\ work'[v].pc = work[v].pc /\ work'[v].frames = work[v].frames
<1>1. Aside(v)  BY OthersAside
<1>2. work[v] \in Copies  BY WorkIs DEF IInv
<1>3. QED  BY <1>1, <1>2 DEF Aside, Copies

\* A copy that ends has all that was in the file it had opened, unless the file
\* was written to meanwhile.
THEOREM CopiesAreWhole == Spec => CopyIsWhole
<1>1. ASSUME IInv, NEW u \in Users, Thread(u), Remembers, NEW v \in Users,
             At(v, "read"), ~At(v, "read")', work[v].clean
      PROVE  data[work[v].out] = data[work[v].in]
  <2>1. Stored /\ Typed /\ Sound  BY <1>1 DEF IInv
  <2>2. v = u
    <3>1. SUFFICES ASSUME v # u PROVE FALSE  OBVIOUS
    <3>2. At(v, "read")'  BY <1>1, <3>1, CopyAside DEF At
    <3>3. QED  BY <1>1, <3>2
  <2>3. CopyBlock(v)
    <3>1. work[v] # Idle /\ work[v].op = "copy" /\ work[v].pc = "read"  BY <1>1 DEF At, Idle
    <3>2. ~Refuse(v)  BY <1>1 DEF Refuse, At
    <3>3. \A y \in Users : ~Strays(v, y)  BY <3>1, StraysAsk DEF Asks
    <3>4. QED
      BY <1>1, <2>2, <3>1, <3>2, <3>3, ThreadIs DEF Requests, Works, Asks, HandleCreateDir, HandleDelFile,
         HandleDelDir, HandleUpdateFile, HandleRenameFile, RenameAway, HandleShareFile, HandleShareNoteResponse,
         WriteUploadData, Abandon, DeleteNext, IsDir, FileExists, CreateDir, Opendir, Readdir,
         Stat, OpenIn, OpenOut, At
  <2>4. PICK w, s : w = work[v] /\ s = data[w.in]  OBVIOUS
  <2>5. ~(w.in \notin dirs /\ w.off < Len(s))
    <3>1. ASSUME NEW b, NEW z, CopiedBlock(v, b, z) PROVE FALSE
      <4>1. z = [w EXCEPT !.off = @ + 1] /\ z \in Copies /\ work'[v] = Stained(z, w.out)
        BY <2>4, <3>1 DEF CopiedBlock, Turns
      <4>2. w \in Copies /\ w.pc = "read"  BY <1>1, <2>1, <2>4, WorkIs DEF At
      <4>3. z.pc = "read"  BY <4>1, <4>2 DEF Copies
      <4>4. PICK y : y = Stained(z, w.out)  OBVIOUS
      <4>5. y.op = "copy" /\ y.pc = "read"  BY <4>1, <4>3, <4>4, StainedIs DEF Copies, WorkSet
      <4>6. work'[v] = y  BY <4>1, <4>4
      <4>7. QED  BY <1>1, <4>5, <4>6 DEF At
    <3>2. QED  BY <2>1, <2>3, <2>4, <3>1, CopyBlockIs
  <2>6. /\ w.in \in 1 .. Len(data) /\ w.off <= Len(s)
        /\ data[w.out] = SubSeq(s, 1, w.off)
    BY <1>1, <2>1, <2>4 DEF Sound, Copying, At
  <2>7. s \in Seq(Users \X Nat) /\ Len(s) \in Nat  BY <2>1, <2>4, <2>6, Numbers, LenProperties
  <2>8. w.off \in Nat
    <3>1. w \in Copies  BY <1>1, <2>1, <2>4, WorkIs DEF At
    <3>2. QED  BY <3>1 DEF Copies
  <2>9. w.off = Len(s)
    <3>1. CASE w.in \in dirs
      <4>1. w.in \in dirs \ Users
        <5>1. w.in \in Nat  BY <2>1, <2>6, Numbers
        <5>2. QED  BY <3>1, <5>1, SharingAssumption
      <4>2. s = << >>  BY <2>1, <2>4, <4>1 DEF Stored
      <4>3. Len(s) = 0  BY <4>2
      <4>4. QED  BY <2>6, <2>8, <4>3
    <3>2. CASE w.in \notin dirs  BY <2>5, <2>6, <2>7, <2>8, <3>2
    <3>3. QED  BY <3>1, <3>2
  <2>10. data[w.out] = s  BY <2>6, <2>7, <2>9, Whole
  <2>11. QED  BY <2>4, <2>10
<1>2. ASSUME IInv, [Next]_vars
      PROVE  [\A u \in Users : At(u, "read") /\ ~At(u, "read")' /\ work[u].clean
                  => data[work[u].out] = data[work[u].in]]_vars
  BY <1>1, <1>2 DEF Next
<1>3. QED  BY <1>2, Invariance, PTL DEF Spec, CopyIsWhole

\* A directory's copy returns when readdir finds no more entries, and then only.
LEMMA OnlyEnded ==
    ASSUME IInv, NEW u \in Users, Thread(u), work[u].op = "copy", work[u].frames # << >>,
           work'[u].op = "idle" \/ Len(work'[u].frames) < Len(work[u].frames)
    PROVE  At(u, "readdir") /\ Ended(u)
<1>1. Stored /\ Typed /\ Sound  BY DEF IInv
<1>2. PICK w, fs : w = work[u] /\ fs = w.frames  OBVIOUS
<1>3. w \in Copies /\ fs \in Seq(Frames) /\ fs # << >> /\ Len(fs) \in Nat /\ Copying(u) /\ InFrames(u)
  BY <1>1, <1>2, CopyTyped, LenProperties DEF Sound
<1>4. ASSUME NEW z, work'[u] = z, z.op = "copy", Len(z.frames) = Len(fs) \/ Len(z.frames) = Len(fs) + 1
      PROVE  FALSE
  BY <1>2, <1>3, <1>4
<1>5. ASSUME NEW pc \in Calling, Calls(u, pc) PROVE FALSE
  <2>1. PICK z : z = [w EXCEPT !.pc = pc]  OBVIOUS
  <2>2. work'[u] = z  BY <1>2, <1>3, <1>5, <2>1, CallIs DEF Turns
  <2>3. z.op = "copy" /\ z.frames = fs  BY <1>2, <1>3, <2>1 DEF Copies
  <2>4. QED  BY <1>4, <2>2, <2>3
<1>6. ASSUME NEW t \in Seq(Frames), t # << >>, Len(t) = Len(fs) \/ Len(t) = Len(fs) + 1, Returns(u, t)
      PROVE  FALSE
  <2>1. PICK z : z = Copy("readdir", Head(t).src, Head(t).dst, t)  OBVIOUS
  <2>2. work'[u] = z  BY <1>6, <2>1, Returning DEF Turns
  <2>3. z.op = "copy" /\ z.frames = t  BY <2>1 DEF Copy
  <2>4. QED  BY <1>4, <1>6, <2>2, <2>3
<1>7. ASSUME NEW z \in Copies, NEW y, NEW x, y = Stained(z, x), work'[u] = y, z.frames = fs
      PROVE  FALSE
  <2>1. z.op = "copy"  BY <1>7 DEF Copies
  <2>2. y = z \/ y = [z EXCEPT !.clean = FALSE]  BY <1>7 DEF Stained
  <2>3. y.op = "copy" /\ y.frames = fs  BY <1>7, <2>1, <2>2 DEF Copies
  <2>4. QED  BY <1>4, <2>3, <1>7
<1>8. {"createDir", "exists", "opendir", "openIn"} \subseteq Calling  BY DEF Calling
<1>9. ~Requests(u)
  <2>1. work[u] # Idle /\ w.op # "upload"  BY <1>2 DEF Idle
  <2>2. ~Refuse(u)
    <3>1. SUFFICES ASSUME Refuse(u) PROVE FALSE  OBVIOUS
    <3>2. work'[u] = w  BY <1>2, <3>1 DEF Refuse
    <3>3. w.op = "copy" /\ w.frames = fs  BY <1>2
    <3>4. QED  BY <1>4, <3>2, <3>3
  <2>3. QED
    BY <1>2, <2>1, <2>2 DEF Requests, Asks, HandleCreateDir, HandleDelFile, HandleDelDir,
       HandleUpdateFile, HandleRenameFile, RenameAway, HandleShareFile, HandleShareNoteResponse,
       WriteUploadData, Abandon
<1>22. \A v \in Users : ~Strays(u, v)
  <2>1. work[u] # Idle  BY DEF Idle
  <2>2. QED  BY <2>1, StraysAsk DEF Asks
<1>10. ~DeleteNext(u)  BY DEF DeleteNext
<1>11. ~IsDir(u)
  BY <1>5, <1>8 DEF IsDir
<1>12. ~FileExists(u)
  BY <1>2, <1>3 DEF FileExists, At, Copying
<1>13. ~CreateDir(u)  BY <1>2, <1>3, <1>5, <1>6, <1>8 DEF CreateDir
<1>14. ~Stat(u)  BY <1>2, <1>3, <1>5, <1>6, <1>8 DEF Stat
<1>15. ~Opendir(u)
  <2>1. SUFFICES ASSUME Opendir(u) PROVE FALSE  OBVIOUS
  <2>2. CASE Node(w.src) \in dirs
    <3>1. PICK f : f = Frame(w.src, w.dst, Node(w.src))  OBVIOUS
    <3>2. w.src \in Offered /\ w.dst \in Offered  BY <1>3 DEF Copies
    <3>3. f \in Frames  BY <1>1, <2>2, <3>1, <3>2, LinksAreNodes DEF Frame, Frames
    <3>4. PICK t : t = <<f>> \o fs  OBVIOUS
    <3>5. Returns(u, t)  BY <1>2, <2>1, <2>2, <3>1, <3>4 DEF Opendir
    <3>6. t \in Seq(Frames) /\ t # << >> /\ Len(t) = Len(fs) + 1  BY <1>3, <3>3, <3>4, PushIs
    <3>7. QED  BY <1>6, <3>5, <3>6
  <2>3. CASE Node(w.src) \notin dirs
    <3>1. Returns(u, << >> \o fs)  BY <1>2, <2>1, <2>3 DEF Opendir
    <3>2. << >> \o fs = fs  BY <1>3, ConcatEmptySeq
    <3>3. QED  BY <1>3, <1>6, <3>1, <3>2
  <2>4. QED  BY <2>2, <2>3
<1>16. ~OpenIn(u)
  <2>1. SUFFICES ASSUME OpenIn(u) PROVE FALSE  OBVIOUS
  <2>2. CASE Node(w.src) = NoNode  BY <1>2, <1>3, <1>6, <2>1, <2>2 DEF OpenIn
  <2>3. CASE Node(w.src) # NoNode
    <3>1. PICK z \in Copies :
            /\ z = [w EXCEPT !.pc = "openOut", !.in = Node(w.src), !.clean = TRUE]
            /\ Turns(u, z, NoNode)
      BY <1>1, <1>2, <2>1, <2>3, OpenInIs
    <3>2. z.op = "copy" /\ z.frames = fs  BY <1>2, <1>3, <3>1 DEF Copies
    <3>3. work'[u] = z  BY <3>1 DEF Turns
    <3>4. QED  BY <1>4, <3>2, <3>3
  <2>4. QED  BY <2>2, <2>3
<1>17. ~OpenOut(u)
  <2>1. SUFFICES ASSUME OpenOut(u) PROVE FALSE  OBVIOUS
  <2>2. CASE Returns(u, fs)  BY <1>3, <1>6, <2>2
  <2>3. ASSUME NEW x, NEW z, Opened(u, x, z) PROVE FALSE
    <3>1. z \in Copies /\ z.frames = fs  BY <1>2, <1>3, <2>3 DEF Opened, Copies
    <3>2. z = Stained(z, NoNode)  BY DEF Stained
    <3>3. work'[u] = z \/ work'[u] = Stained(z, x)  BY <2>3 DEF Opened, Turns
    <3>4. QED  BY <1>7, <3>1, <3>2, <3>3
  <2>4. QED  BY <1>1, <1>2, <2>1, <2>2, <2>3, OpenOutIs
<1>18. ~CopyBlock(u)
  <2>1. SUFFICES ASSUME CopyBlock(u) PROVE FALSE  OBVIOUS
  <2>2. CASE Returns(u, fs)  BY <1>3, <1>6, <2>2
  <2>3. ASSUME NEW b, NEW z, CopiedBlock(u, b, z) PROVE FALSE
    <3>1. z \in Copies /\ z.frames = fs  BY <1>2, <1>3, <2>3 DEF CopiedBlock, Copies
    <3>2. work'[u] = Stained(z, w.out)  BY <1>2, <2>3 DEF CopiedBlock, Turns
    <3>3. QED  BY <1>7, <3>1, <3>2
  <2>4. QED  BY <1>1, <1>2, <2>1, <2>2, <2>3, CopyBlockIs
<1>19. Readdir(u)
  BY <1>9, <1>22, <1>10, <1>11, <1>12, <1>13, <1>14, <1>15, <1>16, <1>17, <1>18, ThreadIs DEF Works
<1>20. ASSUME NEW n, Entered(u, n) PROVE FALSE
  <2>1. At(u, "readdir")  BY <1>1, <1>19, ReaddirIs
  <2>2. PICK f \in Frames, g \in Frames, hs \in Seq(Frames), t \in Seq(Frames), z \in Copies :
          /\ hs = work[u].frames /\ hs # << >> /\ f = Head(hs) /\ g = [f EXCEPT !.seen = @ \cup {n}]
          /\ t = <<g>> \o Tail(hs) /\ n \in Names
          /\ z = Copy("stat", Append(f.src, n), Append(f.dst, n), t)
          /\ f.dst \in Under(u) /\ Turns(u, z, NoNode)
    BY <1>1, <1>3, <1>20, <2>1, EnteredIs
  <2>3. PICK r : r = Tail(fs)  OBVIOUS
  <2>4. r \in Seq(Frames) /\ Len(r) = Len(fs) - 1  BY <1>3, <2>3, HeadIs
  <2>5. t = <<g>> \o r  BY <1>2, <2>2, <2>3
  <2>6. Len(t) = Len(r) + 1  BY <2>4, <2>5, PushIs
  <2>7. z.op = "copy" /\ z.frames = t  BY <2>2 DEF Copy
  <2>8. work'[u] = z  BY <2>2 DEF Turns
  <2>9. Len(t) = Len(fs)  BY <1>3, <2>4, <2>6
  <2>10. QED  BY <1>4, <2>7, <2>8, <2>9
<1>21. QED  BY <1>1, <1>19, <1>20, ReaddirIs

\* Where nothing on the way has changed, the open directory is the one that the
\* path of its copy leads to.
LEMMA EntryUntouched ==
    ASSUME NEW u \in Users, NEW p \in Offered, NEW n \in Names, Untouched(u, Append(p, n))
    PROVE  /\ Steady(u, p)
           /\ <<Node(p), n>> \notin touched[u] /\ Entry(link, Node(p), n) # NoNode
<1>1. PICK P : P = Users \cup Names  OBVIOUS
<1>2. p \in Seq(P) /\ Len(p) \in Nat /\ Len(p) >= 2 /\ p \in Under(p[1]) /\ p[1] \in Users /\ n \in P
  BY <1>1, PathIs DEF Offered
<1>3. PICK q : q = Append(p, n)  OBVIOUS
<1>4. /\ q \in Seq(P) /\ Len(q) = Len(p) + 1 /\ \A i \in 1 .. Len(p) : q[i] = p[i]
      /\ q[Len(p) + 1] = n
  BY <1>2, <1>3, AppendProperties
<1>5. Front(q) = p /\ Lookup(link, q) = Entry(link, Lookup(link, p), n)
  BY <1>2, <1>3, Longer
<1>6. Node(q) # NoNode
      /\ \A i \in 1 .. Len(q) - 1 : <<Node(SubSeq(q, 1, i)), q[i + 1]>> \notin touched[u]
  BY <1>3 DEF Untouched
<1>7. SubSeq(q, 1, Len(p)) = p  BY <1>2, <1>4, <1>5 DEF Front
<1>8. <<Node(p), n>> \notin touched[u]
  <2>1. Len(p) \in 1 .. Len(q) - 1  BY <1>2, <1>4
  <2>2. <<Node(SubSeq(q, 1, Len(p))), q[Len(p) + 1]>> \notin touched[u]  BY <1>6, <2>1
  <2>3. QED  BY <1>4, <1>7, <2>2
<1>9. ASSUME NEW i \in 1 .. Len(p) - 1 PROVE <<Node(SubSeq(p, 1, i)), p[i + 1]>> \notin touched[u]
  <2>1. /\ i \in 1 .. Len(q) - 1 /\ i + 1 \in 1 .. Len(p) /\ i \in 0 .. Len(p) /\ i \in 0 .. Len(q)
        /\ \A j \in 1 .. i : j \in 1 .. Len(p)
    BY <1>2, <1>4
  <2>2. PICK a, b : a = SubSeq(p, 1, i) /\ b = SubSeq(q, 1, i)  OBVIOUS
  <2>3. /\ a \in Seq(P) /\ Len(a) = i /\ \A j \in 1 .. i : a[j] = p[j]
        /\ b \in Seq(P) /\ Len(b) = i /\ \A j \in 1 .. i : b[j] = q[j]
    BY <1>2, <1>4, <2>1, <2>2, Prefix
  <2>4. \A j \in 1 .. Len(a) : a[j] = b[j]  BY <1>4, <2>1, <2>3
  <2>5. a = b  BY <2>3, <2>4, SeqEqual
  <2>6. q[i + 1] = p[i + 1]  BY <1>4, <2>1
  <2>7. QED  BY <1>6, <2>1, <2>2, <2>5, <2>6
<1>10. QED  BY <1>5, <1>6, <1>8, <1>9 DEF Steady, Node

\* When a directory's copy returns, each entry that was there all the time is
\* in the receiver's directory, whatever has become of the ones next to it.
THEOREM EntriesArrive == Spec => EntriesAreCopied
<1>1. ASSUME IInv, NEW u \in Users, Thread(u), Remembers, NEW v \in Users,
             work[v].op = "copy", work[v].frames # << >>,
             work'[v].op = "idle" \/ Len(work'[v].frames) < Len(work[v].frames),
             NEW n \in Names, Untouched(v, Append(Head(work[v].frames).src, n))
      PROVE  Node(Append(Head(work[v].frames).dst, n)) # NoNode
  <2>1. Stored /\ Typed /\ Sound  BY <1>1 DEF IInv
  <2>2. PICK fs, f : fs = work[v].frames /\ f = Head(fs)  OBVIOUS
  <2>3. /\ fs \in Seq(Frames) /\ fs # << >> /\ Len(fs) \in Nat /\ InFrames(v)
        /\ f \in Frames /\ f.src \in Offered
    BY <1>1, <2>1, <2>2, CopyTyped, HeadFrame, LenProperties DEF Sound
  <2>4. v = u
    <3>1. SUFFICES ASSUME v # u PROVE FALSE  OBVIOUS
    <3>2. work'[v].op = "copy" /\ work'[v].frames = work[v].frames  BY <1>1, <3>1, CopyAside
    <3>3. QED  BY <1>1, <2>2, <2>3, <3>2
  <2>5. At(v, "readdir") /\ Ended(v)  BY <1>1, <2>4, OnlyEnded
  <2>6. f = fs[1] /\ 1 \in 1 .. Len(fs)  BY <2>2, <2>3, HeadIs
  <2>7. Framed(v, fs)  BY <2>2, <2>3, <2>5, AllFramed DEF At
  <2>8. FrameFits(v, f) /\ \A m \in f.seen : FrameDone(v, f, m)  BY <2>6, <2>7 DEF Framed
  <2>9. /\ Steady(v, f.src)
        /\ <<Node(f.src), n>> \notin touched[v] /\ Entry(link, Node(f.src), n) # NoNode
    BY <1>1, <2>2, <2>3, EntryUntouched
  <2>10. Node(f.src) = f.dir  BY <2>8, <2>9 DEF FrameFits
  <2>11. n \in f.seen
    <3>1. PICK e : e = <<f.dir, n>>  OBVIOUS
    <3>2. e \in DOMAIN link /\ e[1] = f.dir /\ e[2] = n  BY <2>1, <2>9, <2>10, <3>1, EntryIs
    <3>3. e \in Children(f.dir) \ touched[v]  BY <2>9, <2>10, <3>1, <3>2 DEF Children
    <3>4. e[2] \in f.seen  BY <2>2, <2>5, <3>3 DEF Ended
    <3>5. QED  BY <3>2, <3>4
  <2>12. FrameDone(v, f, n)  BY <2>8, <2>11
  <2>13. QED  BY <1>1, <2>2, <2>12 DEF FrameDone
<1>2. ASSUME IInv, [Next]_vars
      PROVE  [\A u \in Users :
                work[u].op = "copy" /\ work[u].frames # << >> =>
                  LET f == Head(work[u].frames) IN
                  work'[u].op = "idle" \/ Len(work'[u].frames) < Len(work[u].frames) =>
                    \A n \in Names : Untouched(u, Append(f.src, n))
                                        => Node(Append(f.dst, n)) # NoNode]_vars
  BY <1>1, <1>2 DEF Next
<1>3. QED  BY <1>2, Invariance, PTL DEF Spec, EntriesAreCopied
=============================================================================
