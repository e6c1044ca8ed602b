-------------------------- MODULE DeploymentProofs --------------------------
(***************************************************************************)
(* What is proved of the way of a configuration from the form to the nodes   *)
(* (Deployment), of their keys (Secrets), of the graphs the manager makes    *)
(* (Topology) and of the paths node 0 takes through them (SphinxRouter), for *)
(* every set of requests, entries and configurations.                        *)
(*                                                                           *)
(* The recursive definitions are characterised by walks, sequences of nodes  *)
(* in which each is a neighbour of the one before: the search for paths      *)
(* finds exactly the walks of its length (only some, if no node may be       *)
(* passed twice), and the nodes reachable at that many hops are those where  *)
(* they end.  Both by the least number of hops at which it would fail.  What *)
(* a node reads from its environment is what the manager wrote (StoreIs).    *)
(* The invariant says which requests nodes were launched with (LaunchSound), *)
(* which paths node 0 chooses from (IInv), and which run each container is   *)
(* of (KeysInv).                                                             *)
(***************************************************************************)
EXTENDS Deployment, FiniteSetTheorems, SequenceTheorems, WellFoundedInduction, TLAPS

-----------------------------------------------------------------------------
(* Recursion over the number of hops. *)

\* A set of naturals that is not empty has a least element.
LEMMA LeastOf ==
    ASSUME NEW T, T \subseteq Nat, T # {}
    PROVE  \E n \in T : \A y \in T : n <= y
<1>1. PICK n \in T : \A y \in T : ~(<<y, n>> \in OpToRel(<, Nat))
  BY NatLessThanWellFounded, WFMin
<1>2. ASSUME NEW y \in T PROVE n <= y
  <2>1. n \in Nat /\ y \in Nat OBVIOUS
  <2>2. ~(y < n) BY <1>1, <2>1 DEF OpToRel
  <2> QED BY <2>1, <2>2
<1> QED BY <1>2

Iterates(f, F, x, k) == f = [h \in 0..k |-> IF h = 0 THEN x ELSE F[f[h - 1]]]

\* A function that is defined by iterating F exists.
LEMMA IterateExists ==
    ASSUME NEW U, NEW x \in U, NEW F \in [U -> U], NEW K \in Nat
    PROVE  \E f \in [0..K -> U] : Iterates(f, F, x, K)
<1> DEFINE T == {n \in 0..K : ~\E f \in [0..n -> U] : Iterates(f, F, x, n)}
<1> SUFFICES ASSUME T # {} PROVE FALSE
  OBVIOUS
<1>1. T \subseteq Nat OBVIOUS
<1>2. PICK n \in T : \A y \in T : n <= y
  <2> HIDE DEF T
  <2> QED BY <1>1, LeastOf
<1>3. n \in Nat /\ n <= K /\ ~\E f \in [0..n -> U] : Iterates(f, F, x, n) BY <1>2
<1>4. n # 0
  <2> DEFINE g == [h \in 0..0 |-> x]
  <2>1. g \in [0..0 -> U] /\ g = [h \in 0..0 |-> IF h = 0 THEN x ELSE F[g[h - 1]]]
    OBVIOUS
  <2>2. Iterates(g, F, x, 0) BY <2>1 DEF Iterates
  <2> HIDE DEF g
  <2> QED BY <1>3, <2>1, <2>2
<1>5. n - 1 \in 0..K /\ n - 1 \in Nat /\ ~(n <= n - 1) BY <1>3, <1>4
<1>6. PICK f \in [0..n - 1 -> U] : Iterates(f, F, x, n - 1) BY <1>2, <1>5
<1> DEFINE t == [h \in 0..n |-> IF h = n THEN F[f[n - 1]] ELSE f[h]]
           u == [h \in 0..n |-> IF h = 0 THEN x ELSE F[t[h - 1]]]
<1>7. ASSUME NEW h \in 0..n PROVE t[h] = u[h] /\ t[h] \in U
  <2>1. CASE h = n
    <3>1. t[h] = F[f[n - 1]] BY <2>1
    <3>2. n - 1 \in 0..n /\ n - 1 # n /\ n - 1 \in 0..n - 1 BY <1>3, <1>4
    <3>3. t[n - 1] = f[n - 1] BY <3>2
    <3>4. u[h] = F[t[n - 1]] BY <1>4, <2>1
    <3>5. f[n - 1] \in U BY <1>6, <3>2
    <3> HIDE DEF t, u
    <3> QED BY <3>1, <3>3, <3>4, <3>5
  <2>2. CASE h # n
    <3>1. t[h] = f[h] /\ h \in 0..n - 1 BY <1>3, <2>2
    <3>2. f[h] = IF h = 0 THEN x ELSE F[f[h - 1]] BY <1>6, <3>1 DEF Iterates
    <3>3. h # 0 => h - 1 \in 0..n /\ h - 1 # n BY <1>3, <3>1
    <3>4. h # 0 => t[h - 1] = f[h - 1] BY <3>3
    <3>5. u[h] = IF h = 0 THEN x ELSE F[t[h - 1]] OBVIOUS
    <3>6. f[h] \in U BY <1>6, <3>1
    <3> HIDE DEF t, u
    <3> QED BY <3>1, <3>2, <3>4, <3>5, <3>6
  <2> QED BY <2>1, <2>2
<1>8. t = [h \in 0..n |-> t[h]] /\ u = [h \in 0..n |-> u[h]] OBVIOUS
<1>9. u = [h \in 0..n |-> IF h = 0 THEN x ELSE F[t[h - 1]]] OBVIOUS
<1> HIDE DEF t, u
<1>10. t = u /\ t \in [0..n -> U] BY <1>7, <1>8
<1>11. Iterates(t, F, x, n) BY <1>9, <1>10 DEF Iterates
<1> QED BY <1>3, <1>10, <1>11

-----------------------------------------------------------------------------
(* Walks. *)

End(src, w) == IF w = <<>> THEN src ELSE Last(w)

IsWalk(adj, src, w) ==
    \A i \in 1..Len(w) : w[i] \in adj[IF i = 1 THEN src ELSE w[i - 1]]

\* All walks of k hops from src.
WalksOf(N, adj, src, k) == {w \in Seq(N) : Len(w) = k /\ IsWalk(adj, src, w)}

\* The walks of ws, one hop longer, as CollectAllPaths makes them.
Longer(adj, src, simple, ws) ==
    UNION {LET last == IF w = <<>> THEN src ELSE Last(w)
               visited == IF simple THEN {src} \cup ToSet(w) ELSE {}
           IN  {Append(w, j) : j \in adj[last] \ visited}
             : w \in ws}

LEMMA EndIs ==
    ASSUME NEW N, NEW src \in N, NEW w \in Seq(N)
    PROVE  /\ End(src, w) \in N
           /\ Len(w) > 0 => End(src, w) = w[Len(w)] /\ Last(w) = w[Len(w)] /\ w # <<>>
           /\ Len(w) = 0 => End(src, w) = src
<1>1. w \in [1..Len(w) -> N] /\ Len(w) \in Nat BY LenProperties
<1>2. w = <<>> <=> Len(w) = 0 BY EmptySeq, SMT
<1>3. Len(w) > 0 => w[Len(w)] \in N BY <1>1
<1> QED BY <1>1, <1>2, <1>3 DEF End, Last

LEMMA EmptyWalk ==
    ASSUME NEW N, NEW adj \in [N -> SUBSET N], NEW src \in N
    PROVE  WalksOf(N, adj, src, 0) = {<<>>}
<1>1. <<>> \in WalksOf(N, adj, src, 0) BY EmptySeq DEF WalksOf, IsWalk
<1>2. \A w \in WalksOf(N, adj, src, 0) : w = <<>> BY EmptySeq DEF WalksOf
<1> QED BY <1>1, <1>2

LEMMA AppendWalk ==
    ASSUME NEW N, NEW adj \in [N -> SUBSET N], NEW src \in N, NEW k \in Nat,
           NEW w \in WalksOf(N, adj, src, k), NEW j \in adj[End(src, w)]
    PROVE  /\ Append(w, j) \in WalksOf(N, adj, src, k + 1)
           /\ End(src, Append(w, j)) = j
           /\ j \in N
<1>1. w \in Seq(N) /\ Len(w) = k /\ IsWalk(adj, src, w) BY DEF WalksOf
<1>2. End(src, w) \in N BY <1>1, EndIs
<1>3. j \in N BY <1>2
<1> DEFINE x == Append(w, j)
<1>4. /\ x \in Seq(N) /\ Len(x) = k + 1
      /\ \A i \in 1..k : x[i] = w[i]
      /\ x[k + 1] = j
  BY <1>1, <1>3, AppendProperties
<1> HIDE DEF x
<1>5. ASSUME NEW i \in 1..Len(x)
      PROVE  x[i] \in adj[IF i = 1 THEN src ELSE x[i - 1]]
  <2>1. CASE i = k + 1
    <3>1. CASE k = 0
      <4>1. End(src, w) = src BY <1>1, <3>1, EndIs
      <4> QED BY <1>4, <2>1, <3>1, <4>1
    <3>2. CASE k # 0
      <4>1. End(src, w) = w[k] BY <1>1, <3>2, EndIs
      <4>2. i # 1 /\ i - 1 = k /\ k \in 1..k BY <2>1, <3>2
      <4>3. x[i - 1] = w[k] BY <1>4, <4>2
      <4> QED BY <1>4, <2>1, <4>1, <4>2, <4>3
    <3> QED BY <3>1, <3>2
  <2>2. CASE i # k + 1
    <3>1. i \in 1..k BY <1>4, <2>2
    <3>2. w[i] \in adj[IF i = 1 THEN src ELSE w[i - 1]] BY <1>1, <3>1 DEF IsWalk
    <3>3. i # 1 => i - 1 \in 1..k BY <3>1
    <3> QED BY <1>4, <3>1, <3>2, <3>3
  <2> QED BY <2>1, <2>2
<1>6. x \in WalksOf(N, adj, src, k + 1) BY <1>4, <1>5 DEF WalksOf, IsWalk
<1>7. End(src, x) = j
  <2>1. Len(x) > 0 BY <1>4
  <2> QED BY <1>4, <2>1, EndIs
<1> QED BY <1>3, <1>6, <1>7 DEF x

\* x is a walk of k hops and one more.
Prolongs(x, N, adj, src, k) ==
    \E w \in WalksOf(N, adj, src, k) :
        \E j \in adj[End(src, w)] : x = Append(w, j) /\ End(src, x) = j

\* Every longer walk is made from one that is one hop shorter.
LEMMA FrontWalk ==
    ASSUME NEW N, NEW adj \in [N -> SUBSET N], NEW src \in N, NEW k \in Nat,
           NEW x \in WalksOf(N, adj, src, k + 1)
    PROVE  Prolongs(x, N, adj, src, k)
<1>1. x \in Seq(N) /\ Len(x) = k + 1 /\ IsWalk(adj, src, x) BY DEF WalksOf
<1>2. x \in [1..k + 1 -> N] BY <1>1, LenProperties
<1> DEFINE w == [i \in 1..k |-> x[i]]
<1>3. w \in [1..k -> N] BY <1>2
<1>4. w \in Seq(N) /\ Len(w) = k BY <1>3, SeqDef
<1>5. \A i \in 1..k : w[i] = x[i] OBVIOUS
<1> HIDE DEF w
<1>6. IsWalk(adj, src, w)
  <2>1. ASSUME NEW i \in 1..Len(w)
        PROVE  w[i] \in adj[IF i = 1 THEN src ELSE w[i - 1]]
    <3>1. i \in 1..k /\ i \in 1..Len(x) BY <1>1, <1>4
    <3>2. x[i] \in adj[IF i = 1 THEN src ELSE x[i - 1]] BY <1>1, <3>1 DEF IsWalk
    <3>3. i # 1 => i - 1 \in 1..k BY <3>1
    <3> QED BY <1>5, <3>1, <3>2, <3>3
  <2> QED BY <2>1 DEF IsWalk
<1>7. w \in WalksOf(N, adj, src, k) BY <1>4, <1>6 DEF WalksOf
<1>8. End(src, w) = IF k + 1 = 1 THEN src ELSE x[k + 1 - 1]
  <2>1. CASE k = 0
    <3>1. End(src, w) = src BY <1>4, <2>1, EndIs
    <3>2. k + 1 = 1 BY <2>1
    <3> QED BY <3>1, <3>2
  <2>2. CASE k # 0
    <3>1. End(src, w) = w[k] BY <1>4, <2>2, EndIs
    <3>2. k \in 1..k /\ k + 1 # 1 /\ k + 1 - 1 = k BY <2>2
    <3> QED BY <1>5, <3>1, <3>2
  <2> QED BY <2>1, <2>2
<1>9. x[k + 1] \in adj[End(src, w)]
  <2>1. k + 1 \in 1..Len(x) BY <1>1
  <2> QED BY <1>1, <1>8, <2>1 DEF IsWalk
<1>10. x = Append(w, x[k + 1])
  <2>1. x[k + 1] \in N BY <1>2
  <2> DEFINE y == Append(w, x[k + 1])
  <2>2. /\ y \in Seq(N) /\ Len(y) = k + 1
        /\ \A i \in 1..k : y[i] = w[i]
        /\ y[k + 1] = x[k + 1]
    BY <1>4, <2>1, AppendProperties
  <2> HIDE DEF y
  <2>3. \A i \in 1..Len(x) : x[i] = y[i]
    <3>1. ASSUME NEW i \in 1..Len(x) PROVE x[i] = y[i]
      <4>1. i \in 1..k \/ i = k + 1 BY <1>1
      <4> QED BY <1>5, <2>2, <4>1
    <3> QED BY <3>1
  <2>4. x = y BY <1>1, <2>2, <2>3, SeqEqual
  <2> QED BY <2>4 DEF y
<1>11. End(src, x) = x[k + 1]
  <2>1. Len(x) > 0 BY <1>1
  <2> QED BY <1>1, <2>1, EndIs
<1> QED BY <1>7, <1>9, <1>10, <1>11 DEF Prolongs

-----------------------------------------------------------------------------
(* The search for paths, and the nodes reachable, in terms of walks. *)

LEMMA LongerIs ==
    ASSUME NEW N, NEW adj \in [N -> SUBSET N], NEW src \in N, NEW k \in Nat,
           NEW simple \in BOOLEAN, NEW ws \in SUBSET WalksOf(N, adj, src, k)
    PROVE  /\ Longer(adj, src, simple, ws) \subseteq WalksOf(N, adj, src, k + 1)
           /\ ~simple /\ ws = WalksOf(N, adj, src, k) =>
                Longer(adj, src, simple, ws) = WalksOf(N, adj, src, k + 1)
<1>1. \A x : x \in Longer(adj, src, simple, ws) <=>
               \E w \in ws : \E j \in adj[End(src, w)] \ (IF simple THEN {src} \cup ToSet(w) ELSE {}) :
                  x = Append(w, j)
  BY DEF Longer, End
<1>2. ASSUME NEW x \in Longer(adj, src, simple, ws)
      PROVE  x \in WalksOf(N, adj, src, k + 1)
  <2>1. PICK w \in ws : \E j \in adj[End(src, w)] : x = Append(w, j)
    BY <1>1, <1>2
  <2>2. PICK j \in adj[End(src, w)] : x = Append(w, j) BY <2>1
  <2>3. w \in WalksOf(N, adj, src, k) OBVIOUS
  <2> QED BY <2>2, <2>3, AppendWalk
<1>3. ASSUME ~simple, ws = WalksOf(N, adj, src, k), NEW x \in WalksOf(N, adj, src, k + 1)
      PROVE  x \in Longer(adj, src, simple, ws)
  <2>1. \E w \in ws : \E j \in adj[End(src, w)] : x = Append(w, j)
    <3>1. Prolongs(x, N, adj, src, k) BY <1>3, FrontWalk
    <3> QED BY <1>3, <3>1, Zenon DEF Prolongs
  <2> QED BY <1>1, <1>3, <2>1
<1> QED BY <1>2, <1>3

\* The search, as a function of the number of hops.
Searches(walks, N, adj, src, hops, simple) ==
    /\ walks \in [0..hops -> SUBSET Seq(N)]
    /\ walks[0] = {<<>>}
    /\ \A h \in 1..hops : walks[h] = Longer(adj, src, simple, walks[h - 1])
    /\ \A dst : CollectAllPaths(adj, src, dst, hops, simple) =
                   {w \in walks[hops] : Last(w) = dst}

LEMMA SearchIs ==
    ASSUME NEW N, NEW adj \in [N -> SUBSET N], NEW src \in N, NEW hops \in Nat,
           NEW simple \in BOOLEAN
    PROVE  \E walks : Searches(walks, N, adj, src, hops, simple)
<1> DEFINE walks ==
      CHOOSE walks : walks =
        [h \in 0..hops |->
            IF h = 0 THEN {<<>>}
            ELSE UNION {LET last == IF w = <<>> THEN src ELSE Last(w)
                            visited == IF simple THEN {src} \cup ToSet(w) ELSE {}
                        IN  {Append(w, j) : j \in adj[last] \ visited}
                          : w \in walks[h - 1]}]
<1>1. \A dst : CollectAllPaths(adj, src, dst, hops, simple) =
                 {w \in walks[hops] : Last(w) = dst}
  BY DEF CollectAllPaths
<1> DEFINE g == CHOOSE g : g = [h \in 0..hops |-> IF h = 0 THEN {<<>>}
                                   ELSE Longer(adj, src, simple, g[h - 1])]
<1>2. walks = g BY DEF Longer
<1> HIDE DEF walks
<1> DEFINE U == SUBSET Seq(N)
           F == [ws \in U |-> Longer(adj, src, simple, ws)]
<1>3. ASSUME NEW ws \in U PROVE Longer(adj, src, simple, ws) \in U
  <2>1. ASSUME NEW w \in ws, NEW j \in adj[End(src, w)] PROVE Append(w, j) \in Seq(N)
    <3>1. j \in N BY EndIs
    <3> QED BY <3>1, AppendProperties
  <2> QED BY <2>1 DEF Longer, End
<1>4. F \in [U -> U] BY <1>3
<1>5. {<<>>} \in U BY EmptySeq
<1>6. \A ws \in U : F[ws] = Longer(adj, src, simple, ws) OBVIOUS
<1> HIDE DEF U, F
<1>7. PICK f \in [0..hops -> U] : Iterates(f, F, {<<>>}, hops)
  BY <1>4, <1>5, IterateExists
<1>8. f = [h \in 0..hops |-> IF h = 0 THEN {<<>>} ELSE Longer(adj, src, simple, f[h - 1])]
  <2>1. \A h \in 0..hops : h # 0 => F[f[h - 1]] = Longer(adj, src, simple, f[h - 1])
    <3>1. \A h \in 0..hops : h # 0 => f[h - 1] \in U OBVIOUS
    <3> QED BY <1>6, <3>1
  <2> QED BY <1>7, <2>1 DEF Iterates
<1>9. g = [h \in 0..hops |-> IF h = 0 THEN {<<>>} ELSE Longer(adj, src, simple, g[h - 1])]
  BY <1>8, Zenon
<1> HIDE DEF g
<1>10. g[0] = {<<>>} /\ \A h \in 1..hops : g[h] = Longer(adj, src, simple, g[h - 1])
  <2>1. \A h \in 0..hops :
          g[h] = IF h = 0 THEN {<<>>} ELSE Longer(adj, src, simple, g[h - 1])
    BY <1>9, Zenon
  <2>2. 0 \in 0..hops /\ \A h \in 1..hops : h \in 0..hops /\ h # 0 OBVIOUS
  <2> QED BY <2>1, <2>2, Zenon
<1>11. \A h \in 0..hops : g[h] \in U
  <2> DEFINE T == {n \in 0..hops : g[n] \notin U}
  <2> SUFFICES ASSUME T # {} PROVE FALSE
    OBVIOUS
  <2>1. T \subseteq Nat OBVIOUS
  <2>2. PICK n \in T : \A y \in T : n <= y
    <3> HIDE DEF T
    <3> QED BY <2>1, LeastOf
  <2>3. n \in Nat /\ n <= hops /\ g[n] \notin U BY <2>2
  <2>4. n # 0 BY <1>5, <1>10, <2>3
  <2>5. n \in 1..hops /\ n - 1 \in 0..hops /\ ~(n <= n - 1) BY <2>3, <2>4
  <2>6. g[n - 1] \in U BY <2>2, <2>5
  <2>7. g[n] \in U
    <3>1. g[n] = Longer(adj, src, simple, g[n - 1]) BY <1>10, <2>5
    <3> HIDE DEF T
    <3> QED BY <1>3, <2>6, <3>1
  <2> QED BY <2>3, <2>7
<1>12. g \in [0..hops -> U] BY <1>9, <1>11
<1> QED BY <1>1, <1>2, <1>10, <1>12 DEF U, Searches

\* It finds walks of its length from src to dst, and all of them if nodes may be
\* passed twice.
LEMMA PathsAreWalks ==
    ASSUME NEW N, NEW adj \in [N -> SUBSET N], NEW src \in N, NEW hops \in Nat,
           NEW simple \in BOOLEAN, NEW dst
    PROVE  /\ CollectAllPaths(adj, src, dst, hops, simple)
                \subseteq {w \in WalksOf(N, adj, src, hops) : Last(w) = dst}
           /\ ~simple => CollectAllPaths(adj, src, dst, hops, simple)
                           = {w \in WalksOf(N, adj, src, hops) : Last(w) = dst}
<1>0. PICK walks : Searches(walks, N, adj, src, hops, simple) BY SearchIs
<1>1. /\ walks[0] = {<<>>}
      /\ \A h \in 1..hops : walks[h] = Longer(adj, src, simple, walks[h - 1])
      /\ CollectAllPaths(adj, src, dst, hops, simple) =
            {w \in walks[hops] : Last(w) = dst}
  BY <1>0 DEF Searches
<1> DEFINE Sound(h) == /\ walks[h] \subseteq WalksOf(N, adj, src, h)
                       /\ ~simple => walks[h] = WalksOf(N, adj, src, h)
           T == {n \in 0..hops : ~Sound(n)}
<1>2. T = {}
  <2> SUFFICES ASSUME T # {} PROVE FALSE
    OBVIOUS
  <2>1. T \subseteq Nat OBVIOUS
  <2>2. PICK n \in T : \A y \in T : n <= y
    <3> HIDE DEF T
    <3> QED BY <2>1, LeastOf
  <2>3. n \in Nat /\ n <= hops /\ ~Sound(n) BY <2>2
  <2>4. n # 0 BY <1>1, <2>3, EmptyWalk
  <2>5. n \in 1..hops /\ n - 1 \in 0..hops /\ n - 1 \in Nat /\ ~(n <= n - 1)
        /\ n - 1 + 1 = n
    BY <2>3, <2>4
  <2>6. Sound(n - 1) BY <2>2, <2>5
  <2>7. walks[n] = Longer(adj, src, simple, walks[n - 1]) BY <1>1, <2>5
  <2>8. Sound(n)
    <3> HIDE DEF T
    <3>1. walks[n - 1] \in SUBSET WalksOf(N, adj, src, n - 1) BY <2>6
    <3>2. /\ Longer(adj, src, simple, walks[n - 1]) \subseteq WalksOf(N, adj, src, n)
          /\ ~simple /\ walks[n - 1] = WalksOf(N, adj, src, n - 1) =>
               Longer(adj, src, simple, walks[n - 1]) = WalksOf(N, adj, src, n)
      BY <2>5, <3>1, LongerIs
    <3> QED BY <2>6, <2>7, <3>2
  <2> QED BY <2>3, <2>8
<1>3. Sound(hops)
  <2>1. hops \in 0..hops OBVIOUS
  <2> QED BY <1>2, <2>1
<1> QED BY <1>1, <1>3

Ends(N, adj, src, k) == {End(src, w) : w \in WalksOf(N, adj, src, k)}

\* The nodes a hop further, as ReachableAtHops finds them.
Further(adj, nodes) == UNION {adj[i] : i \in nodes}

LEMMA FurtherIs ==
    ASSUME NEW N, NEW adj \in [N -> SUBSET N], NEW src \in N, NEW k \in Nat
    PROVE  Further(adj, Ends(N, adj, src, k)) = Ends(N, adj, src, k + 1)
<1>1. ASSUME NEW j \in Further(adj, Ends(N, adj, src, k))
      PROVE  j \in Ends(N, adj, src, k + 1)
  <2>1. PICK w \in WalksOf(N, adj, src, k) : j \in adj[End(src, w)]
    BY DEF Further, Ends
  <2>2. /\ Append(w, j) \in WalksOf(N, adj, src, k + 1)
        /\ End(src, Append(w, j)) = j
    BY <2>1, AppendWalk
  <2> QED BY <2>2 DEF Ends
<1>2. ASSUME NEW j \in Ends(N, adj, src, k + 1)
      PROVE  j \in Further(adj, Ends(N, adj, src, k))
  <2>1. PICK x \in WalksOf(N, adj, src, k + 1) : j = End(src, x) BY DEF Ends
  <2>2. PICK w \in WalksOf(N, adj, src, k) : \E i \in adj[End(src, w)] : End(src, x) = i
    <3>1. Prolongs(x, N, adj, src, k) BY FrontWalk
    <3> QED BY <3>1 DEF Prolongs
  <2> QED BY <2>1, <2>2 DEF Ends, Further
<1> QED BY <1>1, <1>2

Levels(level, adj, src, hops) ==
    /\ level[0] = {src}
    /\ \A h \in 1..hops : level[h] = Further(adj, level[h - 1])
    /\ ReachableAtHops(adj, src, hops) = level[hops] \ {src}

LEMMA LevelsExist ==
    ASSUME NEW N, NEW adj \in [N -> SUBSET N], NEW src \in N, NEW hops \in Nat
    PROVE  \E level : Levels(level, adj, src, hops)
<1> DEFINE level ==
      CHOOSE level : level =
        [h \in 0..hops |->
            IF h = 0 THEN {src} ELSE UNION {adj[i] : i \in level[h - 1]}]
<1>1. ReachableAtHops(adj, src, hops) = level[hops] \ {src}
  BY DEF ReachableAtHops
<1> DEFINE g == CHOOSE g : g = [h \in 0..hops |-> IF h = 0 THEN {src}
                                   ELSE Further(adj, g[h - 1])]
<1>2. level = g BY DEF Further
<1> HIDE DEF level
<1> DEFINE U == SUBSET N
           F == [ns \in U |-> Further(adj, ns)]
<1>3. ASSUME NEW ns \in U PROVE Further(adj, ns) \in U
  BY DEF Further
<1>4. F \in [U -> U] BY <1>3
<1>5. {src} \in U OBVIOUS
<1>6. \A ns \in U : F[ns] = Further(adj, ns) OBVIOUS
<1> HIDE DEF U, F
<1>7. PICK f \in [0..hops -> U] : Iterates(f, F, {src}, hops)
  BY <1>4, <1>5, IterateExists
<1>8. f = [h \in 0..hops |-> IF h = 0 THEN {src} ELSE Further(adj, f[h - 1])]
  <2>1. \A h \in 0..hops : h # 0 => F[f[h - 1]] = Further(adj, f[h - 1])
    <3>1. \A h \in 0..hops : h # 0 => f[h - 1] \in U OBVIOUS
    <3> QED BY <1>6, <3>1
  <2> QED BY <1>7, <2>1 DEF Iterates
<1>9. g = [h \in 0..hops |-> IF h = 0 THEN {src} ELSE Further(adj, g[h - 1])]
  BY <1>8, Zenon
<1> HIDE DEF g
<1>10. g[0] = {src} /\ \A h \in 1..hops : g[h] = Further(adj, g[h - 1])
  <2>1. \A h \in 0..hops : g[h] = IF h = 0 THEN {src} ELSE Further(adj, g[h - 1])
    BY <1>9, Zenon
  <2>2. 0 \in 0..hops /\ \A h \in 1..hops : h \in 0..hops /\ h # 0 OBVIOUS
  <2> QED BY <2>1, <2>2, Zenon
<1> QED BY <1>1, <1>2, <1>10 DEF Levels

\* The nodes reachable at so many hops are the ends of the walks of that length.
LEMMA ReachableAreEnds ==
    ASSUME NEW N, NEW adj \in [N -> SUBSET N], NEW src \in N, NEW hops \in Nat
    PROVE  ReachableAtHops(adj, src, hops) = Ends(N, adj, src, hops) \ {src}
<1>1. PICK level : Levels(level, adj, src, hops) BY LevelsExist
<1> DEFINE T == {n \in 0..hops : level[n] # Ends(N, adj, src, n)}
<1>2. T = {}
  <2> SUFFICES ASSUME T # {} PROVE FALSE
    OBVIOUS
  <2>1. T \subseteq Nat OBVIOUS
  <2>2. PICK n \in T : \A y \in T : n <= y
    <3> HIDE DEF T
    <3> QED BY <2>1, LeastOf
  <2>3. n \in Nat /\ n <= hops /\ level[n] # Ends(N, adj, src, n) BY <2>2
  <2>4. n # 0
    <3>1. End(src, <<>>) = src BY DEF End
    <3>2. Ends(N, adj, src, 0) = {src} BY <3>1, EmptyWalk DEF Ends
    <3> QED BY <1>1, <2>3, <3>2 DEF Levels
  <2>5. n \in 1..hops /\ n - 1 \in 0..hops /\ n - 1 \in Nat /\ ~(n <= n - 1)
        /\ n - 1 + 1 = n
    BY <2>3, <2>4
  <2>6. level[n - 1] = Ends(N, adj, src, n - 1) BY <2>2, <2>5
  <2>7. level[n] = Further(adj, level[n - 1]) BY <1>1, <2>5 DEF Levels
  <2>8. Further(adj, Ends(N, adj, src, n - 1)) = Ends(N, adj, src, n)
    <3> HIDE DEF T
    <3> QED BY <2>5, FurtherIs
  <2> QED BY <2>3, <2>6, <2>7, <2>8
<1>3. level[hops] = Ends(N, adj, src, hops)
  <2>1. hops \in 0..hops OBVIOUS
  <2> QED BY <1>2, <2>1
<1> QED BY <1>1, <1>3 DEF Levels

\* A graph all of whose edges go both ways, none from a node to itself.
GraphSound(N, adj) ==
    /\ adj \in [N -> SUBSET N]
    /\ \A i \in N : i \notin adj[i]
    /\ \A i, j \in N : j \in adj[i] => i \in adj[j]

\* In such a graph a walk can be walked back.
LEMMA ReverseWalk ==
    ASSUME NEW N, NEW adj, GraphSound(N, adj), NEW src \in N, NEW k \in Nat, k > 0,
           NEW w \in WalksOf(N, adj, src, k)
    PROVE  \E x \in WalksOf(N, adj, End(src, w), k) : End(End(src, w), x) = src
<1>1. adj \in [N -> SUBSET N] /\ \A i, j \in N : j \in adj[i] => i \in adj[j]
  BY DEF GraphSound
<1>2. w \in Seq(N) /\ Len(w) = k /\ IsWalk(adj, src, w) BY DEF WalksOf
<1>3. w \in [1..k -> N] BY <1>2, LenProperties
<1>4. End(src, w) = w[k] /\ w[k] \in N BY <1>2, <1>3, EndIs
<1> DEFINE x == [i \in 1..k |-> IF i = k THEN src ELSE w[k - i]]
<1>5. x \in [1..k -> N]
  <2>1. \A i \in 1..k : i # k => k - i \in 1..k OBVIOUS
  <2> QED BY <1>3, <2>1
<1>6. x \in Seq(N) /\ Len(x) = k BY <1>5, SeqDef
<1>7. \A i \in 1..k : x[i] = IF i = k THEN src ELSE w[k - i] OBVIOUS
<1> HIDE DEF x
<1>8. ASSUME NEW i \in 1..k
      PROVE  w[i] \in adj[IF i = 1 THEN src ELSE w[i - 1]]
  <2>1. i \in 1..Len(w) BY <1>2
  <2> QED BY <1>2, <2>1 DEF IsWalk
<1>9. ASSUME NEW i \in 1..k
      PROVE  x[i] \in adj[IF i = 1 THEN w[k] ELSE x[i - 1]]
  <2> DEFINE m == k - i + 1
  <2>1. m \in 1..k /\ (i = k <=> m = 1) /\ m - 1 = k - i OBVIOUS
  <2>2. x[i] = IF m = 1 THEN src ELSE w[m - 1] BY <1>7, <2>1
  <2>3. (IF i = 1 THEN w[k] ELSE x[i - 1]) = w[m]
    <3>1. CASE i = 1
      <4>1. m = k BY <3>1
      <4> QED BY <3>1, <4>1
    <3>2. CASE i # 1
      <4>1. i - 1 \in 1..k /\ i - 1 # k /\ k - (i - 1) = m BY <3>2
      <4>2. x[i - 1] = w[k - (i - 1)] BY <1>7, <4>1
      <4> QED BY <3>2, <4>1, <4>2
    <3> QED BY <3>1, <3>2
  <2>4. w[m] \in adj[x[i]] BY <1>8, <2>1, <2>2
  <2>5. w[m] \in N /\ x[i] \in N BY <1>3, <1>5, <2>1
  <2> HIDE DEF m
  <2> QED BY <1>1, <2>3, <2>4, <2>5
<1>10. IsWalk(adj, w[k], x) BY <1>6, <1>9 DEF IsWalk
<1>11. x \in WalksOf(N, adj, w[k], k) BY <1>6, <1>10 DEF WalksOf
<1>12. End(w[k], x) = src
  <2>1. Len(x) > 0 BY <1>6
  <2>2. End(w[k], x) = x[k] BY <1>4, <1>6, <2>1, EndIs
  <2>3. k \in 1..k OBVIOUS
  <2> QED BY <1>7, <2>2, <2>3
<1> QED BY <1>4, <1>11, <1>12

-----------------------------------------------------------------------------
(* The order in which combinations are tried. *)

Agree(a, b, k) == \A i \in 1..k : i \in a <=> i \in b

\* The least number only one of the two has is one of a.
FirstIn(a, b) == Min((a \ b) \cup (b \ a)) \in a

LEMMA FirstInIs ==
    ASSUME NEW m \in Nat, NEW a \in SUBSET (1..m), NEW b \in SUBSET (1..m),
           a # b
    PROVE  FirstIn(a, b) <=> \E d \in 1..m : d \in a /\ d \notin b /\ Agree(a, b, d - 1)
<1> DEFINE D == (a \ b) \cup (b \ a)
<1>1. D \subseteq 1..m /\ D \subseteq Nat /\ D # {} OBVIOUS
<1>2. \A x : x \in D <=> (x \in a /\ x \notin b) \/ (x \in b /\ x \notin a) OBVIOUS
<1>3. FirstIn(a, b) <=> Min(D) \in a BY DEF FirstIn
<1> HIDE DEF D
<1>4. \E n \in D : \A y \in D : n <= y BY <1>1, LeastOf
<1>5. Min(D) \in D /\ \A y \in D : Min(D) <= y BY <1>4 DEF Min
<1>6. PICK n : n = Min(D) OBVIOUS
<1>7. n \in D /\ n \in 1..m /\ \A y \in D : n <= y BY <1>1, <1>5, <1>6
<1>8. Agree(a, b, n - 1)
  <2>1. ASSUME NEW i \in 1..n - 1 PROVE i \in a <=> i \in b
    <3>1. i \in Nat /\ n \in Nat /\ ~(n <= i) BY <1>7
    <3>2. i \notin D BY <1>7, <3>1
    <3> QED BY <1>2, <3>2
  <2> QED BY <2>1 DEF Agree
<1>9. ASSUME n \in a
      PROVE  \E d \in 1..m : d \in a /\ d \notin b /\ Agree(a, b, d - 1)
  BY <1>2, <1>7, <1>8, <1>9
<1>10. ASSUME NEW d \in 1..m, d \in a, d \notin b, Agree(a, b, d - 1)
       PROVE  n \in a
  <2>1. d \in D BY <1>2, <1>10
  <2>2. n <= d BY <1>7, <2>1
  <2>3. CASE n = d BY <1>10, <2>3
  <2>4. CASE n # d
    <3>1. n \in 1..d - 1 BY <1>7, <2>2, <2>4
    <3>2. n \in a <=> n \in b BY <1>10, <3>1 DEF Agree
    <3> QED BY <1>2, <1>7, <3>2
  <2> QED BY <2>3, <2>4
<1> QED BY <1>3, <1>6, <1>9, <1>10

\* a is before all others as far as one sees from the numbers up to k.
Foremost(a, sets, k) == \A b \in sets : Agree(a, b, k) \/ FirstIn(a, b)

LEMMA ForemostExtends ==
    ASSUME NEW m \in Nat, NEW sets \in SUBSET SUBSET (1..m), NEW n \in 1..m,
           NEW a \in sets, Foremost(a, sets, n - 1)
    PROVE  \E b \in sets : Foremost(b, sets, n)
<1>1. ASSUME NEW b \in sets, NEW c \in sets, Agree(b, c, n - 1)
      PROVE  /\ (n \in b <=> n \in c) => Agree(b, c, n)
             /\ n \in b /\ n \notin c => FirstIn(b, c)
  <2>1. ASSUME n \in b <=> n \in c, NEW i \in 1..n PROVE i \in b <=> i \in c
    <3>1. i = n \/ i \in 1..n - 1 OBVIOUS
    <3> QED BY <1>1, <2>1, <3>1 DEF Agree
  <2>2. ASSUME n \in b, n \notin c PROVE FirstIn(b, c)
    <3>1. b \in SUBSET (1..m) /\ c \in SUBSET (1..m) /\ b # c BY <2>2
    <3>2. \E d \in 1..m : d \in b /\ d \notin c /\ Agree(b, c, d - 1) BY <1>1, <2>2
    <3> QED BY <3>1, <3>2, FirstInIs
  <2> QED BY <2>1, <2>2 DEF Agree
<1>2. CASE n \in a
  <2>1. ASSUME NEW b \in sets PROVE Agree(a, b, n) \/ FirstIn(a, b)
    BY <1>1, <1>2 DEF Foremost
  <2> QED BY <2>1 DEF Foremost
<1>3. ASSUME NEW b \in sets, Agree(a, b, n - 1), n \in b
      PROVE  Foremost(b, sets, n)
  <2>1. ASSUME NEW c \in sets PROVE Agree(b, c, n) \/ FirstIn(b, c)
    <3>1. CASE Agree(a, c, n - 1)
      <4>1. Agree(b, c, n - 1) BY <1>3, <3>1 DEF Agree
      <4> QED BY <1>1, <1>3, <4>1
    <3>2. CASE ~Agree(a, c, n - 1)
      <4>1. FirstIn(a, c) BY <3>2 DEF Foremost
      <4>2. a \in SUBSET (1..m) /\ c \in SUBSET (1..m) /\ a # c BY <3>2 DEF Agree
      <4>3. PICK d \in 1..m : d \in a /\ d \notin c /\ Agree(a, c, d - 1)
        BY <4>1, <4>2, FirstInIs
      <4>4. PICK e \in 1..n - 1 : ~(e \in a <=> e \in c) BY <3>2 DEF Agree
      <4>5. d <= e
        <5>1. e \notin 1..d - 1 BY <4>3, <4>4 DEF Agree
        <5> QED BY <5>1
      <4>6. d \in 1..n - 1 BY <4>5
      <4>7. d \in b BY <1>3, <4>3, <4>6 DEF Agree
      <4>8. Agree(b, c, d - 1)
        <5>1. \A i \in 1..d - 1 : i \in 1..n - 1 BY <4>6
        <5> QED BY <1>3, <4>3, <5>1 DEF Agree
      <4>9. b \in SUBSET (1..m) /\ b # c BY <4>3, <4>7
      <4> QED BY <4>2, <4>3, <4>7, <4>8, <4>9, FirstInIs
    <3> QED BY <3>1, <3>2
  <2> QED BY <2>1 DEF Foremost
<1>4. CASE n \notin a /\ \A b \in sets : Agree(a, b, n - 1) => n \notin b
  <2>1. ASSUME NEW b \in sets PROVE Agree(a, b, n) \/ FirstIn(a, b)
    BY <1>1, <1>4 DEF Foremost
  <2> QED BY <2>1 DEF Foremost
<1> QED BY <1>2, <1>3, <1>4

\* Any combinations have a first one.
LEMMA LexFirstIs ==
    ASSUME NEW m \in Nat, NEW sets \in SUBSET SUBSET (1..m), sets # {}
    PROVE  LexFirst(sets) \in sets
<1> DEFINE T == {k \in 0..m : ~\E a \in sets : Foremost(a, sets, k)}
<1>1. T = {}
  <2> SUFFICES ASSUME T # {} PROVE FALSE
    OBVIOUS
  <2>1. T \subseteq Nat OBVIOUS
  <2>2. PICK n \in T : \A y \in T : n <= y
    <3> HIDE DEF T
    <3> QED BY <2>1, LeastOf
  <2>3. n \in Nat /\ n <= m /\ ~\E a \in sets : Foremost(a, sets, n) BY <2>2
  <2>4. n # 0
    <3>1. \A a \in sets : Foremost(a, sets, 0) BY DEF Foremost, Agree
    <3> QED BY <2>3, <3>1
  <2>5. n \in 1..m /\ n - 1 \in 0..m /\ ~(n <= n - 1) BY <2>3, <2>4
  <2>6. PICK a \in sets : Foremost(a, sets, n - 1) BY <2>2, <2>5
  <2> HIDE DEF T
  <2> QED BY <2>3, <2>5, <2>6, ForemostExtends
<1>2. m \in 0..m OBVIOUS
<1>3. PICK a \in sets : Foremost(a, sets, m) BY <1>1, <1>2
<1>4. ASSUME NEW b \in sets \ {a} PROVE FirstIn(a, b)
  <2>1. a \subseteq 1..m /\ b \subseteq 1..m /\ a # b OBVIOUS
  <2>2. ~Agree(a, b, m) BY <2>1 DEF Agree
  <2> QED BY <1>3, <2>2 DEF Foremost
<1> QED BY <1>4 DEF LexFirst, FirstIn

LEMMA BestOffsetsFound ==
    ASSUME NEW n \in Nat \ {0}, NEW half_degree \in Nat,
           OffsetsWithin(n, half_degree, n - 1) # {}
    PROVE  /\ BestOffsets(n, half_degree) \in SUBSET (1..(n - 1) \div 2)
           /\ BestOffsets(n, half_degree) \in CandidateOffsets(n, half_degree)
<1> DEFINE m == (n - 1) \div 2
           W(k) == OffsetsWithin(n, half_degree, k)
           Least(k) == W(k) # {} /\ \A h \in 2..k - 1 : W(h) = {}
           best == CHOOSE k \in 2..n + 1 : Least(k)
           T == {k \in 2..n + 1 : W(k) # {}}
<1>1. m \in Nat OBVIOUS
<1>2. \A k : W(k) \in SUBSET SUBSET (1..m)
  BY DEF OffsetsWithin, CandidateOffsets, kSubset
<1>3. W(n + 1) # {}
  <2>1. 0..n - 1 \subseteq 0..n + 1 OBVIOUS
  <2>2. W(n - 1) \subseteq W(n + 1) BY <2>1 DEF OffsetsWithin
  <2> QED BY <2>2
<1>4. BestOffsets(n, half_degree) = LexFirst(W(best)) BY DEF BestOffsets
<1> HIDE DEF W, m
<1>5. T # {} /\ T \subseteq Nat
  <2>1. n + 1 \in 2..n + 1 OBVIOUS
  <2> QED BY <1>3, <2>1
<1>6. PICK k \in T : \A y \in T : k <= y
  <2> HIDE DEF T
  <2> QED BY <1>5, LeastOf
<1>7. k \in 2..n + 1 /\ Least(k)
  <2>1. ASSUME NEW h \in 2..k - 1 PROVE W(h) = {}
    <3>1. h \in 2..n + 1 /\ ~(k <= h) BY <1>6
    <3> QED BY <1>6, <3>1
  <2> QED BY <1>6, <2>1
<1>8. Least(best) BY <1>7
<1> HIDE DEF best
<1>9. LexFirst(W(best)) \in W(best) BY <1>1, <1>2, <1>8, LexFirstIs
<1>10. \A h : W(h) \subseteq CandidateOffsets(n, half_degree) BY DEF W, OffsetsWithin
<1> QED BY <1>2, <1>4, <1>9, <1>10 DEF m

-----------------------------------------------------------------------------
(* The graphs the manager makes. *)

LEMMA AroundTheRing ==
    ASSUME NEW n \in Nat \ {0}, NEW i \in 0..n - 1, NEW s \in 1..n - 1
    PROVE  /\ (i + s) % n = IF i + s < n THEN i + s ELSE i + s - n
           /\ (i - s) % n = IF s <= i THEN i - s ELSE i - s + n
<1>1. CASE i + s < n BY <1>1
<1>2. CASE ~(i + s < n)
  <2>1. i + s - n \in 0..n - 1 BY <1>2
  <2>2. i + s = n + (i + s - n) OBVIOUS
  <2> QED BY <2>1, <2>2, <1>2
<1>3. CASE s <= i BY <1>3
<1>4. CASE ~(s <= i)
  <2>1. i - s + n \in 0..n - 1 BY <1>4
  <2> QED BY <2>1, <1>4
<1> QED BY <1>1, <1>2, <1>3, <1>4

LEMMA CirculantSound ==
    ASSUME NEW n \in Nat \ {0}, NEW offsets \in SUBSET (1..n - 1)
    PROVE  GraphSound(0..n - 1, CirculantGraph(n, offsets))
<1> DEFINE N == 0..n - 1
           Plus(i, s) == (i + s) % n
           Minus(i, s) == (i - s) % n
           adj == [i \in N |-> {Plus(i, s) : s \in offsets} \cup {Minus(i, s) : s \in offsets}]
<1>1. CirculantGraph(n, offsets) = adj BY DEF CirculantGraph
<1>2. ASSUME NEW i \in N, NEW s \in offsets
      PROVE  /\ Plus(i, s) \in N /\ Plus(i, s) # i /\ Minus(Plus(i, s), s) = i
             /\ Minus(i, s) \in N /\ Minus(i, s) # i /\ Plus(Minus(i, s), s) = i
  <2>1. s \in 1..n - 1 OBVIOUS
  <2>2. Plus(i, s) = IF i + s < n THEN i + s ELSE i + s - n BY <2>1, AroundTheRing
  <2>3. Minus(i, s) = IF s <= i THEN i - s ELSE i - s + n BY <2>1, AroundTheRing
  <2>4. Plus(i, s) \in N /\ Minus(i, s) \in N BY <2>1, <2>2, <2>3
  <2>5. Minus(Plus(i, s), s)
          = IF s <= Plus(i, s) THEN Plus(i, s) - s ELSE Plus(i, s) - s + n
    BY <2>1, <2>4, AroundTheRing
  <2>6. Plus(Minus(i, s), s)
          = IF Minus(i, s) + s < n THEN Minus(i, s) + s ELSE Minus(i, s) + s - n
    BY <2>1, <2>4, AroundTheRing
  <2> HIDE DEF Plus, Minus
  <2> QED BY <2>1, <2>2, <2>3, <2>4, <2>5, <2>6
<1> HIDE DEF Plus, Minus
<1>3. \A i \in N : \A j : j \in adj[i] <=>
         \E s \in offsets : j = Plus(i, s) \/ j = Minus(i, s)
  OBVIOUS
<1>4. adj \in [N -> SUBSET N] BY <1>2
<1> HIDE DEF adj
<1>5. \A i \in N : i \notin adj[i] BY <1>2, <1>3
<1>6. ASSUME NEW i \in N, NEW j \in N, j \in adj[i] PROVE i \in adj[j]
  <2>1. PICK s \in offsets : j = Plus(i, s) \/ j = Minus(i, s) BY <1>3, <1>6
  <2>2. i = Minus(j, s) \/ i = Plus(j, s) BY <1>2, <2>1
  <2> QED BY <1>3, <2>2
<1> QED BY <1>1, <1>4, <1>5, <1>6 DEF GraphSound

LEMMA HypercubeSound ==
    ASSUME NEW n \in Nat
    PROVE  GraphSound(0..n - 1, HypercubeGraph(n))
<1> DEFINE N == 0..n - 1
           weights == {w \in 1..n : PowerOfTwo(w)}
           sets_bit(i, j) == \E w \in weights : (i \div w) % 2 = 0 /\ j = i + w
           adj == [i \in N |-> {j \in N : sets_bit(i, j) \/ sets_bit(j, i)}]
<1>1. HypercubeGraph(n) = adj BY DEF HypercubeGraph
<1>2. \A i \in N : ~sets_bit(i, i) OBVIOUS
<1> HIDE DEF sets_bit
<1>3. adj \in [N -> SUBSET N] OBVIOUS
<1>4. \A i, j \in N : j \in adj[i] <=> sets_bit(i, j) \/ sets_bit(j, i) OBVIOUS
<1> HIDE DEF adj
<1> QED BY <1>1, <1>2, <1>3, <1>4 DEF GraphSound

LEMMA CompleteSound ==
    ASSUME NEW n \in Nat
    PROVE  GraphSound(0..n - 1, CompleteGraph(n))
BY DEF GraphSound, CompleteGraph

\* Every graph the manager makes is sound.
LEMMA AdjacencySound ==
    ASSUME NEW c, Valid(c), c.n_nodes \in Nat \ {0}, c.degree \in Nat
    PROVE  GraphSound(NodesOf(c), generate_adjacency(c))
<1>1. c.n_nodes \in Nat \ {0} /\ c.degree \in Nat OBVIOUS
<1> DEFINE n == c.n_nodes
           half == c.degree \div 2
<1>2. half \in Nat BY <1>1
<1>3. CASE c.type = "circulant"
  <2>1. OffsetsWithin(n, half, n - 1) # {} BY <1>3 DEF Valid
  <2>2. BestOffsets(n, half) \in SUBSET (1..(n - 1) \div 2)
    BY <1>1, <1>2, <2>1, BestOffsetsFound
  <2>3. 1..(n - 1) \div 2 \subseteq 1..n - 1 BY <1>1
  <2>4. BestOffsets(n, half) \in SUBSET (1..n - 1) BY <2>2, <2>3
  <2>5. GraphSound(0..n - 1, CirculantGraph(n, BestOffsets(n, half)))
    BY <1>1, <2>4, CirculantSound
  <2>6. generate_adjacency(c) = CirculantGraph(n, BestOffsets(n, half))
    BY <1>3 DEF generate_adjacency
  <2> QED BY <2>5, <2>6 DEF NodesOf
<1>4. CASE c.type = "ring_lattice"
  <2>1. c.degree < n BY <1>4 DEF Valid
  <2>2. 1..half \in SUBSET (1..n - 1) BY <1>1, <2>1
  <2>3. GraphSound(0..n - 1, CirculantGraph(n, 1..half)) BY <1>1, <2>2, CirculantSound
  <2>4. generate_adjacency(c) = CirculantGraph(n, 1..half)
    BY <1>4 DEF generate_adjacency
  <2> QED BY <2>3, <2>4 DEF NodesOf
<1>5. CASE c.type = "hypercube"
  <2>1. generate_adjacency(c) = HypercubeGraph(n) BY <1>5 DEF generate_adjacency
  <2>2. GraphSound(0..n - 1, HypercubeGraph(n)) BY <1>1, HypercubeSound
  <2> QED BY <2>1, <2>2 DEF NodesOf
<1>6. CASE c.type \notin {"circulant", "ring_lattice", "hypercube"}
  <2>1. generate_adjacency(c) = CompleteGraph(n) BY <1>6 DEF generate_adjacency
  <2>2. GraphSound(0..n - 1, CompleteGraph(n)) BY <1>1, CompleteSound
  <2> QED BY <2>1, <2>2 DEF NodesOf
<1> QED BY <1>3, <1>4, <1>5, <1>6

-----------------------------------------------------------------------------
(* The paths of node 0. *)

\* From s, t is a peer over this many hops, or a neighbour.
LEMMA PathsOfPairAre ==
    ASSUME NEW N, NEW adj, GraphSound(N, adj), NEW hops \in Nat, hops > 0,
           NEW s \in N, NEW t \in N, s # t
    PROVE  /\ PathsOfPair(adj, s, t, hops)
                \subseteq {w \in WalksOf(N, adj, s, hops) : Last(w) = t}
           /\ PathsOfPair(adj, s, t, hops) = {} =>
                {w \in WalksOf(N, adj, s, hops) : Last(w) = t} = {}
<1> DEFINE all == {w \in WalksOf(N, adj, s, hops) : Last(w) = t}
           paths(simple) == CollectAllPaths(adj, s, t, hops, simple)
<1>1. adj \in [N -> SUBSET N] BY DEF GraphSound
<1>2. paths(TRUE) \subseteq all /\ paths(FALSE) \subseteq all /\ paths(FALSE) = all
  <2>1. \A simple \in BOOLEAN : /\ paths(simple) \subseteq all
                                /\ ~simple => paths(simple) = all
    <3>1. ASSUME NEW simple \in BOOLEAN
          PROVE  paths(simple) \subseteq all /\ (~simple => paths(simple) = all)
      BY <1>1, PathsAreWalks
    <3> QED BY <3>1
  <2> QED BY <2>1
<1>3. t \in ReachableAtHops(adj, s, hops) <=> all # {}
  <2>1. ReachableAtHops(adj, s, hops) = Ends(N, adj, s, hops) \ {s}
    BY <1>1, ReachableAreEnds
  <2>2. ASSUME NEW w \in WalksOf(N, adj, s, hops) PROVE End(s, w) = Last(w)
    <3>1. w \in Seq(N) /\ Len(w) > 0 BY DEF WalksOf
    <3> QED BY <3>1, EndIs
  <2>3. t \in Ends(N, adj, s, hops) <=> \E w \in WalksOf(N, adj, s, hops) : Last(w) = t
    BY <2>2 DEF Ends
  <2> QED BY <2>1, <2>3
<1>4. PathsOfPair(adj, s, t, hops) =
        CASE t \notin ReachableAtHops(adj, s, hops) -> {}
          [] paths(TRUE) # {} -> paths(TRUE)
          [] OTHER -> paths(FALSE)
  BY DEF PathsOfPair
<1> HIDE DEF paths, all
<1>5. CASE t \notin ReachableAtHops(adj, s, hops)
  <2>1. PathsOfPair(adj, s, t, hops) = {} BY <1>2, <1>3, <1>4, <1>5
  <2> QED BY <1>3, <1>5, <2>1 DEF all
<1>6. CASE t \in ReachableAtHops(adj, s, hops)
  <2>1. \/ PathsOfPair(adj, s, t, hops) = paths(TRUE) /\ paths(TRUE) # {}
        \/ PathsOfPair(adj, s, t, hops) = paths(FALSE)
    BY <1>4, <1>6
  <2>2. PathsOfPair(adj, s, t, hops) \subseteq all BY <1>2, <2>1
  <2>3. PathsOfPair(adj, s, t, hops) # {} BY <1>2, <1>3, <1>6, <2>1
  <2> QED BY <2>2, <2>3 DEF all
<1> QED BY <1>5, <1>6

\* A peer of a node has the node for a peer.
LEMMA PeersMutual ==
    ASSUME NEW N, NEW adj, GraphSound(N, adj), NEW hops \in Nat, hops > 0,
           NEW s \in N, NEW t \in ReachableAtHops(adj, s, hops) \cup adj[s]
    PROVE  /\ t \in N /\ t # s
           /\ s \in ReachableAtHops(adj, t, hops) \cup adj[t]
<1>1. adj \in [N -> SUBSET N] BY DEF GraphSound
<1>2. CASE t \in adj[s]
  BY <1>1, <1>2 DEF GraphSound
<1>3. CASE t \in ReachableAtHops(adj, s, hops)
  <2>1. t \in Ends(N, adj, s, hops) /\ t # s BY <1>1, <1>3, ReachableAreEnds
  <2>2. PICK w \in WalksOf(N, adj, s, hops) : t = End(s, w) BY <2>1 DEF Ends
  <2>3. t \in N
    <3>1. w \in Seq(N) BY DEF WalksOf
    <3> QED BY <2>2, <3>1, EndIs
  <2>4. \E x \in WalksOf(N, adj, t, hops) : End(t, x) = s BY <2>2, ReverseWalk
  <2>5. s \in Ends(N, adj, t, hops) BY <2>4 DEF Ends
  <2>6. ReachableAtHops(adj, t, hops) = Ends(N, adj, t, hops) \ {t}
    BY <1>1, <2>3, ReachableAreEnds
  <2> QED BY <2>1, <2>3, <2>5, <2>6
<1> QED BY <1>2, <1>3

\* What a path is, that node start builds to node target.
Routable(start, target, path) ==
    LET k == config.max_hops
        all == {w \in WalksOf(NodesOf(config), topology, start, k) : Last(w) = target}
    IN  path \in all \/ (all = {} /\ path = <<target>> /\ target \in topology[start])

Graph ==
    /\ config \in Configs /\ Valid(config)
    /\ topology = generate_adjacency(config)
    /\ pool = PathPool(config, topology)

LEMMA GraphIs ==
    ASSUME Graph
    PROVE  /\ GraphSound(NodesOf(config), topology)
           /\ Self \in NodesOf(config)
           /\ config.max_hops \in Nat /\ config.max_hops > 0
<1>1. config.n_nodes \in Nat \ {0} /\ config.max_hops \in Nat \ {0} /\ config.degree \in Nat
  BY TopologyAssumption DEF Graph
<1> QED BY <1>1, AdjacencySound DEF Graph, NodesOf, Self

LEMMA ChoicesRoutable ==
    ASSUME Graph, NEW start \in NodesOf(config), NEW target \in NodesOf(config),
           Self \in {start, target}, start # target,
           target \in ReachableAtHops(topology, start, config.max_hops) \cup topology[start],
           NEW path \in PathChoices(start, target)
    PROVE  Routable(start, target, path)
<1> DEFINE N == NodesOf(config)
           k == config.max_hops
           all == {w \in WalksOf(N, topology, start, k) : Last(w) = target}
           paths == pool[<<start, target>>]
<1>1. GraphSound(N, topology) /\ k \in Nat /\ k > 0 BY GraphIs
<1>2. paths = PathsOfPair(topology, start, target, k)
  <2>1. <<start, target>> \in OwnPairs(config) BY DEF OwnPairs
  <2>2. paths = PathPool(config, topology)[<<start, target>>] BY DEF Graph
  <2> QED BY <2>1, <2>2 DEF PathPool
<1>3. paths \subseteq all /\ (paths = {} => all = {}) BY <1>1, <1>2, PathsOfPairAre
<1>4. CASE paths # {}
  <2>1. path \in paths BY <1>4 DEF PathChoices, Usable
  <2> QED BY <1>3, <2>1 DEF Routable
<1>5. CASE paths = {}
  <2>1. all = {} BY <1>3, <1>5
  <2>2. path \in ExactLengthPaths(start, target) BY <1>5 DEF PathChoices, Usable
  <2>3. \A simple \in BOOLEAN :
          CollectAllPaths(topology, start, target, k, simple) = {}
    <3>1. topology \in [N -> SUBSET N] BY <1>1 DEF GraphSound
    <3>2. ASSUME NEW simple \in BOOLEAN
          PROVE  CollectAllPaths(topology, start, target, k, simple) \subseteq all
      BY <1>1, <3>1, PathsAreWalks
    <3> QED BY <2>1, <3>2
  <2>4. CollectAllPaths(topology, start, target, k, TRUE) = {}
        /\ CollectAllPaths(topology, start, target, k, FALSE) = {}
    BY <2>3
  <2>5. path = <<target>> BY <2>2, <2>4 DEF ExactLengthPaths
  <2>6. target \in topology[start]
    <3>1. topology \in [N -> SUBSET N] BY <1>1 DEF GraphSound
    <3>2. ASSUME target \in ReachableAtHops(topology, start, k) PROVE FALSE
      <4>1. target \in Ends(N, topology, start, k)
        BY <1>1, <3>1, <3>2, ReachableAreEnds
      <4>2. PICK w \in WalksOf(N, topology, start, k) : target = End(start, w)
        BY <4>1 DEF Ends
      <4>3. w \in Seq(N) /\ Len(w) > 0 BY <1>1 DEF WalksOf
      <4>4. Last(w) = target BY <4>2, <4>3, EndIs
      <4> QED BY <2>1, <4>4
    <3> QED BY <3>2
  <2> QED BY <2>1, <2>5, <2>6 DEF Routable
<1> QED BY <1>4, <1>5

\* The last path built is one of those to choose from now: whatever changes the
\* choice forgets it.
Built(start, target) ==
    \E path \in PathChoices(start, target) :
        built = [start |-> start, target |-> target, path |-> path]

BuiltSound ==
    built = NoPath \/ \E p \in Peers : Built(Self, p) \/ Built(p, Self)

IInv == Graph /\ BuiltSound

LEMMA NextKeeps ==
    ASSUME IInv, [Next]_vars
    PROVE  IInv'
<1>1. CASE UNCHANGED vars
  <2>1. UNCHANGED <<config, topology, pool, unreachable, linked, built>> BY <1>1 DEF vars
  <2>2. \A s, t : PathChoices(s, t)' = PathChoices(s, t)
    BY <2>1 DEF PathChoices, ExactLengthPaths, Usable
  <2>3. \A s, t : Built(s, t)' <=> Built(s, t)
    <3> SUFFICES ASSUME NEW s, NEW t PROVE Built(s, t)' <=> Built(s, t)
      OBVIOUS
    <3>1. PathChoices(s, t)' = PathChoices(s, t) BY <2>2
    <3> QED BY <2>1, <3>1 DEF Built
  <2>4. Peers' = Peers BY <2>1 DEF Peers, Neighbors
  <2>5. BuiltSound' BY <2>1, <2>3, <2>4 DEF IInv, BuiltSound
  <2> QED BY <2>1, <2>5 DEF IInv, Graph
<1>2. ASSUME NEW p \in NodesOf(config), SessionChanges(p) \/ LinkChanges(p)
      PROVE  IInv'
  <2>1. UNCHANGED <<config, topology, pool>> /\ built' = NoPath
    BY <1>2 DEF SessionChanges, LinkChanges
  <2> QED BY <2>1 DEF IInv, Graph, BuiltSound
<1>3. ASSUME NEW p \in NodesOf(config), NEW start, NEW target,
             p \in Peers, Build(start, target),
             <<start, target>> \in {<<Self, p>>, <<p, Self>>}
      PROVE  IInv'
  <2>1. UNCHANGED <<config, topology, pool, unreachable, linked>>
    BY <1>3 DEF Build
  <2>2. Graph' BY <2>1 DEF IInv, Graph
  <2>3. PICK path \in PathChoices(start, target) :
          built' = [start |-> start, target |-> target, path |-> path]
    BY <1>3 DEF Build
  <2>4. PathChoices(start, target)' = PathChoices(start, target)
    BY <2>1 DEF PathChoices, ExactLengthPaths, Usable
  <2>5. Peers' = Peers BY <2>1 DEF Peers, Neighbors
  <2>6. Built(start, target)' BY <2>3, <2>4 DEF Built
  <2>7. Built(Self, p)' \/ Built(p, Self)' BY <1>3, <2>6
  <2>8. BuiltSound' BY <1>3, <2>5, <2>7 DEF BuiltSound
  <2> QED BY <2>2, <2>8 DEF IInv
<1>4. ASSUME NEW p \in NodesOf(config), BuildForward(p) PROVE IInv'
  BY <1>3, <1>4 DEF BuildForward
<1>5. ASSUME NEW p \in NodesOf(config), BuildReply(p) PROVE IInv'
  BY <1>3, <1>5 DEF BuildReply
<1> QED BY <1>1, <1>2, <1>4, <1>5 DEF Next

THEOREM RoutingInvariance == Spec => []IInv
<1>1. Init => IInv
  BY DEF Init, IInv, Graph, BuiltSound
<1>2. IInv /\ [Next]_vars => IInv'
  BY NextKeeps
<1> QED BY <1>1, <1>2, PTL DEF Spec

LEMMA SeqOfLength ==
    ASSUME NEW S, NEW m \in Nat, NEW w \in [1..m -> S]
    PROVE  w \in Seq(S) /\ Len(w) = m
BY SeqDef

LEMMA FirstOrLater ==
    ASSUME NEW m \in Nat
    PROVE  \A i \in 1..m : i = 1 \/ i \in 2..m
OBVIOUS

LEMMA RoutableIs ==
    ASSUME Graph, NEW start \in NodesOf(config), NEW target \in NodesOf(config),
           NEW path, Routable(start, target, path),
           built = [start |-> start, target |-> target, path |-> path]
    PROVE  PathRoutable
<1> DEFINE N == NodesOf(config)
           k == config.max_hops
           all == {w \in WalksOf(N, topology, start, k) : Last(w) = target}
<1>1. topology \in [N -> SUBSET N] /\ k \in Nat /\ k > 0 BY GraphIs DEF GraphSound
<1>2. /\ path \in Seq(N)
      /\ \A i \in 1..Len(path) : path[i] \in topology[IF i = 1 THEN start ELSE path[i - 1]]
      /\ Last(path) = target
      /\ path \in all \/ all = {}
      /\ path \in all => Len(path) = k
  <2>1. CASE path \in all BY <2>1 DEF WalksOf, IsWalk
  <2>2. CASE all = {} /\ path = <<target>> /\ target \in topology[start]
    <3>1. path \in Seq(N) /\ Len(path) = 1 /\ path[1] = target BY <2>2
    <3>2. \A i \in 1..Len(path) : i = 1 BY <3>1
    <3>3. Last(path) = target BY <3>1 DEF Last
    <3>4. path \notin all BY <2>2
    <3>5. \A i \in 1..Len(path) :
            path[i] \in topology[IF i = 1 THEN start ELSE path[i - 1]]
      BY <2>2, <3>1, <3>2
    <3> HIDE DEF all
    <3> QED BY <2>2, <3>1, <3>3, <3>4, <3>5
  <2> QED BY <2>1, <2>2 DEF Routable
<1> DEFINE hops == <<start>> \o path
<1>3. ASSUME NEW i \in 1..Len(path)
      PROVE  hops[i + 1] \in topology[hops[i]]
  <2>1. Len(path) \in Nat BY <1>2, LenProperties
  <2>2. <<start>> \in Seq(N) /\ Len(<<start>>) = 1 /\ <<start>>[1] = start OBVIOUS
  <2>3. \A j \in 1..1 + Len(path) :
          hops[j] = IF j <= 1 THEN <<start>>[j] ELSE path[j - 1]
    BY <1>2, <2>2, ConcatProperties
  <2>4. i + 1 \in 1..1 + Len(path) /\ i \in 1..1 + Len(path) /\ ~(i + 1 <= 1)
        /\ i + 1 - 1 = i /\ (i <= 1 <=> i = 1)
    BY <2>1
  <2>5. hops[i + 1] = path[i] /\ hops[i] = IF i = 1 THEN start ELSE path[i - 1]
    BY <2>2, <2>3, <2>4
  <2> HIDE DEF hops
  <2> QED BY <1>2, <2>5
<1>4. ASSUME NEW w \in Walks(start, target) PROVE w \in all
  <2>1. /\ w \in [1..k -> N] /\ w[1] \in topology[start] /\ w[k] = target
        /\ \A i \in 2..k : w[i] \in topology[w[i - 1]]
    BY DEF Walks
  <2>2. w \in Seq(N) /\ Len(w) = k BY <1>1, <2>1, SeqOfLength
  <2>3. \A i \in 1..k : w[i] \in topology[IF i = 1 THEN start ELSE w[i - 1]]
    <3>1. \A i \in 1..k : i = 1 \/ i \in 2..k BY <1>1, FirstOrLater
    <3> QED BY <2>1, <3>1
  <2> QED BY <2>1, <2>2, <2>3 DEF WalksOf, IsWalk, Last
<1>5. Walks(start, target) # {} => Len(path) = k BY <1>2, <1>4
<1>6. built.start = start /\ built.target = target /\ built.path = path OBVIOUS
<1> HIDE DEF all
<1> QED BY <1>2, <1>3, <1>5, <1>6 DEF PathRoutable

LEMMA IInvRoutable ==
    ASSUME IInv
    PROVE  PathRoutable
<1>1. CASE built = NoPath
  BY <1>1 DEF PathRoutable, NoPath
<1>2. ASSUME NEW p \in Peers, Built(Self, p) \/ Built(p, Self)
      PROVE  PathRoutable
  <2> DEFINE N == NodesOf(config)
             k == config.max_hops
  <2>1. Graph BY DEF IInv
  <2>2. GraphSound(N, topology) /\ Self \in N /\ k \in Nat /\ k > 0 BY <2>1, GraphIs
  <2>3. p \in ReachableAtHops(topology, Self, k) \cup topology[Self]
    BY DEF Peers, Neighbors
  <2>4. /\ p \in N /\ p # Self
        /\ Self \in ReachableAtHops(topology, p, k) \cup topology[p]
    BY <2>2, <2>3, PeersMutual
  <2>5. CASE Built(Self, p)
    <3>1. PICK path \in PathChoices(Self, p) :
            built = [start |-> Self, target |-> p, path |-> path]
      BY <2>5 DEF Built
    <3>2. Routable(Self, p, path) BY <2>1, <2>2, <2>3, <2>4, ChoicesRoutable
    <3> QED BY <2>1, <2>2, <2>4, <3>1, <3>2, RoutableIs
  <2>6. CASE Built(p, Self)
    <3>1. PICK path \in PathChoices(p, Self) :
            built = [start |-> p, target |-> Self, path |-> path]
      BY <2>6 DEF Built
    <3>2. Routable(p, Self, path) BY <2>1, <2>2, <2>4, ChoicesRoutable
    <3> QED BY <2>1, <2>2, <2>4, <3>1, <3>2, RoutableIs
  <2> QED BY <1>2, <2>5, <2>6
<1> QED BY <1>1, <1>2 DEF IInv, BuiltSound

LEMMA IInvAvoidsDead ==
    ASSUME IInv
    PROVE  PathAvoidsDead
<1>1. CASE built = NoPath
  BY <1>1 DEF PathAvoidsDead, NoPath
<1>2. ASSUME NEW start, NEW target, Built(start, target)
      PROVE  PathAvoidsDead
  <2>1. PICK path \in PathChoices(start, target) :
          built = [start |-> start, target |-> target, path |-> path]
    BY <1>2 DEF Built
  <2>2. built.start = start /\ built.target = target /\ built.path = path
    BY <2>1
  <2> DEFINE paths == pool[<<start, target>>]
             usable == Usable(paths)
             linkedOnes == {w \in usable : w[1] \in linked}
  <2>3. /\ usable # {} => path \in usable
        /\ linkedOnes # {} /\ start = Self => path \in linkedOnes
    BY <2>1 DEF PathChoices, Usable
  <2> QED BY <2>2, <2>3 DEF PathAvoidsDead, Usable
<1> QED BY <1>1, <1>2 DEF IInv, BuiltSound
-----------------------------------------------------------------------------
(* What a node reads is what the manager wrote. *)

LEMMA Int10Is ==
    ASSUME NEW i \in 0..100
    PROVE  Int10(ToString(i)) = i
BY TextAssumption DEF Int10

LEMMA DictIs ==
    ASSUME NEW D \in SUBSET (0..100), NEW f, f = [i \in D |-> f[i]]
    PROVE  Dict(Json(f)) = f
<1> DEFINE texts == {ToString(i) : i \in D}
           at(key) == CHOOSE i \in D : ToString(i) = key
           g == [key \in texts |-> f[at(key)]]
<1>1. DOMAIN f = D OBVIOUS
<1>2. Json(f) = g BY <1>1 DEF Json
<1>3. \A i \in D : at(ToString(i)) = i BY TextAssumption
<1> HIDE DEF at
<1>4. DOMAIN g = texts /\ \A i \in D : g[ToString(i)] = f[i] BY <1>3
<1> HIDE DEF g
<1>5. {Int10(key) : key \in DOMAIN g} = D
  <2>1. \A i \in D : Int10(ToString(i)) = i BY Int10Is
  <2> QED BY <1>4, <2>1
<1>6. Dict(g) = [i \in D |-> g[ToString(i)]] BY <1>5 DEF Dict
<1>7. [i \in D |-> g[ToString(i)]] = [i \in D |-> f[i]] BY <1>4
<1> QED BY <1>2, <1>6, <1>7

\* A request that could be accepted.
IsRequest(c) ==
    /\ \A key \in NumberFields : c[key] \in Int
    /\ c.n_nodes \in 1..100 /\ c.n_rounds \in 1..100 /\ c.max_hops \in 1..5
    /\ c.graph_degree >= 2
    /\ c.n_byzantine \in 0..100 /\ c.n_join_late \in 0..100 /\ c.n_exit_early \in 0..100
    /\ c.n_byzantine < c.n_nodes
    /\ c.n_join_late + c.n_exit_early + c.n_byzantine <= c.n_nodes

FieldNames == {"n_nodes", "graph_degree", "n_rounds", "max_hops", "n_byzantine",
               "n_join_late", "n_exit_early"}

LEMMA SchemaIs ==
    /\ Fields = FieldNames \cup {"topology_type", "attack_type"}
    /\ NumberFields = FieldNames
    /\ Schema["n_nodes"] = [default |-> 10, min |-> 1, max |-> 100]
    /\ Schema["topology_type"] = [default |-> "full_mesh"]
    /\ Schema["graph_degree"] = [default |-> 4, min |-> 2, max |-> 10]
    /\ Schema["n_rounds"] = [default |-> 10, min |-> 1, max |-> 100]
    /\ Schema["max_hops"] = [default |-> 2, min |-> 1, max |-> 5]
    /\ Schema["attack_type"] = [default |-> "none"]
    /\ Schema["n_byzantine"] = [default |-> 0, min |-> 0, max |-> 99]
    /\ Schema["n_join_late"] = [default |-> 0, min |-> 0, max |-> 39]
    /\ Schema["n_exit_early"] = [default |-> 0, min |-> 0, max |-> 39]
<1> DEFINE network == {"n_nodes", "topology_type", "graph_degree", "n_rounds"}
           hops == {"max_hops"}
           attack == {"attack_type", "n_byzantine"}
           schedule == {"n_join_late", "n_exit_early"}
<1>1. /\ DOMAIN NetworkSchema = network
      /\ NetworkSchema["n_nodes"] = [default |-> 10, min |-> 1, max |-> 100]
      /\ NetworkSchema["topology_type"] = [default |-> "full_mesh"]
      /\ NetworkSchema["graph_degree"] = [default |-> 4, min |-> 2, max |-> 10]
      /\ NetworkSchema["n_rounds"] = [default |-> 10, min |-> 1, max |-> 100]
  BY DEF NetworkSchema
<1>2. /\ DOMAIN HopsSchema = hops
      /\ HopsSchema["max_hops"] = [default |-> 2, min |-> 1, max |-> 5]
  BY DEF HopsSchema
<1>3. /\ DOMAIN AttackSchema = attack
      /\ AttackSchema["attack_type"] = [default |-> "none"]
      /\ AttackSchema["n_byzantine"] = [default |-> 0, min |-> 0, max |-> 99]
  BY DEF AttackSchema
<1>4. /\ DOMAIN ScheduleSchema = schedule
      /\ ScheduleSchema["n_join_late"] = [default |-> 0, min |-> 0, max |-> 39]
      /\ ScheduleSchema["n_exit_early"] = [default |-> 0, min |-> 0, max |-> 39]
  BY DEF ScheduleSchema
<1>5. Fields = network \cup hops \cup attack \cup schedule
  BY <1>1, <1>2, <1>3, <1>4, Zenon DEF Fields, Groups
<1>6. ASSUME NEW group \in Groups, NEW key \in DOMAIN group
      PROVE  Schema[key] = group[key]
  <2>1. \A g \in Groups : key \in DOMAIN g => g = group
    BY <1>1, <1>2, <1>3, <1>4 DEF Groups
  <2>2. key \in Fields BY DEF Fields
  <2>3. (CHOOSE g \in Groups : key \in DOMAIN g) = group BY <2>1
  <2> QED BY <2>2, <2>3 DEF Schema
<1>7. /\ \A key \in network : Schema[key] = NetworkSchema[key]
      /\ \A key \in hops : Schema[key] = HopsSchema[key]
      /\ \A key \in attack : Schema[key] = AttackSchema[key]
      /\ \A key \in schedule : Schema[key] = ScheduleSchema[key]
  BY <1>1, <1>2, <1>3, <1>4, <1>6 DEF Groups
<1>8. Fields = FieldNames \cup {"topology_type", "attack_type"} BY <1>5 DEF FieldNames
<1>9. NumberFields = FieldNames BY <1>8 DEF NumberFields, FieldNames
<1> QED BY <1>1, <1>2, <1>3, <1>4, <1>7, <1>8, <1>9

LEMMA AcceptedIs ==
    ASSUME NEW c, \A key \in NumberFields : c[key] \in Int \cup {NaN}, Accepts(c)
    PROVE  IsRequest(c) /\ Valid(GraphOf(c))
<1>1. \A key \in NumberFields : c[key] \in Int BY DEF Accepts, WithinBounds
<1>2. /\ c.n_nodes \in Int /\ c.graph_degree \in Int /\ c.n_rounds \in Int
      /\ c.max_hops \in Int /\ c.n_byzantine \in Int /\ c.n_join_late \in Int
      /\ c.n_exit_early \in Int
  BY <1>1, SchemaIs DEF FieldNames
<1>3. /\ c.n_nodes \in 1..100 /\ c.n_rounds \in 1..100 /\ c.max_hops \in 1..5
      /\ c.graph_degree >= 2
      /\ c.n_byzantine >= 0 /\ c.n_join_late >= 0 /\ c.n_exit_early >= 0
  BY DEF Accepts, WithinBounds
<1>4. /\ c.n_byzantine < c.n_nodes
      /\ c.n_join_late + c.n_exit_early + c.n_byzantine <= c.n_nodes
  BY DEF Accepts, RolesFit
<1>5. c.n_byzantine \in 0..100 /\ c.n_join_late \in 0..100 /\ c.n_exit_early \in 0..100
  BY <1>2, <1>3, <1>4
<1> QED BY <1>1, <1>3, <1>4, <1>5 DEF IsRequest, Accepts

LEMMA RequestNumbers ==
    ASSUME NEW c, IsRequest(c)
    PROVE  /\ c.n_nodes \in 1..100 /\ c.n_rounds \in 1..100 /\ c.max_hops \in 0..100
           /\ c.n_byzantine \in 0..100 /\ c.n_join_late \in 0..100 /\ c.n_exit_early \in 0..100
           /\ c.n_join_late + c.n_exit_early <= c.n_nodes
           /\ c.n_join_late + c.n_exit_early \in 0..100
           /\ c.n_join_late + c.n_exit_early <= c.n_nodes - c.n_byzantine
<1>1. PICK n \in 1..100 : n = c.n_nodes BY DEF IsRequest
<1>2. PICK b \in 0..100 : b = c.n_byzantine BY DEF IsRequest
<1>3. PICK l \in 0..100 : l = c.n_join_late BY DEF IsRequest
<1>4. PICK e \in 0..100 : e = c.n_exit_early BY DEF IsRequest
<1>5. l + e + b <= n BY <1>1, <1>2, <1>3, <1>4 DEF IsRequest
<1>6. l + e <= n /\ l + e \in 0..100 /\ l + e <= n - b BY <1>5
<1>7. c.n_rounds \in 1..100 /\ c.max_hops \in 1..5 BY DEF IsRequest
<1>8. \A h \in 1..5 : h \in 0..100 OBVIOUS
<1> QED BY <1>1, <1>2, <1>3, <1>4, <1>6, <1>7, <1>8

Adjacency(c) == generate_adjacency(GraphOf(c))

LEMMA RequestGraph ==
    ASSUME NEW c, IsRequest(c), Valid(GraphOf(c))
    PROVE  GraphSound(0..c.n_nodes - 1, Adjacency(c))
<1>1. c.graph_degree \in Int BY SchemaIs DEF IsRequest, FieldNames
<1>2. GraphOf(c).n_nodes \in Nat \ {0} /\ GraphOf(c).degree \in Nat
  BY <1>1 DEF IsRequest, GraphOf
<1>3. GraphSound(NodesOf(GraphOf(c)), Adjacency(c))
  BY <1>2, AdjacencySound DEF Adjacency
<1> QED BY <1>3 DEF NodesOf, GraphOf

\* The store of node i.
Store(c, i) ==
    [node_id |-> i, n_nodes |-> c.n_nodes, max_hops |-> c.max_hops,
     n_byzantine |-> c.n_byzantine,
     join_schedule |-> JoinSchedule(c), exit_schedule |-> ExitSchedule(c),
     neighbors |-> Adjacency(c)[i], topology |-> Adjacency(c)]

\* Each node reads from its environment what the experiment asked for.
LEMMA StoreIs ==
    ASSUME NEW c, IsRequest(c), Valid(GraphOf(c)), NEW i \in 0..c.n_nodes - 1
    PROVE  ConfigStore(EnvOf(c, Adjacency(c), i)) = Store(c, i)
<1> DEFINE n == c.n_nodes
           adj == Adjacency(c)
           env == EnvOf(c, adj, i)
<1>1. n \in 1..100 /\ c.max_hops \in 0..100 /\ c.n_byzantine \in 0..100
      /\ c.n_join_late \in 0..100 /\ c.n_exit_early \in 0..100
      /\ c.n_join_late + c.n_exit_early <= n
  BY RequestNumbers
<1>2. adj \in [0..n - 1 -> SUBSET (0..n - 1)] BY RequestGraph DEF GraphSound
<1>3. 0..n - 1 \subseteq 0..100 /\ i \in 0..100 /\ n \in 0..100 BY <1>1
<1>4. /\ env.NODE_ID = ToString(i) /\ env.N_NODES = ToString(n)
      /\ env.MAX_HOPS = ToString(c.max_hops) /\ env.N_BYZANTINE = ToString(c.n_byzantine)
      /\ env.NEIGHBORS = {ToString(j) : j \in adj[i]}
      /\ env.TOPOLOGY = Json(adj)
      /\ env.JOIN_SCHEDULE = Json(JoinSchedule(c)) /\ env.EXIT_SCHEDULE = Json(ExitSchedule(c))
  BY DEF EnvOf
<1>5. ConfigStore(env) =
        [node_id |-> Int10(env.NODE_ID), n_nodes |-> Int10(env.N_NODES),
         max_hops |-> Int10(env.MAX_HOPS), n_byzantine |-> Int10(env.N_BYZANTINE),
         join_schedule |-> Dict(env.JOIN_SCHEDULE), exit_schedule |-> Dict(env.EXIT_SCHEDULE),
         neighbors |-> {Int10(text) : text \in env.NEIGHBORS}, topology |-> Dict(env.TOPOLOGY)]
  BY DEF ConfigStore
<1> HIDE DEF env
<1>6. /\ Int10(env.NODE_ID) = i /\ Int10(env.N_NODES) = n
      /\ Int10(env.MAX_HOPS) = c.max_hops /\ Int10(env.N_BYZANTINE) = c.n_byzantine
  BY <1>1, <1>3, <1>4, Int10Is
<1>7. Dict(env.TOPOLOGY) = adj
  <2>1. adj = [j \in 0..n - 1 |-> adj[j]] BY <1>2
  <2>2. Dict(Json(adj)) = adj BY <1>3, <2>1, DictIs
  <2> QED BY <1>4, <2>2
<1>8. Dict(env.JOIN_SCHEDULE) = JoinSchedule(c)
  <2> DEFINE D == 0..c.n_join_late - 1
  <2>1. JoinSchedule(c) = [j \in D |-> JoinSchedule(c)[j]] BY DEF JoinSchedule
  <2>2. D \in SUBSET (0..100) BY <1>1
  <2> HIDE DEF D
  <2>3. Dict(Json(JoinSchedule(c))) = JoinSchedule(c) BY <2>1, <2>2, DictIs
  <2> QED BY <1>4, <2>3
<1>9. Dict(env.EXIT_SCHEDULE) = ExitSchedule(c)
  <2> DEFINE D == c.n_join_late..c.n_join_late + c.n_exit_early - 1
  <2>1. ExitSchedule(c) = [j \in D |-> ExitSchedule(c)[j]] BY DEF ExitSchedule
  <2>2. D \in SUBSET (0..100)
    <3>1. PICK l \in 0..100 : l = c.n_join_late BY <1>1
    <3>2. PICK e \in 0..100 : e = c.n_exit_early BY <1>1
    <3>3. l + e \in 0..100 BY <3>1, <3>2, RequestNumbers
    <3>4. l..l + e - 1 \in SUBSET (0..100) BY <3>3
    <3> QED BY <3>1, <3>2, <3>4, Zenon
  <2> HIDE DEF D
  <2>3. Dict(Json(ExitSchedule(c))) = ExitSchedule(c) BY <2>1, <2>2, DictIs
  <2> QED BY <1>4, <2>3
<1>10. {Int10(text) : text \in env.NEIGHBORS} = adj[i]
  <2>1. \A j \in adj[i] : Int10(ToString(j)) = j
    <3>1. \A j \in adj[i] : j \in 0..100 BY <1>2, <1>3
    <3> QED BY <3>1, Int10Is
  <2> QED BY <1>4, <2>1
<1>11. ConfigStore(env) = Store(c, i)
  BY <1>5, <1>6, <1>7, <1>8, <1>9, <1>10, Zenon DEF Store
<1> QED BY <1>11 DEF env

-----------------------------------------------------------------------------
(* The form. *)

\* What a form without errors holds.
FormGood(f) ==
    /\ Number(f.n_nodes) \in 1..100 /\ Number(f.graph_degree) \in 2..10
    /\ Number(f.n_rounds) \in 1..100 /\ Number(f.max_hops) \in 1..5
    /\ Number(f.n_byzantine) \in 0..99
    /\ Number(f.n_join_late) \in 0..39 /\ Number(f.n_exit_early) \in 0..39
    /\ f.topology_type \in {"circulant", "ring_lattice"} =>
         Number(f.graph_degree) % 2 = 0 /\ Number(f.graph_degree) < Number(f.n_nodes)
    /\ f.topology_type = "hypercube" =>
         Number(f.n_nodes) >= 4 /\ PowerOfTwo(Number(f.n_nodes))
    /\ Number(f.n_join_late) + Number(f.n_exit_early) + Number(f.n_byzantine)
         <= Number(f.n_nodes)
    /\ f.attack_type # "none" => Number(f.n_byzantine) # 0

LEMMA NoErrors ==
    ASSUME NEW f
    PROVE  Errors(f) = {} <=> FormGood(f)
<1> DEFINE roles == Number(f.n_join_late) + Number(f.n_exit_early) + Number(f.n_byzantine)
           Ranges == \A key \in FieldNames : ~OutOfRange(f, key)
           Degree == f.topology_type \in {"circulant", "ring_lattice"} =>
                       Number(f.graph_degree) % 2 = 0
                       /\ ~(Number(f.graph_degree) >= Number(f.n_nodes))
           Cube == f.topology_type = "hypercube" =>
                     ~(Number(f.n_nodes) < 4) /\ PowerOfTwo(Number(f.n_nodes))
           Roles == /\ ~(roles > Number(f.n_nodes))
                    /\ f.attack_type # "none" => Number(f.n_byzantine) # 0
<1>1. Errors(f) = {} <=> Ranges /\ Degree /\ Cube /\ Roles
  <2>1. ASSUME NEW key \in FieldNames
        PROVE  key \notin Errors(f) <=>
                 /\ ~OutOfRange(f, key)
                 /\ key = "graph_degree" => Degree
                 /\ key = "n_nodes" => Cube
                 /\ key = "n_byzantine" => Roles
    <3>1. key \in Errors(f) <=>
            \/ OutOfRange(f, key)
            \/ /\ key = "graph_degree" /\ Visible(f, key)
               /\ \/ Number(f.graph_degree) % 2 # 0
                  \/ Number(f.graph_degree) >= Number(f.n_nodes)
            \/ /\ key = "n_nodes" /\ f.topology_type = "hypercube"
               /\ Number(f.n_nodes) < 4 \/ ~PowerOfTwo(Number(f.n_nodes))
            \/ /\ key = "n_byzantine"
               /\ roles > Number(f.n_nodes)
                  \/ (Number(f[key]) = 0 /\ f.attack_type # "none")
      BY SchemaIs DEF Errors
    <3>2. Visible(f, "graph_degree") <=> f.topology_type \in {"circulant", "ring_lattice"}
      BY DEF Visible
    <3> HIDE DEF roles
    <3> QED BY <3>1, <3>2
  <2>2. Errors(f) \subseteq FieldNames BY SchemaIs DEF Errors
  <2>3. {"graph_degree", "n_nodes", "n_byzantine"} \subseteq FieldNames BY DEF FieldNames
  <2> HIDE DEF Degree, Cube, Roles
  <2> QED BY <2>1, <2>2, <2>3
<1>2. Ranges <=>
        /\ Number(f.n_nodes) \in 1..100 /\ Number(f.graph_degree) \in 2..10
        /\ Number(f.n_rounds) \in 1..100 /\ Number(f.max_hops) \in 1..5
        /\ Number(f.n_byzantine) \in 0..99
        /\ Number(f.n_join_late) \in 0..39 /\ Number(f.n_exit_early) \in 0..39
  BY SchemaIs DEF OutOfRange, FieldNames
<1>3. ASSUME Ranges
      PROVE  /\ Number(f.graph_degree) >= Number(f.n_nodes)
                  <=> ~(Number(f.graph_degree) < Number(f.n_nodes))
             /\ Number(f.n_nodes) < 4 <=> ~(Number(f.n_nodes) >= 4)
             /\ roles > Number(f.n_nodes) <=> ~(roles <= Number(f.n_nodes))
  <2>1. PICK n \in Int : n = Number(f.n_nodes) BY <1>2, <1>3
  <2>2. PICK d \in Int : d = Number(f.graph_degree) BY <1>2, <1>3
  <2>3. PICK b \in Int : b = Number(f.n_byzantine) BY <1>2, <1>3
  <2>4. PICK l \in Int : l = Number(f.n_join_late) BY <1>2, <1>3
  <2>5. PICK e \in Int : e = Number(f.n_exit_early) BY <1>2, <1>3
  <2>6. /\ d >= n <=> ~(d < n)
        /\ n < 4 <=> ~(n >= 4)
        /\ l + e + b > n <=> ~(l + e + b <= n)
    OBVIOUS
  <2> QED BY <2>1, <2>2, <2>3, <2>4, <2>5, <2>6, Zenon
<1>4. FormGood(f) <=>
        /\ Ranges
        /\ f.topology_type \in {"circulant", "ring_lattice"} =>
             Number(f.graph_degree) % 2 = 0 /\ Number(f.graph_degree) < Number(f.n_nodes)
        /\ f.topology_type = "hypercube" =>
             Number(f.n_nodes) >= 4 /\ PowerOfTwo(Number(f.n_nodes))
        /\ roles <= Number(f.n_nodes)
        /\ f.attack_type # "none" => Number(f.n_byzantine) # 0
  BY <1>2, Zenon DEF FormGood
<1> HIDE DEF Ranges, roles
<1> QED BY <1>1, <1>3, <1>4

LEMMA DefaultsGood ==
    /\ Errors(DefaultForm) = {}
    /\ DefaultForm = [key \in Fields |-> DefaultForm[key]]
    /\ DefaultForm.attack_type = "none" /\ DefaultForm.n_byzantine = Plain(0)
    /\ \A key \in NumberFields : DefaultForm[key].digits \in Int
<1>1. /\ Defaults.n_nodes = 10 /\ Defaults.topology_type = "full_mesh"
      /\ Defaults.graph_degree = 4 /\ Defaults.n_rounds = 10 /\ Defaults.max_hops = 2
      /\ Defaults.attack_type = "none" /\ Defaults.n_byzantine = 0
      /\ Defaults.n_join_late = 0 /\ Defaults.n_exit_early = 0
  BY SchemaIs DEF Defaults, FieldNames
<1>2. /\ \A key \in FieldNames : DefaultForm[key] = Plain(Defaults[key])
      /\ DefaultForm.topology_type = "full_mesh" /\ DefaultForm.attack_type = "none"
  BY <1>1, SchemaIs DEF DefaultForm, FieldNames
<1>3. \A v : Number(Plain(v)) = v /\ Plain(v).digits = v BY DEF Number, Plain, Text
<1>4. /\ Number(DefaultForm.n_nodes) = 10 /\ Number(DefaultForm.graph_degree) = 4
      /\ Number(DefaultForm.n_rounds) = 10 /\ Number(DefaultForm.max_hops) = 2
      /\ Number(DefaultForm.n_byzantine) = 0
      /\ Number(DefaultForm.n_join_late) = 0 /\ Number(DefaultForm.n_exit_early) = 0
  BY <1>1, <1>2, <1>3 DEF FieldNames
<1>5. FormGood(DefaultForm) BY <1>2, <1>4 DEF FormGood
<1>6. DefaultForm = [key \in Fields |-> DefaultForm[key]] BY DEF DefaultForm
<1>7. ASSUME NEW key \in NumberFields PROVE DefaultForm[key].digits \in Int
  <2>1. Defaults[key] \in Int BY <1>1, SchemaIs DEF FieldNames
  <2> QED BY <1>2, <1>3, <2>1, SchemaIs
<1>8. DefaultForm.n_byzantine = Plain(0) BY <1>1, <1>2 DEF FieldNames
<1> QED BY <1>2, <1>5, <1>6, <1>7, <1>8, NoErrors

FormSound ==
    /\ errors = Errors(form)
    /\ form = [key \in Fields |-> form[key]]
    /\ form.attack_type = "none" => form.n_byzantine = Plain(0)
    /\ \A key \in NumberFields : form[key].digits \in Int \cup {NaN}

LEMMA UpdateKeeps ==
    ASSUME FormSound, NEW key \in Fields, NEW value \in Entries[key],
           UpdateConfig(key, value)
    PROVE  FormSound'
<1> DEFINE next == [form EXCEPT ![key] = value]
<1>1. /\ form' = [k \in Fields |-> IF Visible(next, k) THEN next[k] ELSE DefaultForm[k]]
      /\ errors' = Errors(form')
  BY DEF UpdateConfig
<1>2. ASSUME NEW k \in NumberFields PROVE form'[k].digits \in Int \cup {NaN}
  <2>1. next[k] = IF k = key THEN value ELSE form[k]
    BY DEF FormSound, NumberFields
  <2>2. k = key => value.digits \in Int \cup {NaN} BY <1>2, EntriesAssumption
  <2>3. next[k].digits \in Int \cup {NaN} BY <2>1, <2>2 DEF FormSound
  <2>4. DefaultForm[k].digits \in Int BY DefaultsGood
  <2>5. form'[k] = next[k] \/ form'[k] = DefaultForm[k] BY <1>1 DEF NumberFields
  <2> QED BY <2>3, <2>4, <2>5
<1> HIDE DEF next
<1>3. form' = [k \in Fields |-> form'[k]] BY <1>1
<1>4. ASSUME form'.attack_type = "none" PROVE form'.n_byzantine = Plain(0)
  <2>1. {"attack_type", "n_byzantine"} \subseteq Fields BY SchemaIs DEF FieldNames
  <2>2. form'.attack_type = next.attack_type BY <1>1, <2>1 DEF Visible
  <2>3. ~Visible(next, "n_byzantine") BY <1>4, <2>2 DEF Visible
  <2> QED BY <1>1, <2>1, <2>3, DefaultsGood
<1> QED BY <1>1, <1>2, <1>3, <1>4 DEF FormSound

-----------------------------------------------------------------------------
(* From the form to the paths. *)

\* The nodes were launched with a request that was accepted.
LaunchSound ==
    stage = "launched" =>
        /\ IsRequest(request) /\ Valid(GraphOf(request))
        /\ envs = [i \in 0..request.n_nodes - 1 |-> EnvOf(request, Adjacency(request), i)]

\* Before the first node has started there are no paths, and no containers in
\* the way of the nodes.
Unstarted == stage \in {"form", "launched"} /\ DOMAIN containers = {} /\ built = NoPath

DeployInv == FormSound /\ LaunchSound /\ (Unstarted \/ IInv)

LEMMA SubmittedNumbers ==
    ASSUME FormSound
    PROVE  \A key \in NumberFields : ConfigForSubmit(form)[key] \in Int \cup {NaN}
<1>1. \A key \in NumberFields : ConfigForSubmit(form)[key] = form[key].digits
  BY DEF ConfigForSubmit, NumberFields
<1> QED BY <1>1 DEF FormSound

LEMMA NoRemainders ==
    ASSUME DOMAIN containers = {}, NEW stopped \in Remainders
    PROVE  DOMAIN stop_all_nodes(stopped) = {}
<1>1. \A k : \A names \in kSubset(k, DOMAIN containers) : names = {}
  BY DEF kSubset
<1>2. PICK names \in UNION {kSubset(k, DOMAIN containers) : k \in 0..MaxLeft} :
        stopped \in [names -> BOOLEAN]
  BY Zenon DEF Remainders
<1>3. names = {}
  <2>1. \A all : names \in UNION {kSubset(k, all) : k \in 0..MaxLeft} =>
          \E k : names \in kSubset(k, all)
    OBVIOUS
  <2> QED BY <1>1, <1>2, <2>1
<1> QED BY <1>2, <1>3 DEF stop_all_nodes

LEMMA LaunchKeeps ==
    ASSUME DeployInv, NEW c, Launch(c),
           \A key \in NumberFields : c[key] \in Int \cup {NaN},
           stage = "form" \/ IInv
    PROVE  DeployInv'
<1>1. /\ Accepts(c) /\ stage' = "launched" /\ request' = c
      /\ \E stopped \in Remainders : containers' = stop_all_nodes(stopped)
      /\ envs' = [i \in 0..c.n_nodes - 1 |-> EnvOf(c, Adjacency(c), i)]
      /\ form' = DefaultForm /\ errors' = {}
      /\ UNCHANGED routing
  BY DEF Launch, Adjacency
<1>2. FormSound' BY <1>1, DefaultsGood, Zenon DEF FormSound
<1>3. LaunchSound'
  <2>1. IsRequest(c) /\ Valid(GraphOf(c)) BY <1>1, AcceptedIs
  <2> QED BY <1>1, <2>1 DEF LaunchSound
<1>4. CASE IInv
  <2>1. UNCHANGED vars BY <1>1 DEF routing, vars
  <2>2. IInv' BY <1>4, <2>1, NextKeeps
  <2> QED BY <1>2, <1>3, <2>2 DEF DeployInv
<1>5. CASE Unstarted
  <2>1. DOMAIN containers' = {} BY <1>1, <1>5, NoRemainders DEF Unstarted
  <2>2. built' = NoPath BY <1>1, <1>5 DEF Unstarted, routing
  <2> QED BY <1>1, <1>2, <1>3, <2>1, <2>2 DEF DeployInv, Unstarted, NoPath
<1> QED BY <1>4, <1>5 DEF DeployInv

LEMMA NodeStartsKeeps ==
    ASSUME DeployInv, NodeStarts
    PROVE  DeployInv'
<1>1. /\ stage = "launched" /\ GraphOf(request) \in Configs /\ stage' = "running"
      /\ UNCHANGED <<form, errors>>
  BY DEF NodeStarts
<1>2. FormSound' /\ LaunchSound'
  <2>1. FormSound' BY <1>1 DEF DeployInv, FormSound
  <2>2. LaunchSound' BY <1>1 DEF LaunchSound
  <2> QED BY <2>1, <2>2
<1>3. CASE Self \in DOMAIN containers
  <2>1. UNCHANGED vars BY <1>3 DEF NodeStarts, routing, vars
  <2>2. IInv BY <1>3 DEF DeployInv, Unstarted
  <2> QED BY <1>2, <2>1, <2>2, NextKeeps DEF DeployInv
<1>4. CASE Self \notin DOMAIN containers
  <2> DEFINE c == GraphOf(request)
  <2>1. /\ IsRequest(request) /\ Valid(c)
        /\ envs = [i \in 0..request.n_nodes - 1 |-> EnvOf(request, Adjacency(request), i)]
    BY <1>1 DEF DeployInv, LaunchSound
  <2>2. Self \in 0..request.n_nodes - 1
    <3>1. \A n \in 1..100 : 0 \in 0..n - 1 OBVIOUS
    <3>2. request.n_nodes \in 1..100 BY <2>1 DEF IsRequest
    <3> QED BY <3>1, <3>2, Zenon DEF Self
  <2>3. ConfigStore(envs[Self]) = Store(request, Self)
    <3>1. envs[Self] = EnvOf(request, Adjacency(request), Self) BY <2>1, <2>2
    <3> QED BY <2>1, <2>2, <3>1, StoreIs
  <2>4. /\ config' = c
        /\ topology' = ConfigStore(envs[Self]).topology
        /\ pool' = PathPool([config' EXCEPT !.max_hops = ConfigStore(envs[Self]).max_hops],
                            ConfigStore(envs[Self]).topology)
        /\ built' = NoPath
    BY <1>4 DEF NodeStarts
  <2>5. /\ ConfigStore(envs[Self]).topology = generate_adjacency(c)
        /\ ConfigStore(envs[Self]).max_hops = request.max_hops
    BY <2>3 DEF Store, Adjacency
  <2>6. [c EXCEPT !.max_hops = request.max_hops] = c BY DEF GraphOf
  <2>7. Graph' BY <1>1, <2>1, <2>4, <2>5, <2>6 DEF Graph
  <2>8. BuiltSound' BY <2>4 DEF BuiltSound, NoPath
  <2> QED BY <1>2, <2>7, <2>8 DEF DeployInv, IInv
<1> QED BY <1>3, <1>4

LEMMA DeployNextKeeps ==
    ASSUME DeployInv, [DeployNext]_allVars
    PROVE  DeployInv'
<1>1. ASSUME UNCHANGED <<stage, form, errors, request, envs, containers>>, [Next]_vars,
             stage = "running" \/ UNCHANGED vars
      PROVE  DeployInv'
  <2>1. FormSound' /\ LaunchSound'
    BY <1>1 DEF DeployInv, FormSound, LaunchSound
  <2>2. CASE IInv
    <3>1. IInv' BY <1>1, <2>2, NextKeeps
    <3> QED BY <2>1, <3>1 DEF DeployInv
  <2>3. CASE Unstarted
    <3>1. Unstarted' BY <1>1, <2>3 DEF Unstarted, vars, NoPath
    <3> QED BY <2>1, <3>1 DEF DeployInv
  <2> QED BY <2>2, <2>3 DEF DeployInv
<1>2. CASE UNCHANGED allVars
  BY <1>1, <1>2 DEF allVars, keys, routing, vars
<1>3. ASSUME NEW key \in Fields, NEW value \in Entries[key], UpdateConfig(key, value)
      PROVE  DeployInv'
  <2>1. FormSound' BY <1>3, UpdateKeeps DEF DeployInv
  <2>2. /\ stage = "form"
        /\ UNCHANGED <<stage, request, envs, containers>> /\ UNCHANGED vars
    BY <1>3 DEF UpdateConfig, keys, routing, vars
  <2>3. LaunchSound' BY <2>2 DEF LaunchSound
  <2>4. CASE IInv
    <3>1. IInv' BY <2>2, <2>4, NextKeeps
    <3> QED BY <2>1, <2>3, <3>1 DEF DeployInv
  <2>5. CASE Unstarted
    <3>1. Unstarted' BY <2>2, <2>5 DEF Unstarted, vars, NoPath
    <3> QED BY <2>1, <2>3, <3>1 DEF DeployInv
  <2> QED BY <2>4, <2>5 DEF DeployInv
<1>4. CASE Start
  BY <1>4, SubmittedNumbers, LaunchKeeps DEF Start, DeployInv
<1>5. CASE Post
  BY <1>5, RequestAssumption, LaunchKeeps DEF Post
<1>6. CASE PostAgain
  <2>1. IInv BY <1>6 DEF PostAgain, DeployInv, Unstarted
  <2> QED BY <1>6, <2>1, RequestAssumption, LaunchKeeps DEF PostAgain
<1>7. CASE NodeStarts BY <1>7, NodeStartsKeeps
<1>8. CASE Route
  <2>1. stage = "running" /\ Next /\ UNCHANGED <<stage, form, errors, request, envs, containers>>
    BY <1>8 DEF Route, keys
  <2> QED BY <1>1, <2>1
<1> QED BY <1>2, <1>3, <1>4, <1>5, <1>6, <1>7, <1>8 DEF DeployNext

THEOREM Invariance == DeploySpec => []DeployInv
<1>1. DeployInit => DeployInv
  <2> SUFFICES ASSUME DeployInit PROVE DeployInv
    OBVIOUS
  <2>1. FormSound BY DefaultsGood DEF DeployInit, FormSound
  <2>2. LaunchSound BY DEF DeployInit, LaunchSound
  <2>3. Unstarted BY DEF DeployInit, Idle, Unstarted
  <2> QED BY <2>1, <2>2, <2>3 DEF DeployInv
<1>2. DeployInv /\ [DeployNext]_allVars => DeployInv'
  BY DeployNextKeeps
<1> QED BY <1>1, <1>2, PTL DEF DeploySpec

\* Whatever is up, a packet and its reply take a path along edges of the graph,
\* of exactly max_hops hops where there is one.
THEOREM PathRoutableAlways == DeploySpec => []PathRoutable
<1>1. Unstarted => PathRoutable
  BY DEF Unstarted, PathRoutable, NoPath
<1>2. DeployInv => PathRoutable
  BY <1>1, IInvRoutable DEF DeployInv
<1> QED BY <1>2, Invariance, PTL

\* A path leads over a peer known to be unreachable only if every path of the
\* pool does, and a packet of the node itself goes to a neighbour without a
\* link only if no path that avoids the unreachable has a linked one.
THEOREM PathAvoidsDeadAlways == DeploySpec => []PathAvoidsDead
<1>1. Unstarted => PathAvoidsDead
  BY DEF Unstarted, PathAvoidsDead, NoPath
<1>2. DeployInv => PathAvoidsDead
  BY <1>1, IInvAvoidsDead DEF DeployInv
<1> QED BY <1>2, Invariance, PTL

-----------------------------------------------------------------------------
(* The roles of the nodes. *)

\* Either every node has neighbours or none has.
AllOrNone(N, adj) == (\A i \in N : adj[i] # {}) \/ (\A i \in N : adj[i] = {})

LEMMA CirculantAllOrNone ==
    ASSUME NEW n \in Nat \ {0}, NEW offsets, offsets # {}
    PROVE  AllOrNone(0..n - 1, CirculantGraph(n, offsets))
<1>1. \A i \in 0..n - 1 : CirculantGraph(n, offsets)[i] # {}
  BY DEF CirculantGraph
<1> QED BY <1>1 DEF AllOrNone

LEMMA HypercubeAllOrNone ==
    ASSUME NEW n \in Nat, n >= 4, PowerOfTwo(n)
    PROVE  AllOrNone(0..n - 1, HypercubeGraph(n))
<1> DEFINE N == 0..n - 1
           weights == {w \in 1..n : PowerOfTwo(w)}
           sets_bit(i, j) == \E w \in weights : (i \div w) % 2 = 0 /\ j = i + w
           adj == [i \in N |-> {j \in N : sets_bit(i, j) \/ sets_bit(j, i)}]
<1>1. HypercubeGraph(n) = adj BY DEF HypercubeGraph
<1>2. 1 \in weights BY DEF PowerOfTwo
<1>3. n % 2 = 0
  <2>1. n \in 2..n /\ n % n = 0 OBVIOUS
  <2> QED BY <2>1 DEF PowerOfTwo
<1>4. ASSUME NEW i \in N PROVE adj[i] # {}
  <2>1. CASE i % 2 = 0
    <3>1. i + 1 \in N BY <1>3, <2>1
    <3>2. i \div 1 = i OBVIOUS
    <3>3. sets_bit(i, i + 1) BY <1>2, <2>1, <3>2
    <3> HIDE DEF sets_bit
    <3> QED BY <3>1, <3>3
  <2>2. CASE i % 2 # 0
    <3>1. i - 1 \in N /\ (i - 1) % 2 = 0 /\ (i - 1) + 1 = i BY <2>2
    <3>2. (i - 1) \div 1 = i - 1 OBVIOUS
    <3>3. sets_bit(i - 1, i) BY <1>2, <3>1, <3>2
    <3> HIDE DEF sets_bit
    <3> QED BY <3>1, <3>3
  <2> QED BY <2>1, <2>2
<1> HIDE DEF adj
<1> QED BY <1>1, <1>4 DEF AllOrNone

LEMMA CompleteAllOrNone ==
    ASSUME NEW n \in Nat \ {0}
    PROVE  AllOrNone(0..n - 1, CompleteGraph(n))
<1>1. CASE n = 1
  <2>1. \A i \in 0..n - 1 : CompleteGraph(n)[i] = {} BY <1>1 DEF CompleteGraph
  <2> QED BY <2>1 DEF AllOrNone
<1>2. CASE n > 1
  <2>1. ASSUME NEW i \in 0..n - 1 PROVE CompleteGraph(n)[i] # {}
    <3>1. IF i = 0 THEN 1 \in CompleteGraph(n)[i] ELSE 0 \in CompleteGraph(n)[i]
      BY <1>2 DEF CompleteGraph
    <3> QED BY <3>1
  <2> QED BY <2>1 DEF AllOrNone
<1> QED BY <1>1, <1>2

LEMMA AdjacencyAllOrNone ==
    ASSUME NEW c, Valid(c), c.n_nodes \in Nat \ {0}, c.degree \in Nat, c.degree >= 2
    PROVE  AllOrNone(NodesOf(c), generate_adjacency(c))
<1>1. PICK n \in Nat \ {0} : n = c.n_nodes OBVIOUS
<1>2. PICK d \in Nat : d = c.degree OBVIOUS
<1> DEFINE half == c.degree \div 2
<1>3. half \in Nat /\ 1 <= half
  <2>1. d >= 2 BY <1>2
  <2>2. d \div 2 \in Nat /\ 1 <= d \div 2 BY <2>1
  <2> QED BY <1>2, <2>2
<1>4. CASE c.type = "circulant"
  <2>1. OffsetsWithin(n, half, n - 1) # {} BY <1>1, <1>4 DEF Valid
  <2>2. BestOffsets(n, half) \in CandidateOffsets(n, half)
    BY <1>3, <2>1, BestOffsetsFound
  <2>3. BestOffsets(n, half) # {}
    <3>1. Cardinality(BestOffsets(n, half)) = half
      BY <2>2 DEF CandidateOffsets, kSubset
    <3> QED BY <1>3, <3>1, FS_EmptySet
  <2>4. AllOrNone(0..n - 1, CirculantGraph(n, BestOffsets(n, half)))
    BY <2>3, CirculantAllOrNone
  <2>5. generate_adjacency(c) = CirculantGraph(n, BestOffsets(n, half))
    BY <1>1, <1>4 DEF generate_adjacency
  <2> QED BY <1>1, <2>4, <2>5 DEF NodesOf
<1>5. CASE c.type = "ring_lattice"
  <2>1. 1..half # {} BY <1>3
  <2>2. AllOrNone(0..n - 1, CirculantGraph(n, 1..half)) BY <2>1, CirculantAllOrNone
  <2>3. generate_adjacency(c) = CirculantGraph(n, 1..half)
    BY <1>1, <1>5 DEF generate_adjacency
  <2> QED BY <1>1, <2>2, <2>3 DEF NodesOf
<1>6. CASE c.type = "hypercube"
  <2>1. n >= 4 /\ PowerOfTwo(n) BY <1>1, <1>6 DEF Valid
  <2>2. AllOrNone(0..n - 1, HypercubeGraph(n)) BY <2>1, HypercubeAllOrNone
  <2>3. generate_adjacency(c) = HypercubeGraph(n) BY <1>1, <1>6 DEF generate_adjacency
  <2> QED BY <1>1, <2>2, <2>3 DEF NodesOf
<1>7. CASE c.type \notin {"circulant", "ring_lattice", "hypercube"}
  <2>1. generate_adjacency(c) = CompleteGraph(n) BY <1>1, <1>7 DEF generate_adjacency
  <2>2. AllOrNone(0..n - 1, CompleteGraph(n)) BY CompleteAllOrNone
  <2> QED BY <1>1, <2>1, <2>2 DEF NodesOf
<1> QED BY <1>4, <1>5, <1>6, <1>7

LEMMA CountOf ==
    ASSUME NEW a \in Nat, NEW k \in Nat
    PROVE  Cardinality(a..a + k - 1) = k
<1>1. a \in Int /\ a + k - 1 \in Int OBVIOUS
<1>2. Cardinality(a..a + k - 1) = IF a > a + k - 1 THEN 0 ELSE a + k - 1 - a + 1
  BY <1>1, FS_Interval
<1> QED BY <1>2

\* The late, the early and the Byzantine nodes.
LEMMA RolesAre ==
    ASSUME NEW c, IsRequest(c), NEW i \in 0..c.n_nodes - 1
    PROVE  /\ my_join_round(Store(c, i)) \in Nat /\ my_exit_round(Store(c, i)) \in Nat
           /\ my_join_round(Store(c, i)) > 0 <=> i \in 0..c.n_join_late - 1
           /\ my_exit_round(Store(c, i)) > 0 =>
                i \in c.n_join_late..c.n_join_late + c.n_exit_early - 1
           /\ c.n_rounds > 1 /\ i \in c.n_join_late..c.n_join_late + c.n_exit_early - 1 =>
                my_exit_round(Store(c, i)) > 0
           /\ is_byzantine(Store(c, i)) <=> i \in c.n_nodes - c.n_byzantine..c.n_nodes - 1
<1>1. PICK n \in 1..100 : n = c.n_nodes BY DEF IsRequest
<1>2. PICK b \in 0..100 : b = c.n_byzantine BY DEF IsRequest
<1>3. PICK l \in 0..100 : l = c.n_join_late BY DEF IsRequest
<1>4. PICK e \in 0..100 : e = c.n_exit_early BY DEF IsRequest
<1>5. PICK r \in 1..100 : r = c.n_rounds BY DEF IsRequest
<1>6. my_join_round(Store(c, i)) = IF i \in 0..l - 1 THEN JoinRound(c) ELSE 0
  BY <1>3, Zenon DEF my_join_round, RoundIn, Store, JoinSchedule
<1>7. my_exit_round(Store(c, i)) = IF i \in l..l + e - 1 THEN ExitRound(c) ELSE 0
  BY <1>3, <1>4, Zenon DEF my_exit_round, RoundIn, Store, ExitSchedule
<1>8. is_byzantine(Store(c, i)) <=> b > 0 /\ i >= n - b
  BY <1>1, <1>2, Zenon DEF is_byzantine, Store
<1>9. JoinRound(c) = IF l > 0 THEN (3 * r + 9) \div 10 ELSE 0
  BY <1>3, <1>5, Zenon DEF JoinRound
<1>10. ExitRound(c) = IF e > 0 THEN r \div 2 ELSE 0
  BY <1>4, <1>5, Zenon DEF ExitRound
<1>11. i \in 0..n - 1 BY <1>1
<1>12. (3 * r + 9) \div 10 \in Nat /\ (3 * r + 9) \div 10 > 0 OBVIOUS
<1>13. r \div 2 \in Nat /\ (r > 1 => r \div 2 > 0) OBVIOUS
<1>14. b > 0 /\ i >= n - b <=> i \in n - b..n - 1 BY <1>11
<1>15. i \in 0..l - 1 => l > 0 BY <1>11
<1>16. i \in l..l + e - 1 => e > 0 BY <1>11
<1>17. /\ my_join_round(Store(c, i)) \in Nat
       /\ my_join_round(Store(c, i)) > 0 <=> i \in 0..l - 1
  BY <1>6, <1>9, <1>12, <1>15
<1>18. /\ my_exit_round(Store(c, i)) \in Nat
       /\ my_exit_round(Store(c, i)) > 0 => i \in l..l + e - 1
       /\ r > 1 /\ i \in l..l + e - 1 => my_exit_round(Store(c, i)) > 0
  BY <1>7, <1>10, <1>13, <1>16
<1> QED
  BY <1>1, <1>2, <1>3, <1>4, <1>5, <1>8, <1>14, <1>17, <1>18, Zenon

LEMMA RolesCounted ==
    ASSUME NEW c, IsRequest(c)
    PROVE  LET nodes == 0..c.n_nodes - 1
               late == {i \in nodes : my_join_round(Store(c, i)) > 0}
               early == {i \in nodes : my_exit_round(Store(c, i)) > 0}
               byzantine == {i \in nodes : is_byzantine(Store(c, i))}
           IN  /\ Cardinality(late) = c.n_join_late
               /\ c.n_rounds > 1 => Cardinality(early) = c.n_exit_early
               /\ Cardinality(byzantine) = c.n_byzantine
               /\ late \cap early = {} /\ (late \cup early) \cap byzantine = {}
<1> DEFINE nodes == 0..c.n_nodes - 1
           late == {i \in nodes : my_join_round(Store(c, i)) > 0}
           early == {i \in nodes : my_exit_round(Store(c, i)) > 0}
           byzantine == {i \in nodes : is_byzantine(Store(c, i))}
<1>1. PICK n \in 1..100 : n = c.n_nodes BY DEF IsRequest
<1>2. PICK b \in 0..100 : b = c.n_byzantine BY DEF IsRequest
<1>3. PICK l \in 0..100 : l = c.n_join_late BY DEF IsRequest
<1>4. PICK e \in 0..100 : e = c.n_exit_early BY DEF IsRequest
<1>5. l + e + b <= n BY <1>1, <1>2, <1>3, <1>4 DEF IsRequest
<1>6. nodes = 0..n - 1 BY <1>1
<1>7. \A i \in nodes :
        /\ i \in late <=> i \in 0..l - 1
        /\ i \in early => i \in l..l + e - 1
        /\ c.n_rounds > 1 /\ i \in l..l + e - 1 => i \in early
        /\ i \in byzantine <=> i \in n - b..n - 1
  BY <1>1, <1>2, <1>3, <1>4, RolesAre, Zenon
<1>8. late \subseteq nodes /\ early \subseteq nodes /\ byzantine \subseteq nodes OBVIOUS
<1> HIDE DEF late, early, byzantine, nodes
<1> DEFINE first == 0..l - 1
           second == l..l + e - 1
           last == n - b..n - 1
<1>9. first \subseteq nodes /\ second \subseteq nodes /\ last \subseteq nodes
  BY <1>5, <1>6
<1>10. first \cap second = {} /\ (first \cup second) \cap last = {} BY <1>5
<1>11. \A i \in nodes :
        /\ i \in late <=> i \in first
        /\ i \in early => i \in second
        /\ c.n_rounds > 1 /\ i \in second => i \in early
        /\ i \in byzantine <=> i \in last
  BY <1>7
<1> HIDE DEF first, second, last
<1>12. late = first /\ byzantine = last BY <1>8, <1>9, <1>11
<1>13. c.n_rounds > 1 => early = second BY <1>8, <1>9, <1>11
<1>14. Cardinality(late) = l
  <2>1. Cardinality(0..0 + l - 1) = l BY CountOf
  <2>2. 0..0 + l - 1 = 0..l - 1 OBVIOUS
  <2> QED BY <1>12, <2>1, <2>2 DEF first
<1>15. Cardinality(byzantine) = b
  <2>1. n - b \in Nat /\ n - b + b - 1 = n - 1 BY <1>5
  <2>2. Cardinality(n - b..n - b + b - 1) = b BY <2>1, CountOf
  <2> QED BY <1>12, <2>1, <2>2 DEF last
<1>16. Cardinality(second) = e BY CountOf DEF second
<1>17. late \cap early = {} /\ (late \cup early) \cap byzantine = {}
  BY <1>8, <1>12, <1>10, <1>11
<1> QED BY <1>2, <1>3, <1>4, <1>13, <1>14, <1>15, <1>16, <1>17
           DEF late, early, byzantine, nodes

\* Whom node i takes for neighbours, and which of two dials.
LEMMA NeighborsMutual ==
    ASSUME NEW c, IsRequest(c), Valid(GraphOf(c)), NEW i \in 0..c.n_nodes - 1,
           NEW j \in NeighborsOf(Store(c, i))
    PROVE  /\ j \in 0..c.n_nodes - 1 /\ j # i
           /\ i \in NeighborsOf(Store(c, j))
<1> DEFINE N == 0..c.n_nodes - 1
           adj == Adjacency(c)
<1>1. GraphSound(N, adj) BY RequestGraph
<1>2. AllOrNone(N, adj)
  <2>1. c.graph_degree \in Int BY SchemaIs DEF IsRequest, FieldNames
  <2>2. PICK d \in Int : d = c.graph_degree BY <2>1
  <2>3. d \in Nat /\ d >= 2 BY <2>2 DEF IsRequest
  <2>4. GraphOf(c).n_nodes \in Nat \ {0} BY DEF IsRequest, GraphOf
  <2>5. GraphOf(c).degree \in Nat /\ GraphOf(c).degree >= 2 BY <2>2, <2>3 DEF GraphOf
  <2>6. AllOrNone(NodesOf(GraphOf(c)), generate_adjacency(GraphOf(c)))
    BY <2>4, <2>5, AdjacencyAllOrNone
  <2> QED BY <2>6 DEF NodesOf, GraphOf, Adjacency
<1>3. \A k \in N : NeighborsOf(Store(c, k)) = IF adj[k] # {} THEN adj[k] ELSE N \ {k}
  BY Zenon DEF NeighborsOf, Store
<1> HIDE DEF N, adj
<1>4. i \in N BY DEF N
<1>5. j \in N /\ j # i /\ i \in NeighborsOf(Store(c, j))
  <2>1. CASE adj[i] # {}
    <3>1. j \in adj[i] BY <1>3, <1>4, <2>1
    <3>2. j \in N /\ j # i /\ i \in adj[j] BY <1>1, <1>4, <3>1 DEF GraphSound
    <3> QED BY <1>3, <3>2
  <2>2. CASE adj[i] = {}
    <3>1. j \in N \ {i} BY <1>3, <1>4, <2>2
    <3>2. adj[j] = {} BY <1>2, <1>4, <2>2, <3>1 DEF AllOrNone
    <3> QED BY <1>3, <1>4, <3>1, <3>2
  <2> QED BY <2>1, <2>2
<1> QED BY <1>5 DEF N

LEMMA OneDials ==
    ASSUME NEW c, IsRequest(c), NEW i \in 0..c.n_nodes - 1, NEW j \in 0..c.n_nodes - 1, i # j
    PROVE  IDial(Store(c, i), j) # IDial(Store(c, j), i)
<1> DEFINE joins(k) == RoundIn(JoinSchedule(c), k)
           named(a, k) == IF (a + k) % 2 = 0 THEN Min({a, k}) ELSE Max({a, k})
<1>1. i \in Int /\ j \in Int OBVIOUS
<1>2. joins(i) \in Int /\ joins(j) \in Int
  <2>1. my_join_round(Store(c, i)) = joins(i) /\ my_join_round(Store(c, j)) = joins(j)
    BY Zenon DEF my_join_round, Store
  <2>2. my_join_round(Store(c, i)) \in Nat /\ my_join_round(Store(c, j)) \in Nat
    BY RolesAre
  <2> QED BY <2>1, <2>2
<1>3. IDial(Store(c, i), j) = IF joins(i) # joins(j) THEN joins(i) > joins(j) ELSE i = named(i, j)
  BY Zenon DEF IDial, Store, my_join_round
<1>4. IDial(Store(c, j), i) = IF joins(j) # joins(i) THEN joins(j) > joins(i) ELSE j = named(j, i)
  BY Zenon DEF IDial, Store, my_join_round
<1>5. named(i, j) = named(j, i)
  <2>1. {i, j} = {j, i} /\ i + j = j + i BY <1>1
  <2> QED BY <2>1
<1>6. named(i, j) \in {i, j}
  <2>1. Min({i, j}) \in {i, j} BY <1>1 DEF Min
  <2>2. Max({i, j}) \in {i, j} BY <1>1 DEF Max
  <2> QED BY <2>1, <2>2
<1> HIDE DEF joins, named
<1>7. joins(i) # joins(j) => (joins(i) > joins(j) <=> ~(joins(j) > joins(i))) BY <1>2
<1>8. (i = named(i, j)) <=> ~(j = named(i, j)) BY <1>6
<1> QED BY <1>3, <1>4, <1>5, <1>7, <1>8, Zenon

\* What RolesAsPlanned says of the launched nodes and their configurations.
RolesIn(nodes, store) ==
    LET late == {i \in nodes : my_join_round(store[i]) > 0}
        early == {i \in nodes : my_exit_round(store[i]) > 0}
        byzantine == {i \in nodes : is_byzantine(store[i])}
    IN  /\ Cardinality(late) = request.n_join_late
        /\ request.n_rounds > 1 => Cardinality(early) = request.n_exit_early
        /\ Cardinality(byzantine) = request.n_byzantine
        /\ late \cap early = {} /\ (late \cup early) \cap byzantine = {}
        /\ \A i \in nodes : \A j \in NeighborsOf(store[i]) :
               /\ i \in NeighborsOf(store[j])
               /\ IDial(store[i], j) # IDial(store[j], i)

\* The nodes read from their environments what the experiment asked for: the
\* roles, each with as many nodes and no two of them on one, neighbours that know
\* each other, and of each pair one that dials.
THEOREM RolesAsPlannedAlways == DeploySpec => []RolesAsPlanned
<1>1. DeployInv => RolesAsPlanned
  <2> SUFFICES ASSUME DeployInv, stage = "launched" PROVE RolesAsPlanned
    BY DEF RolesAsPlanned
  <2> DEFINE c == request
             nodes == 0..c.n_nodes - 1
             store == [i \in nodes |-> Store(c, i)]
  <2>1. /\ IsRequest(c) /\ Valid(GraphOf(c))
        /\ envs = [i \in nodes |-> EnvOf(c, Adjacency(c), i)]
    BY DEF DeployInv, LaunchSound
  <2>2. DOMAIN envs = nodes BY <2>1
  <2>3. [i \in nodes |-> ConfigStore(envs[i])] = store
    <3>1. \A i \in nodes : ConfigStore(envs[i]) = Store(c, i)
      <4>1. \A i \in nodes : envs[i] = EnvOf(c, Adjacency(c), i) BY <2>1
      <4>2. \A i \in nodes : ConfigStore(EnvOf(c, Adjacency(c), i)) = Store(c, i)
        BY <2>1, StoreIs
      <4> QED BY <4>1, <4>2
    <3> QED BY <3>1
  <2> DEFINE late == {i \in nodes : my_join_round(store[i]) > 0}
             early == {i \in nodes : my_exit_round(store[i]) > 0}
             byzantine == {i \in nodes : is_byzantine(store[i])}
  <2>4. /\ late = {i \in nodes : my_join_round(Store(c, i)) > 0}
        /\ early = {i \in nodes : my_exit_round(Store(c, i)) > 0}
        /\ byzantine = {i \in nodes : is_byzantine(Store(c, i))}
    OBVIOUS
  <2>5. /\ Cardinality(late) = c.n_join_late
        /\ c.n_rounds > 1 => Cardinality(early) = c.n_exit_early
        /\ Cardinality(byzantine) = c.n_byzantine
        /\ late \cap early = {} /\ (late \cup early) \cap byzantine = {}
    BY <2>1, <2>4, RolesCounted, Zenon
  <2>6. ASSUME NEW i \in nodes, NEW j \in NeighborsOf(store[i])
        PROVE  /\ i \in NeighborsOf(store[j])
               /\ IDial(store[i], j) # IDial(store[j], i)
    <3>1. store[i] = Store(c, i) OBVIOUS
    <3>2. j \in nodes /\ j # i /\ i \in NeighborsOf(Store(c, j))
      BY <2>1, <3>1, NeighborsMutual, Zenon
    <3>3. store[j] = Store(c, j) BY <3>2
    <3>4. IDial(Store(c, i), j) # IDial(Store(c, j), i) BY <2>1, <3>2, OneDials
    <3> QED BY <3>1, <3>2, <3>3, <3>4
  <2>7. RolesIn(nodes, store)
    <3> HIDE DEF late, early, byzantine, store, nodes
    <3> QED BY <2>5, <2>6, Zenon DEF RolesIn, late, early, byzantine
  <2>8. RolesIn(DOMAIN envs, [i \in DOMAIN envs |-> ConfigStore(envs[i])])
    <3> HIDE DEF late, early, byzantine, store, nodes
    <3> QED BY <2>2, <2>3, <2>7
  <2> QED BY <2>8, Zenon DEF RolesAsPlanned, RolesIn
<1> QED BY <1>1, Invariance, PTL

-----------------------------------------------------------------------------
(* The graphs of the forms the dashboard submits. *)

\* The nodes at most a hop further, as Ball finds them.
Wider(adj, nodes) == nodes \cup UNION {adj[i] : i \in nodes}

Balls(ball, adj, src, hops) ==
    /\ ball[0] = {src}
    /\ \A h \in 1..hops : ball[h] = Wider(adj, ball[h - 1])
    /\ Ball(adj, src, hops) = ball[hops]

LEMMA BallsExist ==
    ASSUME NEW N, NEW adj \in [N -> SUBSET N], NEW src \in N, NEW hops \in Nat
    PROVE  \E ball : Balls(ball, adj, src, hops)
<1> DEFINE ball ==
      CHOOSE ball : ball =
        [h \in 0..hops |->
            IF h = 0 THEN {src} ELSE ball[h - 1] \cup UNION {adj[j] : j \in ball[h - 1]}]
<1>1. Ball(adj, src, hops) = ball[hops]
  BY DEF Ball
<1> DEFINE g == CHOOSE g : g = [h \in 0..hops |-> IF h = 0 THEN {src}
                                   ELSE Wider(adj, g[h - 1])]
<1>2. ball = g BY DEF Wider
<1> HIDE DEF ball
<1> DEFINE U == SUBSET N
           F == [ns \in U |-> Wider(adj, ns)]
<1>3. ASSUME NEW ns \in U PROVE Wider(adj, ns) \in U
  BY DEF Wider
<1>4. F \in [U -> U] BY <1>3
<1>5. {src} \in U OBVIOUS
<1>6. \A ns \in U : F[ns] = Wider(adj, ns) OBVIOUS
<1> HIDE DEF U, F
<1>7. PICK f \in [0..hops -> U] : Iterates(f, F, {src}, hops)
  BY <1>4, <1>5, IterateExists
<1>8. f = [h \in 0..hops |-> IF h = 0 THEN {src} ELSE Wider(adj, f[h - 1])]
  <2>1. \A h \in 0..hops : h # 0 => F[f[h - 1]] = Wider(adj, f[h - 1])
    <3>1. \A h \in 0..hops : h # 0 => f[h - 1] \in U OBVIOUS
    <3> QED BY <1>6, <3>1
  <2> QED BY <1>7, <2>1 DEF Iterates
<1>9. g = [h \in 0..hops |-> IF h = 0 THEN {src} ELSE Wider(adj, g[h - 1])]
  BY <1>8, Zenon
<1> HIDE DEF g
<1>10. g[0] = {src} /\ \A h \in 1..hops : g[h] = Wider(adj, g[h - 1])
  <2>1. \A h \in 0..hops : g[h] = IF h = 0 THEN {src} ELSE Wider(adj, g[h - 1])
    BY <1>9, Zenon
  <2>2. 0 \in 0..hops /\ \A h \in 1..hops : h \in 0..hops /\ h # 0 OBVIOUS
  <2> QED BY <2>1, <2>2, Zenon
<1> QED BY <1>1, <1>2, <1>10 DEF Balls

\* The node m steps after i.
After(n, i, m) == IF i + m < n THEN i + m ELSE i + m - n

\* A ring on which each node knows the next is gone round in n - 1 hops.
LEMMA RingSpans ==
    ASSUME NEW n \in Nat \ {0}, NEW offsets \in SUBSET (1..n - 1), 1 \in offsets
    PROVE  Spans(CirculantGraph(n, offsets), n - 1)
<1> DEFINE N == 0..n - 1
           adj == CirculantGraph(n, offsets)
<1>1. adj \in [N -> SUBSET N] /\ DOMAIN adj = N
  <2>1. adj \in [N -> SUBSET N] BY CirculantSound DEF GraphSound
  <2> QED BY <2>1
<1>2. ASSUME NEW i \in N PROVE After(n, i, 1) \in adj[i]
  <2>1. (i + 1) % n \in adj[i] BY DEF CirculantGraph
  <2>2. 1 \in 1..n - 1 OBVIOUS
  <2>3. (i + 1) % n = After(n, i, 1) BY <2>2, AroundTheRing DEF After
  <2> QED BY <2>1, <2>3
<1> SUFFICES ASSUME NEW i \in N PROVE Ball(adj, i, n - 1) = N
  BY <1>1 DEF Spans
<1> HIDE DEF adj
<1>3. n - 1 \in Nat OBVIOUS
<1>4. PICK ball : Balls(ball, adj, i, n - 1) BY <1>1, <1>3, BallsExist
<1> DEFINE Good(h) == /\ ball[h] \in SUBSET N
                      /\ \A m \in 0..h : After(n, i, m) \in ball[h]
           T == {h \in 0..n - 1 : ~Good(h)}
<1>5. T = {}
  <2> SUFFICES ASSUME T # {} PROVE FALSE
    OBVIOUS
  <2>1. T \subseteq Nat OBVIOUS
  <2>2. PICK h \in T : \A y \in T : h <= y
    <3> HIDE DEF T
    <3> QED BY <2>1, LeastOf
  <2>3. h \in 0..n - 1 /\ ~Good(h) BY <2>2
  <2>4. CASE h = 0
    <3>1. ball[h] = {i} BY <1>4, <2>4 DEF Balls
    <3>2. \A m \in 0..h : After(n, i, m) = i BY <2>4 DEF After
    <3>3. Good(h) BY <3>1, <3>2
    <3> QED BY <2>3, <3>3
  <2>5. CASE h # 0
    <3>1. h \in 1..n - 1 /\ h - 1 \in 0..n - 1 /\ ~(h <= h - 1) BY <2>3, <2>5
    <3>2. Good(h - 1) BY <2>2, <3>1
    <3>3. ball[h] = Wider(adj, ball[h - 1]) BY <1>4, <3>1 DEF Balls
    <3>4. ball[h - 1] \in SUBSET N /\ \A m \in 0..h - 1 : After(n, i, m) \in ball[h - 1]
      BY <3>2
    <3>5. ball[h] \in SUBSET N BY <1>1, <3>3, <3>4 DEF Wider
    <3>6. ASSUME NEW m \in 0..h PROVE After(n, i, m) \in ball[h]
      <4>1. CASE m # h
        <5>1. m \in 0..h - 1 BY <3>1, <4>1
        <5> QED BY <3>3, <3>4, <5>1 DEF Wider
      <4>2. CASE m = h
        <5>1. h - 1 \in 0..h - 1 BY <3>1
        <5>2. After(n, i, h - 1) \in ball[h - 1] BY <3>4, <5>1
        <5>3. After(n, i, h - 1) \in N BY <3>4, <5>2
        <5>4. After(n, After(n, i, h - 1), 1) = After(n, i, h) BY <3>1 DEF After
        <5>5. After(n, i, h) \in adj[After(n, i, h - 1)] BY <1>2, <5>3, <5>4
        <5> QED BY <3>3, <4>2, <5>2, <5>5 DEF Wider
      <4> QED BY <4>1, <4>2
    <3>7. Good(h) BY <3>5, <3>6
    <3> QED BY <2>3, <3>7
  <2> QED BY <2>4, <2>5
<1>6. n - 1 \in 0..n - 1 OBVIOUS
<1>7. Good(n - 1) BY <1>5, <1>6
<1>8. ASSUME NEW j \in N PROVE j \in ball[n - 1]
  <2> DEFINE m == IF i <= j THEN j - i ELSE j - i + n
  <2>1. m \in 0..n - 1 /\ After(n, i, m) = j BY DEF After
  <2> HIDE DEF m
  <2> QED BY <1>7, <2>1
<1>9. ball[n - 1] = N BY <1>7, <1>8
<1> QED BY <1>4, <1>9 DEF Balls

\* A circulant is found for an even degree less than the number of nodes,
\* unless that is even and the degree is 2.
LEMMA OffsetsExist ==
    ASSUME NEW n \in Nat \ {0}, NEW half \in Nat \ {0}, 2 * half < n,
           half = 1 => n % 2 # 0
    PROVE  OffsetsWithin(n, half, n - 1) # {}
<1> DEFINE offsets == 1..half
<1>1. half <= (n - 1) \div 2 BY Z3
<1>2. offsets \in SUBSET (1..(n - 1) \div 2) BY <1>1
<1>3. Cardinality(offsets) = half
  <2>1. Cardinality(1..1 + half - 1) = half BY CountOf
  <2>2. 1 + half - 1 = half OBVIOUS
  <2> QED BY <2>1, <2>2
<1>4. offsets \in kSubset(half, 1..(n - 1) \div 2) BY <1>2, <1>3 DEF kSubset
<1>5. 1 \in offsets OBVIOUS
<1>6. Gcd1(n, offsets)
  <2>1. \A d \in 2..n : 1 % d # 0 OBVIOUS
  <2> QED BY <1>5, <2>1 DEF Gcd1
<1>7. ~(n % 2 = 0 /\ Cardinality({s % 2 : s \in offsets}) = 1)
  <2> SUFFICES ASSUME n % 2 = 0, Cardinality({s % 2 : s \in offsets}) = 1
               PROVE  FALSE
    OBVIOUS
  <2>1. 2 \in offsets OBVIOUS
  <2>2. 1 % 2 = 1 /\ 2 % 2 = 0 OBVIOUS
  <2>3. {s % 2 : s \in offsets} = {0, 1}
    <3>1. \A s \in offsets : s % 2 \in {0, 1} OBVIOUS
    <3> HIDE DEF offsets
    <3> QED BY <1>5, <2>1, <2>2, <3>1
  <2>4. Cardinality({0, 1}) = 2
    <3>1. {0, 1} = 0..0 + 2 - 1 OBVIOUS
    <3>2. Cardinality(0..0 + 2 - 1) = 2 BY CountOf
    <3> QED BY <3>1, <3>2
  <2> HIDE DEF offsets
  <2>5. Cardinality({0, 1}) = 1 BY <2>3
  <2> QED BY <2>4, <2>5
<1>8. offsets \in CandidateOffsets(n, half) BY <1>4, <1>6, <1>7 DEF CandidateOffsets
<1>9. Spans(CirculantGraph(n, offsets), n - 1)
  <2>1. offsets \in SUBSET (1..n - 1) OBVIOUS
  <2> HIDE DEF offsets
  <2> QED BY <1>5, <2>1, RingSpans
<1>10. n - 1 \in 0..n - 1 OBVIOUS
<1> QED BY <1>8, <1>9, <1>10 DEF OffsetsWithin

\* A form without errors is accepted as it is submitted, but for the three
\* exceptions.
THEOREM FormAgreesAlways == DeploySpec => []FormAgrees
<1>1. DeployInv => FormAgrees
  <2> DEFINE c == ConfigForSubmit(form)
  <2> SUFFICES ASSUME DeployInv, stage = "form", errors = {}, ReadAlike(form),
                      Number(form.n_byzantine) # Number(form.n_nodes),
                      ~(form.topology_type = "circulant" /\ Number(form.graph_degree) = 2
                          /\ Number(form.n_nodes) % 2 = 0)
               PROVE  Accepts(c)
    BY DEF FormAgrees
  <2>1. FormSound /\ FormGood(form) BY NoErrors DEF DeployInv, FormSound
  <2>2. \A key \in FieldNames : c[key] = Number(form[key])
    BY SchemaIs DEF ConfigForSubmit, ReadAlike, Number
  <2>3. c.topology_type = form.topology_type /\ c.attack_type = form.attack_type
    BY SchemaIs DEF ConfigForSubmit, FieldNames
  <2>4. /\ c.n_nodes = Number(form.n_nodes) /\ c.graph_degree = Number(form.graph_degree)
        /\ c.n_rounds = Number(form.n_rounds) /\ c.max_hops = Number(form.max_hops)
        /\ c.n_byzantine = Number(form.n_byzantine)
        /\ c.n_join_late = Number(form.n_join_late)
        /\ c.n_exit_early = Number(form.n_exit_early)
    BY <2>2 DEF FieldNames
  <2> HIDE DEF c
  <2>5. PICK n \in 1..100 : n = c.n_nodes BY <2>1, <2>4 DEF FormGood
  <2>6. PICK d \in 2..10 : d = c.graph_degree BY <2>1, <2>4 DEF FormGood
  <2>7. PICK r \in 1..100 : r = c.n_rounds BY <2>1, <2>4 DEF FormGood
  <2>8. PICK h \in 1..5 : h = c.max_hops BY <2>1, <2>4 DEF FormGood
  <2>9. PICK l \in 0..39 : l = c.n_join_late BY <2>1, <2>4 DEF FormGood
  <2>10. PICK e \in 0..39 : e = c.n_exit_early BY <2>1, <2>4 DEF FormGood
  <2>11. PICK b \in 0..99 : b = c.n_byzantine /\ ((b > 0) <=> (c.attack_type # "none"))
    <3>1. PICK b \in 0..99 : b = c.n_byzantine BY <2>1, <2>4 DEF FormGood
    <3>2. c.attack_type # "none" => b # 0 BY <2>1, <2>3, <2>4, <3>1 DEF FormGood
    <3>3. c.attack_type = "none" => b = 0
      <4>1. Number(Plain(0)) = 0 BY DEF Number, Plain, Text
      <4> QED BY <2>1, <2>3, <2>4, <3>1, <4>1 DEF FormSound
    <3>4. b > 0 <=> b # 0 OBVIOUS
    <3> QED BY <3>1, <3>2, <3>3, <3>4
  <2>12. l + e + b <= n /\ b # n
    BY <2>1, <2>4, <2>5, <2>9, <2>10, <2>11 DEF FormGood
  <2>13. WithinBounds(c)
    <3>1. \A key \in FieldNames : c[key] # NaN
      BY <2>5, <2>6, <2>7, <2>8, <2>9, <2>10, <2>11, DeploymentAssumption DEF FieldNames
    <3>2. d >= 2 /\ b >= 0 /\ l >= 0 /\ e >= 0 OBVIOUS
    <3> QED BY <2>5, <2>6, <2>7, <2>8, <2>9, <2>10, <2>11, <3>1, <3>2, SchemaIs, Zenon
            DEF WithinBounds
  <2>14. RolesFit(c)
    <3>1. b < n /\ l + e + b <= n BY <2>12
    <3>2. (b > 0) = (c.attack_type # "none") BY <2>11
    <3> QED BY <2>5, <2>9, <2>10, <2>11, <3>1, <3>2, Zenon DEF RolesFit
  <2>15. Valid(GraphOf(c))
    <3> DEFINE g == GraphOf(c)
    <3>1. g.type = c.topology_type /\ g.n_nodes = n /\ g.degree = d
      BY <2>5, <2>6 DEF GraphOf
    <3>2. /\ g.type \in {"circulant", "ring_lattice"} => d % 2 = 0 /\ d < n
          /\ g.type = "hypercube" => n >= 4 /\ PowerOfTwo(n)
      BY <2>1, <2>3, <2>4, <2>5, <2>6, <3>1 DEF FormGood
    <3>3. ASSUME g.type = "circulant" PROVE OffsetsWithin(n, d \div 2, n - 1) # {}
      <4>1. d % 2 = 0 /\ d < n BY <3>2, <3>3
      <4>2. d = 2 => n % 2 # 0 BY <2>3, <2>4, <2>5, <2>6, <3>1, <3>3
      <4>3. PICK half \in 1..5 : half = d \div 2 /\ d = 2 * half BY <4>1
      <4>4. half = 1 => d = 2 BY <4>3
      <4>5. half \in Nat \ {0} /\ n \in Nat \ {0} /\ 2 * half < n BY <4>1, <4>3
      <4> QED BY <4>2, <4>3, <4>4, <4>5, OffsetsExist
    <3> HIDE DEF g
    <3>4. Valid(g) BY <3>1, <3>2, <3>3 DEF Valid
    <3> QED BY <3>4 DEF g
  <2> QED BY <2>13, <2>14, <2>15 DEF Accepts, c
<1> QED BY <1>1, Invariance, PTL

-----------------------------------------------------------------------------
(* The keys of a run. *)

\* The containers hold the runs they were launched in, those of a run that
\* reports no error exactly its nodes.
KeysInv ==
    /\ stage \in {"form", "launched", "running"}
    /\ made \in Seq(Nat)
    /\ containers = [s \in DOMAIN containers |-> containers[s]]
    /\ \A s \in DOMAIN containers :
         /\ containers[s] \in [run : Nat, exited : BOOLEAN]
         /\ containers[s].run \in 1..Len(made)
         /\ s \in 0..made[containers[s].run] - 1
    /\ stage = "form" => made = <<>>
    /\ stage = "launched" =>
         /\ Len(made) > 0 /\ made[Len(made)] = request.n_nodes
         /\ \A s \in DOMAIN containers : containers[s].run < Len(made)
         /\ failed = (DOMAIN containers \cap 0..request.n_nodes - 1 # {})
    /\ stage = "running" /\ ~failed =>
         /\ Len(made) > 0 /\ DOMAIN topology = 0..made[Len(made)] - 1
         /\ DOMAIN topology \subseteq DOMAIN containers
         /\ \A s \in DOMAIN containers :
              IF s \in DOMAIN topology THEN containers[s].run = Len(made)
              ELSE containers[s].run < Len(made)

LEMMA LaunchKeepsKeys ==
    ASSUME KeysInv, NEW c, Launch(c), c.n_nodes \in Nat
    PROVE  KeysInv'
<1> DEFINE n == c.n_nodes
           nodes == 0..n - 1
<1>1. PICK stopped \in Remainders :
        /\ stage' = "launched" /\ request' = c
        /\ made' = Append(made, n)
        /\ containers' = stop_all_nodes(stopped)
        /\ failed' = (DOMAIN containers' \cap nodes # {})
  BY DEF Launch
<1>2. DOMAIN stopped \subseteq DOMAIN containers
      /\ \A s \in DOMAIN stopped : stopped[s] \in BOOLEAN
  <2>1. PICK names \in UNION {kSubset(k, DOMAIN containers) : k \in 0..MaxLeft} :
          stopped \in [names -> BOOLEAN]
    BY Zenon DEF Remainders
  <2>2. \A k, all : kSubset(k, all) \subseteq SUBSET all BY DEF kSubset
  <2>3. names \subseteq DOMAIN containers
    <3>1. \A all : names \in UNION {kSubset(k, all) : k \in 0..MaxLeft} =>
            \E k : names \in kSubset(k, all)
      OBVIOUS
    <3> QED BY <2>1, <2>2, <3>1
  <2> QED BY <2>1, <2>3
<1>3. containers' = [s \in DOMAIN stopped |-> [containers[s] EXCEPT !.exited = stopped[s]]]
  BY <1>1 DEF stop_all_nodes
<1> DEFINE L == Len(made)
<1>4. /\ made \in Seq(Nat) /\ L \in Nat /\ made' \in Seq(Nat) /\ Len(made') = L + 1
      /\ made'[L + 1] = n /\ \A r \in 1..L : made'[r] = made[r]
  BY <1>1, AppendProperties DEF KeysInv
<1>5. ASSUME NEW s \in DOMAIN stopped
      PROVE  /\ containers'[s] \in [run : Nat, exited : BOOLEAN]
             /\ containers'[s].run = containers[s].run
             /\ containers'[s].run \in 1..L
             /\ s \in 0..made'[containers'[s].run] - 1
  <2>1. s \in DOMAIN containers /\ stopped[s] \in BOOLEAN BY <1>2
  <2>2. /\ containers[s] \in [run : Nat, exited : BOOLEAN]
        /\ containers[s].run \in 1..L /\ s \in 0..made[containers[s].run] - 1
    BY <2>1 DEF KeysInv
  <2>3. containers'[s] = [containers[s] EXCEPT !.exited = stopped[s]] BY <1>3
  <2>4. containers'[s] \in [run : Nat, exited : BOOLEAN]
        /\ containers'[s].run = containers[s].run
    BY <2>1, <2>2, <2>3
  <2>5. made'[containers'[s].run] = made[containers[s].run] BY <1>4, <2>2, <2>4
  <2> QED BY <2>2, <2>4, <2>5
<1>6. DOMAIN containers' = DOMAIN stopped
      /\ containers' = [s \in DOMAIN containers' |-> containers'[s]]
  BY <1>3
<1>7. \A s \in DOMAIN containers' :
        /\ containers'[s] \in [run : Nat, exited : BOOLEAN]
        /\ containers'[s].run \in 1..Len(made')
        /\ s \in 0..made'[containers'[s].run] - 1
        /\ containers'[s].run < Len(made')
  <2>1. \A r \in 1..L : r \in 1..L + 1 /\ r < L + 1 BY <1>4
  <2> QED BY <1>4, <1>5, <1>6, <2>1
<1>8. Len(made') > 0 /\ made'[Len(made')] = request'.n_nodes
      /\ failed' = (DOMAIN containers' \cap 0..request'.n_nodes - 1 # {})
  BY <1>1, <1>4
<1> HIDE DEF L
<1> QED BY <1>1, <1>4, <1>6, <1>7, <1>8 DEF KeysInv

LEMMA NodeStartsKeepsKeys ==
    ASSUME KeysInv, DeployInv, NodeStarts
    PROVE  KeysInv'
<1> DEFINE c == request
           nodes == 0..c.n_nodes - 1
           L == Len(made)
           started == [i \in nodes |-> [run |-> L, exited |-> FALSE]]
<1>1. stage = "launched" /\ stage' = "running" /\ UNCHANGED <<failed, made>>
  BY DEF NodeStarts
<1>2. /\ IsRequest(c) /\ Valid(GraphOf(c))
      /\ envs = [i \in nodes |-> EnvOf(c, Adjacency(c), i)]
  BY <1>1 DEF DeployInv, LaunchSound
<1>3. containers' = Over(containers, started)
  <2>1. DOMAIN envs = nodes BY <1>2
  <2> QED BY <2>1 DEF NodeStarts, run
<1>4. /\ made \in Seq(Nat) /\ L \in Nat /\ L > 0 /\ made[L] = c.n_nodes
      /\ \A s \in DOMAIN containers :
           /\ containers[s] \in [run : Nat, exited : BOOLEAN]
           /\ containers[s].run \in 1..L /\ containers[s].run < L
           /\ s \in 0..made[containers[s].run] - 1
      /\ failed = (DOMAIN containers \cap nodes # {})
  BY <1>1 DEF KeysInv
<1>5. /\ DOMAIN containers' = DOMAIN containers \cup nodes
      /\ containers' = [s \in DOMAIN containers' |-> containers'[s]]
      /\ \A s \in DOMAIN containers : containers'[s] = containers[s]
      /\ \A s \in nodes : s \notin DOMAIN containers =>
           containers'[s] = [run |-> L, exited |-> FALSE]
  BY <1>3 DEF Over
<1> HIDE DEF nodes, L, started
<1>6. \A s \in DOMAIN containers' :
        /\ containers'[s] \in [run : Nat, exited : BOOLEAN]
        /\ containers'[s].run \in 1..L
        /\ s \in 0..made[containers'[s].run] - 1
  <2>1. ASSUME NEW s \in nodes, s \notin DOMAIN containers
        PROVE  /\ containers'[s] \in [run : Nat, exited : BOOLEAN]
               /\ containers'[s].run = L
               /\ s \in 0..made[containers'[s].run] - 1
    <3>1. containers'[s] = [run |-> L, exited |-> FALSE] BY <1>5, <2>1
    <3> QED BY <1>4, <3>1 DEF nodes
  <2>2. L \in 1..L BY <1>4
  <2> QED BY <1>4, <1>5, <2>1, <2>2
<1>7. ASSUME ~failed
      PROVE  /\ DOMAIN topology' = nodes
             /\ nodes \subseteq DOMAIN containers'
             /\ \A s \in DOMAIN containers' :
                  IF s \in nodes THEN containers'[s].run = L ELSE containers'[s].run < L
  <2>1. DOMAIN containers \cap nodes = {} BY <1>4, <1>7
  <2>2. Self \in nodes
    <3>1. \A n \in 1..100 : 0 \in 0..n - 1 OBVIOUS
    <3>2. c.n_nodes \in 1..100 BY <1>2 DEF IsRequest
    <3> QED BY <3>1, <3>2, Zenon DEF Self, nodes
  <2>3. topology' = ConfigStore(envs[Self]).topology
    <3>1. Self \notin DOMAIN containers BY <2>1, <2>2
    <3> QED BY <3>1 DEF NodeStarts
  <2>4. ConfigStore(envs[Self]) = Store(c, Self)
    <3>1. envs[Self] = EnvOf(c, Adjacency(c), Self) BY <1>2, <2>2
    <3>2. ConfigStore(EnvOf(c, Adjacency(c), Self)) = Store(c, Self)
      BY <1>2, <2>2, StoreIs DEF nodes
    <3> QED BY <3>1, <3>2
  <2>5. Adjacency(c) \in [nodes -> SUBSET nodes]
    BY <1>2, RequestGraph DEF GraphSound, nodes
  <2>6. DOMAIN topology' = nodes BY <2>3, <2>4, <2>5 DEF Store
  <2>7. ASSUME NEW s \in DOMAIN containers'
        PROVE  IF s \in nodes THEN containers'[s].run = L ELSE containers'[s].run < L
    <3>1. CASE s \in nodes
      <4>1. containers'[s] = [run |-> L, exited |-> FALSE] BY <1>5, <2>1, <3>1
      <4> QED BY <3>1, <4>1
    <3>2. CASE s \notin nodes
      BY <1>4, <1>5, <2>7, <3>2
    <3> QED BY <3>1, <3>2
  <2> QED BY <1>5, <2>6, <2>7
<1>8. nodes = 0..made[L] - 1 BY <1>4 DEF nodes
<1> QED BY <1>1, <1>4, <1>5, <1>6, <1>7, <1>8 DEF KeysInv, L

LEMMA KeysKept ==
    ASSUME KeysInv, DeployInv, [DeployNext]_allVars
    PROVE  KeysInv'
<1>1. ASSUME UNCHANGED <<stage, request, made, containers, failed, topology>>
      PROVE  KeysInv'
  BY <1>1 DEF KeysInv
<1>2. CASE UNCHANGED allVars
  BY <1>1, <1>2 DEF allVars, keys, routing
<1>3. ASSUME NEW key \in Fields, NEW value \in Entries[key], UpdateConfig(key, value)
      PROVE  KeysInv'
  BY <1>1, <1>3 DEF UpdateConfig, keys, routing
<1>4. ASSUME NEW c, Launch(c), \A key \in NumberFields : c[key] \in Int \cup {NaN}
      PROVE  KeysInv'
  <2>1. IsRequest(c) BY <1>4, AcceptedIs DEF Launch
  <2>2. c.n_nodes \in Nat
    <3>1. c.n_nodes \in 1..100 BY <2>1 DEF IsRequest
    <3> QED BY <3>1
  <2> QED BY <1>4, <2>2, LaunchKeepsKeys
<1>5. CASE Start
  BY <1>4, <1>5, SubmittedNumbers DEF Start, DeployInv
<1>6. CASE Post
  BY <1>4, <1>6, RequestAssumption DEF Post
<1>7. CASE PostAgain
  BY <1>4, <1>7, RequestAssumption DEF PostAgain
<1>8. CASE NodeStarts BY <1>8, NodeStartsKeepsKeys
<1>9. CASE Route
  <2>1. UNCHANGED <<stage, request, made, containers, failed>> /\ Next
    BY <1>9 DEF Route, keys
  <2>2. UNCHANGED topology
    BY <2>1 DEF Next, SessionChanges, LinkChanges, BuildForward, BuildReply, Build
  <2> QED BY <1>1, <2>1, <2>2
<1> QED BY <1>2, <1>3, <1>5, <1>6, <1>7, <1>8, <1>9 DEF DeployNext

THEOREM KeysInvariance == DeploySpec => []KeysInv
<1>1. DeployInit => KeysInv
  <2> SUFFICES ASSUME DeployInit PROVE KeysInv
    OBVIOUS
  <2>1. stage = "form" /\ made = <<>> /\ containers = <<>> BY DEF DeployInit
  <2>2. DOMAIN containers = {} /\ made \in Seq(Nat) BY <2>1
  <2>3. containers = [s \in DOMAIN containers |-> containers[s]] BY <2>1
  <2> QED BY <2>1, <2>2, <2>3 DEF KeysInv
<1>2. DeployInv /\ KeysInv /\ [DeployNext]_allVars => KeysInv'
  BY KeysKept
<1> QED BY <1>1, <1>2, Invariance, PTL DEF DeploySpec

\* The directory as the first K runs leave it.
Runs(f, K) ==
    f = [k \in 0..K |-> IF k = 0 THEN NoSecrets ELSE generate_keys(made[k], k, f[k - 1])]

LEMMA RunsExist ==
    ASSUME NEW K \in Nat
    PROVE  \E f : Runs(f, K)
<1> DEFINE T == {n \in Nat : ~\E f : Runs(f, n)}
<1> SUFFICES ASSUME T # {} PROVE FALSE
  OBVIOUS
<1>1. PICK n \in T : \A y \in T : n <= y
  <2>1. T \subseteq Nat OBVIOUS
  <2> HIDE DEF T
  <2> QED BY <2>1, LeastOf
<1>2. n \in Nat /\ ~\E f : Runs(f, n) BY <1>1
<1>3. n # 0
  <2> DEFINE g == [k \in 0..0 |-> NoSecrets]
  <2>1. g = [k \in 0..0 |-> IF k = 0 THEN NoSecrets ELSE generate_keys(made[k], k, g[k - 1])]
    OBVIOUS
  <2>2. Runs(g, 0) BY <2>1 DEF Runs
  <2> HIDE DEF g
  <2> QED BY <1>2, <2>2
<1>4. n - 1 \in Nat /\ ~(n <= n - 1) BY <1>2, <1>3
<1>5. PICK f : Runs(f, n - 1) BY <1>1, <1>4
<1> DEFINE t == [k \in 0..n |-> IF k = n THEN generate_keys(made[n], n, f[n - 1]) ELSE f[k]]
           u == [k \in 0..n |-> IF k = 0 THEN NoSecrets
                                ELSE generate_keys(made[k], k, t[k - 1])]
<1>6. ASSUME NEW k \in 0..n PROVE t[k] = u[k]
  <2>1. k # 0 => k - 1 \in 0..n /\ k - 1 # n BY <1>2
  <2>2. k # 0 => t[k - 1] = f[k - 1] BY <2>1
  <2>3. u[k] = IF k = 0 THEN NoSecrets ELSE generate_keys(made[k], k, t[k - 1]) OBVIOUS
  <2>4. k # n => k \in 0..n - 1 BY <1>2
  <2>5. k # n => f[k] = IF k = 0 THEN NoSecrets ELSE generate_keys(made[k], k, f[k - 1])
    BY <1>5, <2>4 DEF Runs
  <2>6. t[k] = IF k = n THEN generate_keys(made[n], n, f[n - 1]) ELSE f[k] OBVIOUS
  <2> HIDE DEF t, u
  <2> QED BY <1>3, <2>2, <2>3, <2>5, <2>6
<1>7. t = [k \in 0..n |-> t[k]] /\ u = [k \in 0..n |-> u[k]] OBVIOUS
<1>8. u = [k \in 0..n |-> IF k = 0 THEN NoSecrets ELSE generate_keys(made[k], k, t[k - 1])]
  OBVIOUS
<1> HIDE DEF t, u
<1>9. t = u BY <1>6, <1>7
<1>10. Runs(t, n) BY <1>8, <1>9 DEF Runs
<1> QED BY <1>2, <1>10

\* Two such accounts agree where both have one.
LEMMA RunsAgree ==
    ASSUME NEW K \in Nat, NEW M \in Nat, NEW f, Runs(f, K), NEW g, Runs(g, M),
           NEW k \in 0..K, k \in 0..M
    PROVE  f[k] = g[k]
<1> DEFINE T == {n \in Nat : n <= K /\ n <= M /\ f[n] # g[n]}
<1>1. T = {}
  <2> SUFFICES ASSUME T # {} PROVE FALSE
    OBVIOUS
  <2>1. PICK n \in T : \A y \in T : n <= y
    <3>1. T \subseteq Nat OBVIOUS
    <3> HIDE DEF T
    <3> QED BY <3>1, LeastOf
  <2>2. n \in 0..K /\ n \in 0..M /\ f[n] # g[n] BY <2>1
  <2>3. /\ f[n] = IF n = 0 THEN NoSecrets ELSE generate_keys(made[n], n, f[n - 1])
        /\ g[n] = IF n = 0 THEN NoSecrets ELSE generate_keys(made[n], n, g[n - 1])
    BY <2>2 DEF Runs
  <2>4. n # 0 BY <2>2, <2>3
  <2>5. n - 1 \in Nat /\ n - 1 <= K /\ n - 1 <= M /\ ~(n <= n - 1) BY <2>2, <2>4
  <2>6. f[n - 1] = g[n - 1] BY <2>1, <2>5
  <2> QED BY <2>2, <2>3, <2>6
<1> QED BY <1>1

LEMMA SecretsAre ==
    ASSUME NEW r \in Nat \ {0}
    PROVE  SecretsOf[r] = generate_keys(made[r], r, SecretsOf[r - 1])
<1> DEFINE at(k) == CHOOSE f : Runs(f, k)
           all == [k \in Nat |-> at(k)[k]]
<1>1. \A k \in Nat : Runs(at(k), k) BY RunsExist
<1> HIDE DEF at
<1>2. ASSUME NEW k \in Nat
      PROVE  all[k] = IF k = 0 THEN NoSecrets ELSE generate_keys(made[k], k, all[k - 1])
  <2>1. k \in 0..k OBVIOUS
  <2>2. at(k)[k] = IF k = 0 THEN NoSecrets ELSE generate_keys(made[k], k, at(k)[k - 1])
    BY <1>1, <2>1 DEF Runs
  <2>3. k # 0 => at(k)[k - 1] = at(k - 1)[k - 1]
    <3>1. k # 0 => k - 1 \in Nat /\ k - 1 \in 0..k /\ k - 1 \in 0..k - 1 OBVIOUS
    <3> QED BY <1>1, <3>1, RunsAgree
  <2>4. k # 0 => k - 1 \in Nat OBVIOUS
  <2>5. k # 0 => all[k - 1] = at(k - 1)[k - 1] BY <2>4
  <2>6. all[k] = at(k)[k] OBVIOUS
  <2> HIDE DEF all
  <2> QED BY <2>2, <2>3, <2>5, <2>6
<1>3. all = [k \in Nat |-> IF k = 0 THEN NoSecrets
                           ELSE generate_keys(made[k], k, all[k - 1])]
  <2> DEFINE next == [k \in Nat |-> IF k = 0 THEN NoSecrets
                                    ELSE generate_keys(made[k], k, all[k - 1])]
  <2>1. \A k \in Nat : next[k] = IF k = 0 THEN NoSecrets
                                 ELSE generate_keys(made[k], k, all[k - 1])
    OBVIOUS
  <2>2. all = [k \in Nat |-> all[k]] /\ next = [k \in Nat |-> next[k]] OBVIOUS
  <2> HIDE DEF all, next
  <2>3. all = next BY <1>2, <2>1, <2>2
  <2> QED BY <2>3 DEF next
<1> HIDE DEF all
<1>4. SecretsOf = [k \in Nat |-> IF k = 0 THEN NoSecrets
                                 ELSE generate_keys(made[k], k, SecretsOf[k - 1])]
  BY <1>3, Zenon DEF SecretsOf
<1>5. r \in Nat /\ r # 0 OBVIOUS
<1> QED BY <1>4, <1>5, Zenon

\* What node i of a run r with n nodes loads.
Authority(r) == <<r, "tls", "ca">>

Issued(n, r, i) ==
    [x |-> <<r, "sphinx", i>>, y |-> [j \in 0..n - 1 |-> Public(<<r, "sphinx", j>>)],
     chain |-> generate_node_cert(i, r, Authority(r))]

LEMMA CertificatesAre ==
    ASSUME NEW r \in Nat \ {0}
    PROVE  /\ SecretsOf[r].certs.ca = Certificate(<<"ca">>, Authority(r), Authority(r))
           /\ \A i \in 0..made[r] - 1 :
                i \in DOMAIN SecretsOf[r].certs.nodes
                /\ SecretsOf[r].certs.nodes[i] = generate_node_cert(i, r, Authority(r))
           /\ \A i \in DOMAIN SecretsOf[r - 1].certs.nodes : i \notin 0..made[r] - 1 =>
                i \in DOMAIN SecretsOf[r].certs.nodes
                /\ SecretsOf[r].certs.nodes[i] = SecretsOf[r - 1].certs.nodes[i]
           /\ SecretsOf[r].pki_priv = [j \in 0..made[r] - 1 |-> <<r, "sphinx", j>>]
           /\ SecretsOf[r].pki_pub = [j \in 0..made[r] - 1 |-> Public(<<r, "sphinx", j>>)]
<1> DEFINE n == made[r]
           old == SecretsOf[r - 1].certs.nodes
           own == [j \in 0..n - 1 |-> generate_node_cert(j, r, Authority(r))]
           new == generate_keys(n, r, SecretsOf[r - 1])
<1>1. SecretsOf[r] = new BY SecretsAre
<1>2. /\ new.pki_priv = [j \in 0..n - 1 |-> <<r, "sphinx", j>>]
      /\ new.pki_pub = [j \in 0..n - 1 |-> Public(<<r, "sphinx", j>>)]
      /\ new.certs = generate_certificates(n, r, old)
  BY DEF generate_keys
<1>3. /\ new.certs.ca = Certificate(<<"ca">>, Authority(r), Authority(r))
      /\ new.certs.nodes = Over(own, old)
  BY <1>2 DEF generate_certificates, Authority
<1>4. /\ DOMAIN own = 0..n - 1
      /\ \A i \in 0..n - 1 : own[i] = generate_node_cert(i, r, Authority(r))
  OBVIOUS
<1> HIDE DEF new, own, old
<1>5. /\ DOMAIN new.certs.nodes = 0..n - 1 \cup DOMAIN old
      /\ \A i \in DOMAIN new.certs.nodes :
           new.certs.nodes[i] = IF i \in 0..n - 1 THEN own[i] ELSE old[i]
  BY <1>3, <1>4 DEF Over
<1> QED BY <1>1, <1>2, <1>3, <1>4, <1>5 DEF old

LEMMA LoadedIs ==
    ASSUME NEW r \in Nat \ {0}, NEW i \in 0..made[r] - 1
    PROVE  Loaded(SecretsOf[r], i) = Issued(made[r], r, i)
<1>1. SecretsOf[r].pki_priv[i] = <<r, "sphinx", i>> BY CertificatesAre
<1>2. SecretsOf[r].certs.nodes[i] = generate_node_cert(i, r, Authority(r))
  BY CertificatesAre
<1>3. SecretsOf[r].pki_pub = [j \in 0..made[r] - 1 |-> Public(<<r, "sphinx", j>>)]
  BY CertificatesAre
<1> QED BY <1>1, <1>2, <1>3 DEF Loaded, Issued

\* The directory has a certificate with the name of node i.
Named(k, i) ==
    /\ i \in DOMAIN SecretsOf[k].certs.nodes
    /\ SecretsOf[k].certs.nodes[i].cert.common_name = <<"node", i>>

\* It keeps one after the run it was made for.
LEMMA NamesKept ==
    ASSUME NEW r \in Nat \ {0}, NEW i \in 0..made[r] - 1, NEW K \in Nat, r <= K
    PROVE  Named(K, i)
<1> DEFINE T == {k \in Nat : r <= k /\ ~Named(k, i)}
<1>1. T = {}
  <2> SUFFICES ASSUME T # {} PROVE FALSE
    OBVIOUS
  <2>1. PICK n \in T : \A y \in T : n <= y
    <3>1. T \subseteq Nat OBVIOUS
    <3> HIDE DEF T
    <3> QED BY <3>1, LeastOf
  <2>2. n \in Nat \ {0} /\ r <= n /\ ~Named(n, i) BY <2>1
  <2>3. i \notin 0..made[n] - 1
    <3> SUFFICES ASSUME i \in 0..made[n] - 1 PROVE FALSE
      OBVIOUS
    <3>1. /\ i \in DOMAIN SecretsOf[n].certs.nodes
          /\ SecretsOf[n].certs.nodes[i] = generate_node_cert(i, n, Authority(n))
      BY <2>2, CertificatesAre
    <3>2. generate_node_cert(i, n, Authority(n)).cert.common_name = <<"node", i>>
      BY DEF generate_node_cert, Certificate
    <3> QED BY <2>2, <3>1, <3>2 DEF Named
  <2>4. n # r BY <2>3
  <2>5. n - 1 \in Nat /\ r <= n - 1 /\ ~(n <= n - 1) BY <2>2, <2>4
  <2>6. Named(n - 1, i) BY <2>1, <2>5
  <2> QED BY <2>2, <2>3, <2>6, CertificatesAre DEF Named
<1> QED BY <1>1

\* What a node of run r, and a container of an earlier one, read to dial.
LEMMA ReadToDialIs ==
    ASSUME NEW r \in Nat \ {0}, NEW i
    PROVE  /\ ReadToDial(SecretsOf[r], i).ca = Certificate(<<"ca">>, Authority(r), Authority(r))
           /\ i \in 0..made[r] - 1 =>
                ReadToDial(SecretsOf[r], i).chain = generate_node_cert(i, r, Authority(r))
           /\ Named(r, i) => extract_peer_id(ReadToDial(SecretsOf[r], i)) = i
<1>1. /\ ReadToDial(SecretsOf[r], i).ca = SecretsOf[r].certs.ca
      /\ ReadToDial(SecretsOf[r], i).chain = SecretsOf[r].certs.nodes[i]
  BY DEF ReadToDial
<1>2. Named(r, i) => extract_peer_id(ReadToDial(SecretsOf[r], i)) = i
  <2> SUFFICES ASSUME Named(r, i) PROVE extract_peer_id(ReadToDial(SecretsOf[r], i)) = i
    OBVIOUS
  <2>1. ReadToDial(SecretsOf[r], i).chain.cert.common_name = <<"node", i>>
    BY <1>1 DEF Named
  <2> QED BY <2>1 DEF extract_peer_id
<1> QED BY <1>1, <1>2, CertificatesAre

LEMMA AuthoritiesDiffer ==
    ASSUME NEW r, NEW s
    PROVE  Public(Authority(r)) = Public(Authority(s)) <=> r = s
<1> SUFFICES ASSUME Public(Authority(r)) = Public(Authority(s)) PROVE r = s
  OBVIOUS
<1>1. Public(Authority(r)).public_of = Authority(r)
      /\ Public(Authority(s)).public_of = Authority(s)
  BY DEF Public
<1>2. Authority(r) = Authority(s) BY <1>1
<1>3. Authority(r)[1] = r /\ Authority(s)[1] = s BY DEF Authority
<1> QED BY <1>2, <1>3

\* The dial of a peer by a node of run r succeeds if it is answered by that node,
\* of run r, too.
LEMMA HandshakeIs ==
    ASSUME NEW r \in Nat \ {0}, NEW i \in 0..made[r] - 1, NEW m, NEW s, NEW j
    PROVE  Handshake(ReadToDial(SecretsOf[r], i), j, Issued(m, s, j)) <=> r = s
<1> DEFINE a == ReadToDial(SecretsOf[r], i)
           b == Issued(m, s, j)
<1>1. /\ a.chain.key = <<r, "tls", i>> /\ a.chain.cert.key = Public(<<r, "tls", i>>)
      /\ a.ca.key = Public(Authority(r))
  <2>1. /\ a.ca = Certificate(<<"ca">>, Authority(r), Authority(r))
        /\ a.chain = generate_node_cert(i, r, Authority(r))
    BY ReadToDialIs
  <2> HIDE DEF a
  <2> QED BY <2>1 DEF generate_node_cert, Certificate
<1>2. /\ b.chain.key = <<s, "tls", j>> /\ b.chain.cert.key = Public(<<s, "tls", j>>)
      /\ b.chain.cert.common_name = <<"node", j>>
      /\ b.chain.cert.signed_by = Authority(s)
  BY DEF Issued, generate_node_cert, Certificate
<1> HIDE DEF a, b
<1>3. Handshake(a, j, b) <=> Public(Authority(s)) = Public(Authority(r))
  BY <1>1, <1>2, Zenon DEF Handshake
<1> QED BY <1>3, AuthoritiesDiffer DEF a, b

\* A layer is taken off by the node of the run it was packed for.
LEMMA OpensIs ==
    ASSUME NEW n, NEW r, NEW i \in 0..n - 1, NEW m, NEW s, NEW j
    PROVE  Opens(Issued(m, s, j).x, Issued(n, r, i).y[i]) <=> r = s /\ i = j
<1>1. Issued(m, s, j).x = <<s, "sphinx", j>> /\ Issued(n, r, i).y[i] = Public(<<r, "sphinx", i>>)
  BY DEF Issued
<1>2. \A x : Public(x).public_of = x BY DEF Public
<1>3. Public(<<r, "sphinx", i>>) = Public(<<s, "sphinx", j>>) <=>
        <<r, "sphinx", i>> = <<s, "sphinx", j>>
  BY <1>2
<1>4. <<r, "sphinx", i>> = <<s, "sphinx", j>> <=> r = s /\ i = j OBVIOUS
<1> QED BY <1>1, <1>3, <1>4 DEF Opens

\* A start that reports no error leaves the nodes with the keys of their run: each
\* can dial each other, is registered there under its own name, and takes off
\* what is packed for it.  A container left over from an earlier run is dialled
\* in vain, is registered under no node's name when it dials itself, and neither
\* it nor a node takes off what the other, or one node for another, has packed.
THEOREM OneKeySetAlways == DeploySpec => []OneKeySet
<1>1. KeysInv => OneKeySet
  <2> SUFFICES ASSUME KeysInv, stage = "running", ~failed PROVE OneKeySet
    BY DEF OneKeySet
  <2> DEFINE L == Len(made)
             of(i) == containers[i].run
             loaded == [i \in DOMAIN containers |-> Loaded(SecretsOf[of(i)], i)]
             files == [i \in DOMAIN containers |-> ReadToDial(SecretsOf[L], i)]
             nodes == DOMAIN topology
  <2>1. /\ L \in Nat /\ L > 0 /\ made \in Seq(Nat)
        /\ nodes = 0..made[L] - 1 /\ nodes \subseteq DOMAIN containers
        /\ \A s \in DOMAIN containers :
             /\ of(s) \in 1..L /\ s \in 0..made[of(s)] - 1
             /\ IF s \in nodes THEN of(s) = L ELSE of(s) < L
    BY DEF KeysInv
  <2>2. loaded = [i \in DOMAIN containers |-> Loaded(SecretsOf[containers[i].run], i)]
    OBVIOUS
  <2>3. files = [i \in DOMAIN containers |-> ReadToDial(SecretsOf[run], i)] BY DEF run
  <2>4. \A r \in 1..L : made[r] \in Nat
    BY <2>1, ElementOfSeq DEF L
  <2> HIDE DEF L, of
  <2>5. ASSUME NEW i \in DOMAIN containers
        PROVE  loaded[i] = Issued(made[of(i)], of(i), i)
    <3>1. of(i) \in Nat \ {0} /\ i \in 0..made[of(i)] - 1 BY <2>1
    <3> QED BY <3>1, LoadedIs
  <2>6. \A i \in DOMAIN containers : files[i] = ReadToDial(SecretsOf[L], i) OBVIOUS
  <2>7. L \in Nat \ {0} /\ L \in 1..L /\ made[L] \in Nat BY <2>1, <2>4
  <2> HIDE DEF loaded, files, nodes
  <2>8. ASSUME NEW a \in nodes
        PROVE  a \in DOMAIN containers /\ a \in 0..made[L] - 1
               /\ loaded[a] = Issued(made[L], L, a)
               /\ files[a] = ReadToDial(SecretsOf[L], a)
    BY <2>1, <2>5, <2>6
  <2>9. ASSUME NEW a \in nodes, NEW b \in nodes
        PROVE  /\ Handshake(files[a], b, loaded[b])
               /\ extract_peer_id(files[a]) = a
               /\ Opens(loaded[b].x, loaded[a].y[b])
    <3>1. Handshake(files[a], b, loaded[b]) BY <2>7, <2>8, HandshakeIs
    <3>2. Named(L, a)
      <4>1. L <= L BY <2>7
      <4> QED BY <2>7, <2>8, <4>1, NamesKept
    <3>3. extract_peer_id(files[a]) = a BY <2>7, <2>8, <3>2, ReadToDialIs
    <3>4. Opens(loaded[b].x, loaded[a].y[b])
      <4>1. Opens(Issued(made[L], L, b).x, Issued(made[L], L, a).y[b])
        <5>1. Issued(made[L], L, a).y = Issued(made[L], L, b).y BY DEF Issued
        <5> QED BY <2>8, <5>1, OpensIs
      <4> QED BY <2>8, <4>1
    <3> QED BY <3>1, <3>3, <3>4
  <2>10. ASSUME NEW a \in nodes, NEW left \in DOMAIN containers \ nodes
        PROVE  /\ ~Handshake(files[a], left, loaded[left])
               /\ extract_peer_id(files[left]) \notin nodes
               /\ ~Opens(loaded[a].x, loaded[left].y[a])
               /\ \A b \in nodes : ~Opens(loaded[left].x, loaded[a].y[b])
    <3> DEFINE k == of(left)
    <3>1. k \in Nat \ {0} /\ k <= L /\ k # L /\ left \in 0..made[k] - 1 /\ made[k] \in Nat
      BY <2>1, <2>4
    <3> HIDE DEF k
    <3>2. loaded[left] = Issued(made[k], k, left) BY <2>5 DEF k
    <3>3. ~Handshake(files[a], left, loaded[left])
      BY <2>7, <2>8, <3>1, <3>2, HandshakeIs
    <3>4. extract_peer_id(files[left]) \notin nodes
      <4>1. Named(L, left) BY <2>7, <3>1, NamesKept
      <4>2. extract_peer_id(files[left]) = left BY <2>6, <2>7, <4>1, ReadToDialIs
      <4> QED BY <4>2
    <3>5. a \in 0..made[k] - 1 BY <2>1, <2>7, <2>8, <3>1
    <3>6. ~Opens(loaded[a].x, loaded[left].y[a])
      <4>1. Issued(made[k], k, left).y = Issued(made[k], k, a).y BY DEF Issued
      <4>2. ~Opens(Issued(made[L], L, a).x, Issued(made[k], k, a).y[a])
        BY <3>1, <3>5, OpensIs
      <4> QED BY <2>8, <3>2, <4>1, <4>2
    <3>7. ASSUME NEW b \in nodes PROVE ~Opens(loaded[left].x, loaded[a].y[b])
      <4>1. Issued(made[L], L, a).y = Issued(made[L], L, b).y BY DEF Issued
      <4>2. ~Opens(Issued(made[k], k, left).x, Issued(made[L], L, b).y[b])
        BY <2>8, <3>1, OpensIs
      <4> QED BY <2>8, <3>2, <4>1, <4>2
    <3> QED BY <3>3, <3>4, <3>6, <3>7
  <2> QED BY <2>1, <2>2, <2>3, <2>9, <2>10, Zenon DEF OneKeySet, nodes
<1> QED BY <1>1, KeysInvariance, PTL
=============================================================================
