---------------------------- MODULE PlieguesProofs ----------------------------
(***************************************************************************)
(* Lemmas about the sums, the largest, the smallest and the parts of finite *)
(* sets, which the code takes wherever it adds up, sorts or picks.         *)
(*                                                                         *)
(* The community modules define a sum as a fold over a function that       *)
(* CHOOSE picks, which says nothing until one is shown to exist: here it   *)
(* is, by induction over the subsets of the set that is summed.  Induction *)
(* is stated for the set of the values that satisfy a property.            *)
(***************************************************************************)
EXTENDS FiniteSetsExt, FiniteSetTheorems, WellFoundedInduction, TLAPS

-----------------------------------------------------------------------------
(* Induction                                                               *)

\* Induction over the naturals, of a set.
LEMMA Inducir ==
    ASSUME NEW S, 0 \in S, \A n \in Nat : n \in S => n + 1 \in S
    PROVE  \A n \in Nat : n \in S
<1> DEFINE R == OpToRel(<, Nat)
           T == Nat \ S
<1> SUFFICES ASSUME T # {} PROVE FALSE
  OBVIOUS
<1>1. IsWellFoundedOn(R, Nat)
  BY NatLessThanWellFounded
<1>2. \E x \in T : \A y \in T : ~ (<<y, x>> \in R)
  <2>1. T \subseteq Nat
    OBVIOUS
  <2> HIDE DEF R, T
  <2> QED BY <1>1, <2>1, WFMin
<1>3. PICK x \in T : \A y \in T : ~ (<<y, x>> \in R)
  BY <1>2
<1>4. x \in Nat /\ x # 0 /\ x \notin S /\ x - 1 \in Nat /\ x - 1 + 1 = x
  OBVIOUS
<1>5. <<x - 1, x>> \in R
  BY <1>4 DEF OpToRel
<1>6. x - 1 \notin T
  BY <1>3, <1>5
<1> QED
  BY <1>4, <1>6

\* The same on the subsets of a finite set, that lose their elements one by one.
LEMMA InducirPartes ==
    ASSUME NEW D, IsFiniteSet(D), NEW F, {} \in F,
           \A s \in SUBSET D : s # {} /\ (\A x \in s : s \ {x} \in F) => s \in F
    PROVE  \A s \in SUBSET D : s \in F
<1> DEFINE S == {n \in Nat : \A s \in SUBSET D : Cardinality(s) = n => s \in F}
<1>1. \A s \in SUBSET D : /\ IsFiniteSet(s) /\ Cardinality(s) \in Nat
                          /\ Cardinality(s) = 0 <=> s = {}
  BY FS_Subset, FS_CardinalityType, FS_EmptySet
<1>2. 0 \in S
  BY <1>1
<1>3. \A n \in Nat : n \in S => n + 1 \in S
  <2> SUFFICES ASSUME NEW n \in Nat, n \in S, NEW s \in SUBSET D, Cardinality(s) = n + 1
               PROVE  s \in F
    OBVIOUS
  <2>1. s # {}
    BY <1>1
  <2>2. ASSUME NEW x \in s PROVE s \ {x} \in SUBSET D /\ Cardinality(s \ {x}) = n
    <3>1. IsFiniteSet(s)
      BY <1>1
    <3>2. Cardinality(s \ {x}) = Cardinality(s) - 1
      BY <3>1, FS_RemoveElement
    <3> QED
      BY <3>2
  <2> QED
    BY <2>1, <2>2
<1>4. \A n \in Nat : n \in S
  <2> HIDE DEF S
  <2> QED BY <1>2, <1>3, Inducir
<1> QED
  BY <1>1, <1>4

-----------------------------------------------------------------------------
(* Sums                                                                    *)

Elegido(s) == CHOOSE x \in s : TRUE

\* What a sum over a finite set is: the partial sums, that take the elements in
\* the order in which CHOOSE gives them.
EsPliegue(g, D, f) ==
    /\ g \in [SUBSET D -> Int] /\ g[{}] = 0 /\ SumFunction(f) = g[D]
    /\ \A s \in SUBSET D : s # {} => g[s] = f[Elegido(s)] + g[s \ {Elegido(s)}]

\* The partial sums exist, and the sum is the last of them.
LEMMA PliegueLema ==
    ASSUME NEW D, IsFiniteSet(D), NEW f \in [D -> Int]
    PROVE  \E g : EsPliegue(g, D, f)
<1> DEFINE Paso(g, s) == IF s = {} THEN 0 ELSE f[Elegido(s)] + g[s \ {Elegido(s)}]
           Es(g) == g = [s \in SUBSET D |-> Paso(g, s)]
           G == CHOOSE g : Es(g)
<1>1. \A s \in SUBSET D : IsFiniteSet(s) /\ Cardinality(s) \in Nat /\ Cardinality(s) <= Cardinality(D)
  BY FS_Subset, FS_CardinalityType
<1>2. \A s \in SUBSET D : s # {} =>
         /\ Elegido(s) \in s /\ s \ {Elegido(s)} \in SUBSET D
         /\ Cardinality(s \ {Elegido(s)}) = Cardinality(s) - 1
  <2> TAKE s \in SUBSET D
  <2> HAVE s # {}
  <2>1. Elegido(s) \in s
    BY DEF Elegido
  <2> QED
    BY <1>1, <2>1, FS_RemoveElement
<1>3. \A s \in SUBSET D : Cardinality(s) = 0 <=> s = {}
  BY <1>1, FS_EmptySet
<1>4. \E g : Es(g)
  <2> DEFINE Vale(n) == \E g \in [SUBSET D -> Int] :
                           \A s \in SUBSET D : Cardinality(s) <= n => g[s] = Paso(g, s)
             S == {n \in Nat : Vale(n)}
  <2>1. 0 \in S
    <3> DEFINE g == [s \in SUBSET D |-> 0]
    <3>1. \A s \in SUBSET D : Cardinality(s) <= 0 => s = {}
      BY <1>1, <1>3
    <3>2. g \in [SUBSET D -> Int] /\ \A s \in SUBSET D : Cardinality(s) <= 0 => g[s] = Paso(g, s)
      BY <3>1
    <3> QED
      BY <3>2
  <2>2. \A n \in Nat : n \in S => n + 1 \in S
    <3>0. SUFFICES ASSUME NEW n \in Nat, Vale(n) PROVE Vale(n + 1)
      <4> HIDE DEF Vale
      <4> QED BY <3>0
    <3>1. PICK g \in [SUBSET D -> Int] : \A s \in SUBSET D : Cardinality(s) <= n => g[s] = Paso(g, s)
      BY <3>0
    <3> DEFINE h == [s \in SUBSET D |-> Paso(g, s)]
    <3>2. h \in [SUBSET D -> Int]
      <4> SUFFICES ASSUME NEW s \in SUBSET D PROVE Paso(g, s) \in Int
        OBVIOUS
      <4>1. CASE s = {}
        BY <4>1
      <4>2. CASE s # {}
        <5>1. Elegido(s) \in D /\ s \ {Elegido(s)} \in SUBSET D
          BY <1>2, <4>2
        <5> QED
          BY <4>2, <5>1
      <4> QED
        BY <4>1, <4>2
    <3>3. ASSUME NEW s \in SUBSET D, Cardinality(s) <= n + 1 PROVE h[s] = Paso(h, s)
      <4>1. CASE s = {}
        BY <4>1
      <4>2. CASE s # {}
        <5>1. s \ {Elegido(s)} \in SUBSET D /\ Cardinality(s \ {Elegido(s)}) <= n
          BY <1>1, <1>2, <3>3, <4>2
        <5>2. g[s \ {Elegido(s)}] = h[s \ {Elegido(s)}]
          BY <3>1, <5>1
        <5> QED BY <4>2, <5>1, <5>2
      <4> QED BY <4>1, <4>2
    <3> HIDE DEF h, Paso
    <3> QED
      BY <3>2, <3>3
  <2>3. Cardinality(D) \in S
    <3> HIDE DEF S
    <3> QED BY <2>1, <2>2, Inducir, <1>1
  <2>4. PICK g \in [SUBSET D -> Int] : \A s \in SUBSET D : g[s] = Paso(g, s)
    BY <2>3, <1>1
  <2>5. g = [s \in SUBSET D |-> g[s]]
    OBVIOUS
  <2> HIDE DEF Paso
  <2> QED
    BY <2>4, <2>5
<1>5. Es(G)
  <2> HIDE DEF Es
  <2> QED BY <1>4
<1>6. SumFunction(f) = G[D]
  BY DEF SumFunction, SumFunctionOnSet, FoldFunctionOnSet, MapThenFoldSet, Elegido
<1>7. /\ \A s \in SUBSET D : G[s] = Paso(G, s)
      /\ DOMAIN G = SUBSET D /\ G = [s \in SUBSET D |-> G[s]]
  <2> HIDE DEF Paso, G
  <2> QED BY <1>5
<1> HIDE DEF G
<1>8. \A s \in SUBSET D : G[s] \in Int
  <2> DEFINE F == {s \in SUBSET D : G[s] \in Int}
  <2>1. {} \in F
    <3>1. {} \in SUBSET D /\ Paso(G, {}) = 0
      OBVIOUS
    <3>2. G[{}] = Paso(G, {})
      <4> HIDE DEF Paso
      <4> QED BY <1>7, <3>1
    <3> QED
      BY <3>1, <3>2
  <2>2. ASSUME NEW s \in SUBSET D, s # {}, \A x \in s : s \ {x} \in F PROVE s \in F
    <3>1. Elegido(s) \in s /\ Elegido(s) \in D /\ s \ {Elegido(s)} \in SUBSET D
      BY <1>2, <2>2
    <3>2. G[s] = f[Elegido(s)] + G[s \ {Elegido(s)}]
      BY <1>7, <2>2
    <3>3. f[Elegido(s)] \in Int /\ G[s \ {Elegido(s)}] \in Int
      BY <2>2, <3>1
    <3> QED
      BY <3>2, <3>3
  <2> HIDE DEF F
  <2>3. \A s \in SUBSET D : s \in F
    BY <2>1, <2>2, InducirPartes
  <2> QED
    BY <2>3 DEF F
<1>9. G[{}] = 0 /\ D \in SUBSET D /\ \A s \in SUBSET D : s # {} => G[s] = f[Elegido(s)] + G[s \ {Elegido(s)}]
  BY <1>7
<1> QED
  BY <1>6, <1>7, <1>8, <1>9 DEF EsPliegue

\* Sums of integers, of naturals, of positive numbers, and of none.
LEMMA SumaLema ==
    ASSUME NEW D, IsFiniteSet(D), NEW f \in [D -> Int]
    PROVE  /\ SumFunction(f) \in Int
           /\ D = {} => SumFunction(f) = 0
           /\ (\A x \in D : f[x] >= 0) => SumFunction(f) >= 0
           /\ (\A x \in D : f[x] > 0) /\ D # {} => SumFunction(f) > 0
<1>1. PICK g : EsPliegue(g, D, f)
  BY PliegueLema
<1>2. \A s \in SUBSET D : s # {} => Elegido(s) \in s /\ s \ {Elegido(s)} \in SUBSET D
  BY DEF Elegido
<1>3. ASSUME \A x \in D : f[x] >= 0 PROVE \A s \in SUBSET D : g[s] >= 0
  <2> DEFINE F == {s \in SUBSET D : g[s] >= 0}
  <2>1. {} \in F
    BY <1>1 DEF EsPliegue
  <2>2. ASSUME NEW s \in SUBSET D, s # {}, \A x \in s : s \ {x} \in F PROVE s \in F
    <3>1. Elegido(s) \in D /\ s \ {Elegido(s)} \in F /\ g[s] = f[Elegido(s)] + g[s \ {Elegido(s)}]
      BY <1>1, <1>2, <2>2 DEF EsPliegue
    <3>2. /\ f[Elegido(s)] \in Int /\ f[Elegido(s)] >= 0
          /\ g[s \ {Elegido(s)}] \in Int /\ g[s \ {Elegido(s)}] >= 0
      BY <1>1, <1>3, <3>1 DEF EsPliegue
    <3>3. g[s] >= 0
      BY <3>1, <3>2
    <3> QED
      BY <3>3
  <2> HIDE DEF F
  <2>3. \A s \in SUBSET D : s \in F
    BY <2>1, <2>2, InducirPartes
  <2> QED
    BY <2>3 DEF F
<1>4. ASSUME \A x \in D : f[x] > 0, D # {} PROVE g[D] > 0
  <2>1. Elegido(D) \in D /\ D \ {Elegido(D)} \in SUBSET D
    BY <1>2, <1>4
  <2>2. g[D] = f[Elegido(D)] + g[D \ {Elegido(D)}]
    BY <1>1, <1>4 DEF EsPliegue
  <2>3. g[D \ {Elegido(D)}] >= 0
    <3>1. \A x \in D : f[x] >= 0
      BY <1>4
    <3> QED
      BY <1>3, <2>1, <3>1
  <2>4. f[Elegido(D)] > 0 /\ f[Elegido(D)] \in Int /\ g[D \ {Elegido(D)}] \in Int
    BY <1>1, <1>4, <2>1 DEF EsPliegue
  <2> QED
    BY <2>2, <2>3, <2>4
<1>5. D = {} => g[D] = 0
  BY <1>1 DEF EsPliegue
<1>6. g[D] \in Int /\ SumFunction(f) = g[D] /\ D \in SUBSET D
  BY <1>1 DEF EsPliegue
<1> QED
  BY <1>3, <1>4, <1>5, <1>6

\* Scaling the terms, each cut towards zero, scales the sum but for 1 per term.
LEMMA EscalaLema ==
    ASSUME NEW D, IsFiniteSet(D), NEW f \in [D -> Int], NEW h \in [D -> Int],
           NEW a \in Nat, NEW b \in Nat \ {0},
           \A x \in D : a * f[x] - b <= b * h[x] /\ b * h[x] <= a * f[x] + b
    PROVE  LET n == Cardinality(D)
           IN  a * SumFunction(f) - b * n <= b * SumFunction(h) /\ b * SumFunction(h) <= a * SumFunction(f) + b * n
<1>1. PICK g : EsPliegue(g, D, f)
  BY PliegueLema
<1>2. PICK k : EsPliegue(k, D, h)
  BY PliegueLema
<1>3. \A s \in SUBSET D : IsFiniteSet(s) /\ Cardinality(s) \in Nat
  BY FS_Subset, FS_CardinalityType
<1> DEFINE Vale(s) == /\ a * g[s] - b * Cardinality(s) <= b * k[s]
                      /\ b * k[s] <= a * g[s] + b * Cardinality(s)
           F == {s \in SUBSET D : Vale(s)}
<1>4. {} \in F
  <2>1. g[{}] = 0 /\ k[{}] = 0 /\ Cardinality({}) = 0 /\ {} \in SUBSET D
    BY <1>1, <1>2, FS_EmptySet DEF EsPliegue
  <2> QED
    BY <2>1
<1>5. ASSUME NEW s \in SUBSET D, s # {}, \A x \in s : s \ {x} \in F PROVE s \in F
  <2> DEFINE x == Elegido(s)
             r == s \ {x}
             n == Cardinality(r)
             fx == f[x]
             hx == h[x]
             gr == g[r]
             kr == k[r]
  <2>1. x \in s
    BY <1>5 DEF Elegido
  <2>2. x \in D /\ r \in SUBSET D /\ Cardinality(s) = n + 1 /\ n \in Nat
    <3>1. x \in D /\ r \in SUBSET D
      BY <2>1
    <3>2. Cardinality(r) = Cardinality(s) - 1 /\ Cardinality(s) \in Nat /\ Cardinality(r) \in Nat
      <4> HIDE DEF x
      <4> QED BY <1>3, <2>1, FS_RemoveElement
    <3> QED
      BY <3>1, <3>2
  <2>3. g[s] = fx + gr /\ k[s] = hx + kr
    BY <1>1, <1>2, <1>5 DEF EsPliegue
  <2>4. a * gr - b * n <= b * kr /\ b * kr <= a * gr + b * n
    BY <1>5, <2>1
  <2>5. a * fx - b <= b * hx /\ b * hx <= a * fx + b
    BY <2>2
  <2>6. fx \in Int /\ hx \in Int /\ gr \in Int /\ kr \in Int /\ n \in Nat
    BY <1>1, <1>2, <2>2 DEF EsPliegue
  <2> HIDE DEF x, r, n, fx, hx, gr, kr
  <2>7. /\ a * (fx + gr) = a * fx + a * gr /\ b * (hx + kr) = b * hx + b * kr
        /\ b * (n + 1) = b * n + b
        /\ a * fx \in Int /\ a * gr \in Int /\ b * hx \in Int /\ b * kr \in Int /\ b * n \in Int
    BY <2>6
  <2> DEFINE p1 == a * fx
             p2 == a * gr
             p3 == b * hx
             p4 == b * kr
             p5 == b * n
  <2>8. /\ (p1 + p2) - (p5 + b) <= p3 + p4 /\ p3 + p4 <= (p1 + p2) + (p5 + b)
    <3>1. /\ p1 \in Int /\ p2 \in Int /\ p3 \in Int /\ p4 \in Int /\ p5 \in Int
          /\ p2 - p5 <= p4 /\ p4 <= p2 + p5 /\ p1 - b <= p3 /\ p3 <= p1 + b
      BY <2>4, <2>5, <2>7
    <3> HIDE DEF p1, p2, p3, p4, p5
    <3> QED
      BY <3>1
  <2>9. Vale(s)
    <3>1. /\ a * g[s] = p1 + p2 /\ b * k[s] = p3 + p4 /\ b * Cardinality(s) = p5 + b
      BY <2>2, <2>3, <2>7
    <3> HIDE DEF p1, p2, p3, p4, p5
    <3> QED
      BY <2>8, <3>1
  <2> QED
    BY <2>9
<1>6. D \in F
  <2> HIDE DEF F
  <2>1. \A s \in SUBSET D : s \in F
    BY <1>4, <1>5, InducirPartes
  <2> QED
    BY <2>1
<1> QED
  BY <1>1, <1>2, <1>6 DEF EsPliegue

\* Any element of a sum may be the first to be taken out.
SinOrden(g, D, f) == \A s \in SUBSET D : \A x \in s : g[s] = f[x] + g[s \ {x}]

LEMMA SacarLema ==
    ASSUME NEW D, IsFiniteSet(D), NEW f \in [D -> Int], NEW g, EsPliegue(g, D, f)
    PROVE  SinOrden(g, D, f)
<1> DEFINE F == {s \in SUBSET D : \A x \in s : g[s] = f[x] + g[s \ {x}]}
<1>1. {} \in F
  OBVIOUS
<1>2. ASSUME NEW s \in SUBSET D, s # {}, \A x \in s : s \ {x} \in F PROVE s \in F
  <2> DEFINE e == Elegido(s)
  <2>1. e \in s /\ e \in D /\ g[s] = f[e] + g[s \ {e}]
    BY <1>2 DEF Elegido, EsPliegue
  <2> HIDE DEF e
  <2>2. ASSUME NEW x \in s, x # e PROVE g[s] = f[x] + g[s \ {x}]
    <3>1. x \in s \ {e} /\ e \in s \ {x}
      BY <2>1, <2>2
    <3>2. g[s \ {e}] = f[x] + g[(s \ {e}) \ {x}]
      BY <1>2, <2>1, <3>1
    <3>3. g[s \ {x}] = f[e] + g[(s \ {x}) \ {e}]
      BY <1>2, <3>1
    <3>4. (s \ {e}) \ {x} = (s \ {x}) \ {e}
      OBVIOUS
    <3>5. f[x] \in Int /\ f[e] \in Int /\ g[(s \ {x}) \ {e}] \in Int
      BY <2>1 DEF EsPliegue
    <3> QED
      <4> DEFINE a == g[(s \ {x}) \ {e}]
                 b == f[x]
                 c == f[e]
      <4>1. g[s] = c + (b + a) /\ g[s \ {x}] = c + a /\ a \in Int /\ b \in Int /\ c \in Int
        BY <2>1, <3>2, <3>3, <3>4, <3>5
      <4> HIDE DEF a, b, c
      <4>2. g[s] = b + g[s \ {x}]
        BY <4>1
      <4> QED
        BY <4>2 DEF b
  <2> QED
    BY <2>1, <2>2
<1> HIDE DEF F
<1>3. \A s \in SUBSET D : s \in F
  BY <1>1, <1>2, InducirPartes
<1> QED
  BY <1>3 DEF F, SinOrden

\* Where every term is 0, so is the sum.
LEMMA CerosLema ==
    ASSUME NEW D, IsFiniteSet(D), NEW f \in [D -> Int], NEW g, EsPliegue(g, D, f),
           NEW r \in SUBSET D, \A x \in r : f[x] = 0
    PROVE  g[r] = 0
<1> DEFINE F == {s \in SUBSET D : s \subseteq r => g[s] = 0}
<1>1. {} \in F
  BY DEF EsPliegue
<1>2. ASSUME NEW s \in SUBSET D, s # {}, \A x \in s : s \ {x} \in F PROVE s \in F
  <2> DEFINE e == Elegido(s)
  <2>1. e \in s /\ e \in D /\ g[s] = f[e] + g[s \ {e}]
    BY <1>2 DEF Elegido, EsPliegue
  <2> HIDE DEF e
  <2>2. s \subseteq r => f[e] = 0 /\ g[s \ {e}] = 0
    BY <1>2, <2>1
  <2> QED
    BY <2>1, <2>2
<1> HIDE DEF F
<1>3. \A s \in SUBSET D : s \in F
  BY <1>1, <1>2, InducirPartes
<1> QED
  BY <1>3 DEF F

\* The sum of a part is the partial sum of it,
LEMMA SubsumaLema ==
    ASSUME NEW D, IsFiniteSet(D), NEW f \in [D -> Int], NEW g, EsPliegue(g, D, f),
           NEW r \in SUBSET D
    PROVE  SumFunction([x \in r |-> f[x]]) = g[r]
<1> DEFINE h == [x \in r |-> f[x]]
<1>1. h \in [r -> Int] /\ IsFiniteSet(r)
  BY FS_Subset
<1>2. PICK k : EsPliegue(k, r, h)
  <2> HIDE DEF h
  <2> QED BY <1>1, PliegueLema
<1> DEFINE F == {s \in SUBSET r : k[s] = g[s]}
<1>3. {} \in F
  BY <1>2 DEF EsPliegue
<1>4. ASSUME NEW s \in SUBSET r, s # {}, \A x \in s : s \ {x} \in F PROVE s \in F
  <2> DEFINE e == Elegido(s)
  <2>1. e \in s
    BY <1>4 DEF Elegido
  <2>2. k[s \ {e}] = g[s \ {e}]
    BY <1>4, <2>1
  <2>3. k[s] = h[e] + k[s \ {e}] /\ g[s] = f[e] + g[s \ {e}]
    BY <1>2, <1>4 DEF EsPliegue
  <2>4. h[e] = f[e]
    BY <2>1
  <2>5. k[s] = g[s]
    BY <2>2, <2>3, <2>4
  <2> QED
    BY <2>5
<1>5. r \in F
  <2> HIDE DEF F
  <2>1. \A s \in SUBSET r : s \in F
    BY <1>1, <1>3, <1>4, InducirPartes
  <2> QED
    BY <2>1
<1>6. SumFunction(h) = k[r]
  BY <1>2 DEF EsPliegue
<1> QED
  BY <1>5, <1>6

\* and the sums of two parts add up.
LEMMA SumaUnionLema ==
    ASSUME NEW D, IsFiniteSet(D), NEW f \in [D -> Int], NEW g, EsPliegue(g, D, f),
           NEW a \in SUBSET D, NEW b \in SUBSET D, a \cap b = {}
    PROVE  g[a \cup b] = g[a] + g[b]
<1> DEFINE F == {s \in SUBSET D : a \cap s = {} => g[a \cup s] = g[a] + g[s]}
<1>1. SinOrden(g, D, f)
  BY SacarLema
<1>2. \A s \in SUBSET D : g[s] \in Int
  BY DEF EsPliegue
<1>3. {} \in F
  <2>1. g[a \cup {}] = g[a] + g[{}]
    <3>1. a \cup {} = a /\ g[{}] = 0 /\ g[a] \in Int
      BY <1>2 DEF EsPliegue
    <3> QED
      BY <3>1
  <2> QED
    BY <2>1
<1>4. ASSUME NEW s \in SUBSET D, s # {}, \A x \in s : s \ {x} \in F PROVE s \in F
  <2> SUFFICES ASSUME a \cap s = {} PROVE g[a \cup s] = g[a] + g[s]
    OBVIOUS
  <2>1. PICK x \in s : TRUE
    BY <1>4
  <2>2. a \cap (s \ {x}) = {} /\ (a \cup s) \ {x} = a \cup (s \ {x}) /\ x \in a \cup s /\ x \in D
    BY <2>1
  <2>3. g[a \cup (s \ {x})] = g[a] + g[s \ {x}]
    BY <1>4, <2>1, <2>2
  <2>4. g[a \cup s] = f[x] + g[a \cup (s \ {x})] /\ g[s] = f[x] + g[s \ {x}]
    <3>1. a \cup s \in SUBSET D
      OBVIOUS
    <3>2. g[a \cup s] = f[x] + g[(a \cup s) \ {x}]
      BY <1>1, <2>2, <3>1 DEF SinOrden
    <3>3. g[s] = f[x] + g[s \ {x}]
      BY <1>1, <2>1 DEF SinOrden
    <3> QED
      BY <2>2, <3>2, <3>3
  <2>5. f[x] \in Int /\ g[a] \in Int /\ g[s \ {x}] \in Int
    BY <1>2, <2>2
  <2> QED
    BY <2>3, <2>4, <2>5
<1>5. b \in F
  <2> HIDE DEF F
  <2>1. \A s \in SUBSET D : s \in F
    BY <1>3, <1>4, InducirPartes
  <2> QED
    BY <2>1
<1> QED
  BY <1>5

\* A sum whose terms have a bound,
LEMMA CotaLema ==
    ASSUME NEW D, IsFiniteSet(D), NEW f \in [D -> Int], NEW c \in Int,
           \A x \in D : f[x] <= c
    PROVE  SumFunction(f) <= c * Cardinality(D)
<1>1. PICK g : EsPliegue(g, D, f)
  BY PliegueLema
<1>2. \A s \in SUBSET D : IsFiniteSet(s) /\ Cardinality(s) \in Nat
  BY FS_Subset, FS_CardinalityType
<1> DEFINE F == {s \in SUBSET D : g[s] <= c * Cardinality(s)}
<1>3. {} \in F
  <2>1. g[{}] = 0 /\ Cardinality({}) = 0 /\ c * 0 = 0
    BY <1>1, FS_EmptySet DEF EsPliegue
  <2> QED
    BY <2>1
<1>4. ASSUME NEW s \in SUBSET D, s # {}, \A x \in s : s \ {x} \in F PROVE s \in F
  <2> DEFINE e == Elegido(s)
             n == Cardinality(s \ {e})
             fe == f[e]
             gr == g[s \ {e}]
  <2>1. e \in s
    BY <1>4 DEF Elegido
  <2>2. Cardinality(s) = n + 1 /\ n \in Nat
    <3>1. Cardinality(s \ {e}) = Cardinality(s) - 1 /\ Cardinality(s) \in Nat /\ Cardinality(s \ {e}) \in Nat
      <4> HIDE DEF e
      <4> QED BY <1>2, <2>1, FS_RemoveElement
    <3> QED
      BY <3>1
  <2>3. g[s] = fe + gr /\ fe \in Int /\ gr \in Int /\ fe <= c /\ gr <= c * n
    BY <1>1, <1>4, <2>1 DEF EsPliegue
  <2> HIDE DEF n, fe, gr
  <2>4. c * (n + 1) = c * n + c /\ c * n \in Int
    BY <2>2
  <2>5. fe + gr <= c * n + c
    BY <2>3, <2>4
  <2>6. g[s] <= c * Cardinality(s)
    BY <2>2, <2>3, <2>4, <2>5
  <2> QED
    BY <2>6
<1>5. D \in F
  <2> HIDE DEF F
  <2>1. \A s \in SUBSET D : s \in F
    BY <1>3, <1>4, InducirPartes
  <2> QED
    BY <2>1
<1> QED
  BY <1>1, <1>5 DEF EsPliegue

\* and a sum of differences.
LEMMA RestaLema ==
    ASSUME NEW D, IsFiniteSet(D), NEW f \in [D -> Int], NEW h \in [D -> Int], NEW d \in [D -> Int],
           \A x \in D : f[x] - h[x] = d[x]
    PROVE  SumFunction(f) - SumFunction(h) = SumFunction(d)
<1>1. PICK g : EsPliegue(g, D, f)
  BY PliegueLema
<1>2. PICK k : EsPliegue(k, D, h)
  BY PliegueLema
<1>3. PICK m : EsPliegue(m, D, d)
  BY PliegueLema
<1> DEFINE F == {s \in SUBSET D : g[s] - k[s] = m[s]}
<1>4. {} \in F
  BY <1>1, <1>2, <1>3 DEF EsPliegue
<1>5. ASSUME NEW s \in SUBSET D, s # {}, \A x \in s : s \ {x} \in F PROVE s \in F
  <2> DEFINE e == Elegido(s)
             r == s \ {e}
  <2>1. e \in s /\ e \in D /\ r \in SUBSET D
    BY <1>5 DEF Elegido
  <2>2. g[s] = f[e] + g[r] /\ k[s] = h[e] + k[r] /\ m[s] = d[e] + m[r]
    BY <1>1, <1>2, <1>3, <1>5 DEF EsPliegue
  <2>3. g[r] - k[r] = m[r] /\ f[e] - h[e] = d[e]
    BY <1>5, <2>1
  <2>4. {f[e], g[r], h[e], k[r], d[e], m[r]} \subseteq Int
    BY <1>1, <1>2, <1>3, <2>1 DEF EsPliegue
  <2>5. g[s] - k[s] = m[s]
    <3> HIDE DEF e, r
    <3> QED BY <2>2, <2>3, <2>4
  <2> QED
    BY <2>5
<1>6. D \in F
  <2> HIDE DEF F
  <2>1. \A s \in SUBSET D : s \in F
    BY <1>4, <1>5, InducirPartes
  <2> QED
    BY <2>1
<1> QED
  BY <1>1, <1>2, <1>3, <1>6 DEF EsPliegue

\* What is added last to a sequence.
LEMMA UltimoLema ==
    ASSUME NEW n \in Nat, NEW f \in [1 .. n + 1 -> Int]
    PROVE  SumFunction(f) = SumFunction([i \in 1 .. n |-> f[i]]) + f[n + 1]
<1> DEFINE D == 1 .. n + 1
           r == 1 .. n
<1>1. IsFiniteSet(D)
  BY FS_Interval
<1>2. D \ {n + 1} = r /\ r \in SUBSET D /\ n + 1 \in D
  OBVIOUS
<1> HIDE DEF D, r
<1>3. f \in [D -> Int]
  BY DEF D
<1>4. PICK g : EsPliegue(g, D, f)
  BY <1>1, <1>3, PliegueLema
<1>5. g[D] = f[n + 1] + g[r]
  <2>1. SinOrden(g, D, f)
    BY <1>1, <1>3, <1>4, SacarLema
  <2>2. D \in SUBSET D
    OBVIOUS
  <2> QED
    BY <1>2, <2>1, <2>2 DEF SinOrden
<1>6. SumFunction([i \in r |-> f[i]]) = g[r]
  BY <1>1, <1>2, <1>3, <1>4, SubsumaLema
<1>7. g[r] \in Int /\ f[n + 1] \in Int /\ SumFunction(f) = g[D]
  BY <1>2, <1>3, <1>4 DEF EsPliegue
<1>8. SumFunction(f) = SumFunction([i \in r |-> f[i]]) + f[n + 1]
  BY <1>5, <1>6, <1>7
<1> QED
  BY <1>8 DEF r

-----------------------------------------------------------------------------
(* The largest, the smallest, the parts                                    *)

\* The image of a finite set.
LEMMA ImagenLema ==
    ASSUME NEW S, IsFiniteSet(S), NEW f, DOMAIN f = S
    PROVE  IsFiniteSet({f[x] : x \in S})
<1> DEFINE T == {f[x] : x \in S}
           h == [x \in S |-> f[x]]
<1>1. h \in Surjection(S, T)
  BY DEF Surjection
<1> HIDE DEF T, h
<1>2. IsFiniteSet(T)
  BY <1>1, FS_Surjection
<1> QED
  BY <1>2 DEF T

\* A finite set of integers has a largest one,
LEMMA MaxLema ==
    ASSUME NEW S \in SUBSET Int, IsFiniteSet(S), S # {}
    PROVE  Max(S) \in S /\ \A y \in S : y <= Max(S)
<1> DEFINE F == {s \in SUBSET S : s # {} => \E x \in s : \A y \in s : y <= x}
<1>1. {} \in F
  OBVIOUS
<1>2. ASSUME NEW s \in SUBSET S, s # {}, \A x \in s : s \ {x} \in F PROVE s \in F
  <2>1. PICK a \in s : TRUE
    BY <1>2
  <2>2. CASE s \ {a} = {}
    BY <2>1, <2>2
  <2>3. CASE s \ {a} # {}
    <3>1. PICK x \in s \ {a} : \A y \in s \ {a} : y <= x
      BY <1>2, <2>1, <2>3
    <3>2. a \in Int /\ x \in Int /\ \A y \in s : y \in Int
      OBVIOUS
    <3>3. CASE a <= x
      BY <3>1, <3>3
    <3>4. CASE x < a
      BY <3>1, <3>2, <3>4
    <3> QED
      BY <3>2, <3>3, <3>4
  <2> QED
    BY <2>2, <2>3
<1>3. S \in F
  <2> HIDE DEF F
  <2>1. \A s \in SUBSET S : s \in F
    BY <1>1, <1>2, InducirPartes
  <2> QED
    BY <2>1
<1>4. \E x \in S : \A y \in S : y <= x
  BY <1>3
<1> QED
  BY <1>4 DEF Max

\* A set of naturals has a smallest one, and it is the one under all of them.
LEMMA MinLema ==
    ASSUME NEW S \in SUBSET Nat, S # {}
    PROVE  Min(S) \in S /\ \A y \in S : Min(S) <= y
<1> DEFINE R == OpToRel(<, Nat)
<1>1. IsWellFoundedOn(R, Nat)
  BY NatLessThanWellFounded
<1>2. PICK x \in S : \A y \in S : ~ (<<y, x>> \in R)
  <2> HIDE DEF R
  <2> QED BY <1>1, WFMin
<1>3. ASSUME NEW y \in S PROVE x <= y
  <2>1. x \in Nat /\ y \in Nat /\ ~ (<<y, x>> \in R)
    BY <1>2
  <2>2. ~ (y < x)
    BY <2>1 DEF OpToRel
  <2> HIDE DEF R
  <2> QED
    BY <2>1, <2>2
<1>4. \E z \in S : \A y \in S : z <= y
  BY <1>3
<1>5. Min(S) \in S /\ \A y \in S : Min(S) <= y
  BY <1>4 DEF Min
<1> QED
  BY <1>5

LEMMA MinUnico ==
    ASSUME NEW S \in SUBSET Nat, NEW x \in S, \A y \in S : x <= y
    PROVE  Min(S) = x
<1>1. Min(S) \in S /\ Min(S) <= x
  BY MinLema
<1>2. x <= Min(S) /\ x \in Nat /\ Min(S) \in Nat
  BY <1>1
<1> HIDE DEF Min
<1> QED
  BY <1>1, <1>2

\* A finite set has parts of every size up to its own.
LEMMA TalladoLema ==
    ASSUME NEW D, IsFiniteSet(D), NEW n \in Nat
    PROVE  \E S \in SUBSET D : Cardinality(S) = IF n < Cardinality(D) THEN n ELSE Cardinality(D)
<1> DEFINE F == {s \in SUBSET D : Cardinality(s) >= n => \E r \in SUBSET s : Cardinality(r) = n}
<1>1. {} \in F
  BY FS_EmptySet
<1>2. ASSUME NEW s \in SUBSET D, s # {}, \A x \in s : s \ {x} \in F PROVE s \in F
  <2>1. PICK x \in s : TRUE
    BY <1>2
  <2>2. IsFiniteSet(s) /\ Cardinality(s) \in Nat
    BY FS_Subset, FS_CardinalityType
  <2>3. Cardinality(s \ {x}) = Cardinality(s) - 1
    BY <2>1, <2>2, FS_RemoveElement
  <2>4. CASE Cardinality(s) = n
    BY <2>4
  <2>5. CASE Cardinality(s) > n
    <3>1. Cardinality(s \ {x}) >= n
      BY <2>2, <2>3, <2>5
    <3>2. PICK r \in SUBSET (s \ {x}) : Cardinality(r) = n
      BY <1>2, <2>1, <3>1
    <3> QED
      BY <3>2
  <2>6. CASE ~(Cardinality(s) >= n)
    BY <2>6
  <2> QED
    BY <2>2, <2>4, <2>5, <2>6
<1> HIDE DEF F
<1>3. D \in F
  BY <1>1, <1>2, InducirPartes
<1>4. Cardinality(D) \in Nat
  BY FS_CardinalityType
<1> QED
  BY <1>3, <1>4 DEF F

\* A finite set of integers has a smallest one too.
LEMMA MinDeEnterosLema ==
    ASSUME NEW S \in SUBSET Int, IsFiniteSet(S), S # {}
    PROVE  Min(S) \in S /\ \A y \in S : Min(S) <= y
<1> DEFINE F == {s \in SUBSET S : s # {} => \E x \in s : \A y \in s : x <= y}
<1>1. {} \in F
  OBVIOUS
<1>2. ASSUME NEW s \in SUBSET S, s # {}, \A x \in s : s \ {x} \in F PROVE s \in F
  <2>1. PICK a \in s : TRUE
    BY <1>2
  <2>2. CASE s \ {a} = {}
    BY <2>1, <2>2
  <2>3. CASE s \ {a} # {}
    <3>1. PICK x \in s \ {a} : \A y \in s \ {a} : x <= y
      BY <1>2, <2>1, <2>3
    <3>2. a \in Int /\ x \in Int /\ \A y \in s : y \in Int
      OBVIOUS
    <3>3. CASE x <= a
      BY <3>1, <3>3
    <3>4. CASE a < x
      BY <3>1, <3>2, <3>4
    <3> QED
      BY <3>2, <3>3, <3>4
  <2> QED
    BY <2>2, <2>3
<1>3. S \in F
  <2> HIDE DEF F
  <2>1. \A s \in SUBSET S : s \in F
    BY <1>1, <1>2, InducirPartes
  <2> QED
    BY <2>1
<1>4. \E x \in S : \A y \in S : x <= y
  BY <1>3
<1> QED
  BY <1>4 DEF Min

\* The largest elements of a finite set, as many as are wanted.
LEMMA MayoresLema ==
    ASSUME NEW D, IsFiniteSet(D), NEW f \in [D -> Int], NEW n \in Nat, n <= Cardinality(D)
    PROVE  \E m \in SUBSET D : Cardinality(m) = n /\ \A i \in m, j \in D \ m : f[i] >= f[j]
<1> DEFINE Hay(k) == \E m \in SUBSET D : Cardinality(m) = k /\ \A i \in m, j \in D \ m : f[i] >= f[j]
           S == {k \in Nat : k <= Cardinality(D) => Hay(k)}
<1>1. 0 \in S
  <2>1. Cardinality({}) = 0 /\ {} \in SUBSET D
    BY FS_EmptySet
  <2>2. Hay(0)
    BY <2>1
  <2> QED
    BY <2>2
<1>2. ASSUME NEW k \in Nat, k \in S PROVE k + 1 \in S
  <2> SUFFICES ASSUME k + 1 <= Cardinality(D) PROVE Hay(k + 1)
    OBVIOUS
  <2>1. Cardinality(D) \in Nat
    BY FS_CardinalityType
  <2>2. PICK m \in SUBSET D : Cardinality(m) = k /\ \A i \in m, j \in D \ m : f[i] >= f[j]
    <3>1. k <= Cardinality(D)
      BY <2>1
    <3> QED
      BY <1>2, <3>1
  <2>3. D \ m # {}
    <3>1. m # D
      BY <2>1, <2>2
    <3> QED
      BY <3>1
  <2> DEFINE r == D \ m
             h == [x \in r |-> f[x]]
             T == {h[x] : x \in r}
  <2>4. IsFiniteSet(m) /\ IsFiniteSet(r)
    BY FS_Subset
  <2>5. IsFiniteSet(T) /\ T \in SUBSET Int /\ T # {}
    <3>1. DOMAIN h = r /\ T \in SUBSET Int /\ T # {}
      BY <2>3
    <3>2. IsFiniteSet(T)
      <4> HIDE DEF r, h
      <4> QED BY <2>4, <3>1, ImagenLema
    <3> QED
      BY <3>1, <3>2
  <2>6. Max(T) \in T /\ \A y \in T : y <= Max(T)
    <3> HIDE DEF T
    <3> QED BY <2>5, MaxLema
  <2>7. PICK e \in r : h[e] = Max(T)
    BY <2>6
  <2>8. \A j \in r : f[e] >= f[j]
    <3> TAKE j \in r
    <3>1. h[j] \in T /\ h[j] = f[j] /\ h[e] = f[e]
      OBVIOUS
    <3>2. f[j] <= f[e]
      BY <2>6, <2>7, <3>1
    <3>3. f[j] \in Int /\ f[e] \in Int
      OBVIOUS
    <3> QED
      BY <3>2, <3>3
  <2>9. Cardinality(m \cup {e}) = k + 1
    <3>1. e \notin m
      OBVIOUS
    <3> QED
      BY <2>2, <2>4, <3>1, FS_AddElement
  <2>10. \A i \in m \cup {e}, j \in D \ (m \cup {e}) : f[i] >= f[j]
    BY <2>2, <2>8
  <2> QED
    <3>1. m \cup {e} \in SUBSET D
      OBVIOUS
    <3> QED
      BY <2>9, <2>10, <3>1
<1>3. n \in S
  <2> HIDE DEF S
  <2>1. \A k \in Nat : k \in S
    BY <1>1, <1>2, Inducir
  <2> QED
    BY <2>1
<1> QED
  BY <1>3
===============================================================================
