-------------------------- MODULE DebtLedgerProofs ---------------------------
(***************************************************************************)
(* For loans of any terms, any number of periods, payments, sessions and   *)
(* edits, and any bounds: the ledger is well typed, its books balance, a   *)
(* single loan has one open position, the assessment of penalties passes   *)
(* over nothing it would change, a paid period keeps its amount, a repair  *)
(* makes the periods add up, the schedule keeps what was previewed, and    *)
(* invoices, receipts and share links agree with it.                       *)
(*                                                                         *)
(* The sums over periods and payments are reasoned about by induction:     *)
(* a set of counterexamples has a least member, because < is well founded  *)
(* on the naturals and strict inclusion on the subsets of a finite set.    *)
(***************************************************************************)
EXTENDS DebtLedger, FiniteSetTheorems, SequenceTheorems, WellFoundedInduction, TLAPS

-----------------------------------------------------------------------------
(* Sums of functions.                                                      *)

\* A set of subsets of a finite set has a member that includes no other.
LEMMA LeastSet ==
  ASSUME NEW S, IsFiniteSet(S), NEW B, B \subseteq SUBSET S, B # {}
  PROVE  \E T \in B : \A U \in B : ~(U \subseteq T /\ U # T)
<1>1. IsWellFoundedOn(StrictSubsetOrdering(S), SUBSET S)
  BY FS_StrictSubsetOrderingWellFounded, FS_FiniteSubsetsOfFinite
<1>2. PICK T \in B : \A U \in B : ~(<<U, T>> \in StrictSubsetOrdering(S))
  BY <1>1, WFMin
<1> QED
  BY <1>2 DEF StrictSubsetOrdering

\* A set of natural numbers has a least member.
LEMMA LeastNat ==
  ASSUME NEW B, B \subseteq Nat, B # {}
  PROVE  \E n \in B : \A m \in B : n <= m
<1>1. OpToRel(<, Nat) = {ss \in Nat \X Nat : ss[1] < ss[2]}
  BY ZenonT(30) DEF OpToRel
<1>2. IsWellFoundedOn({ss \in Nat \X Nat : ss[1] < ss[2]}, Nat)
  BY <1>1, NatLessThanWellFounded, Zenon
<1>3. PICK n \in B : \A m \in B : ~(<<m, n>> \in {ss \in Nat \X Nat : ss[1] < ss[2]})
  BY <1>2, WFMin
<1>4. ASSUME NEW m \in B PROVE n <= m
  <2>1. m \in Nat /\ n \in Nat
    OBVIOUS
  <2>2. ~(<<m, n>> \in {ss \in Nat \X Nat : ss[1] < ss[2]})
    BY <1>3
  <2>3. ~(m < n)
    BY <2>1, <2>2
  <2> QED
    BY <2>1, <2>3
<1> QED
  BY <1>4

Pick(s) == CHOOSE x \in s : TRUE
Body(f, S, h) == [s \in SUBSET S |-> IF s = {} THEN 0 ELSE f[Pick(s)] + h[s \ {Pick(s)}]]

\* The sum over a set is read off a function on its subsets that takes one member at a time.
LEMMA Unfold ==
  ASSUME NEW f, NEW S
  PROVE  SumFunctionOnSet(f, S) = (CHOOSE h : h = Body(f, S, h))[S]
  BY DEF SumFunctionOnSet, FoldFunctionOnSet, MapThenFoldSet, Body, Pick

Level(S, n) == {s \in SUBSET S : Cardinality(s) <= n}
Follows(f, s, h) == h[s] = IF s = {} THEN 0 ELSE f[Pick(s)] + h[s \ {Pick(s)}]

\* Taking a member from a subset of a finite set leaves a smaller one.
LEMMA Subsets ==
  ASSUME NEW S, IsFiniteSet(S), NEW s \in SUBSET S
  PROVE  /\ IsFiniteSet(s) /\ Cardinality(s) \in Nat /\ (Cardinality(s) = 0 <=> s = {})
         /\ Cardinality(s) <= Cardinality(S)
         /\ s # {} => /\ Pick(s) \in s /\ s \ {Pick(s)} \in SUBSET S
                      /\ Cardinality(s \ {Pick(s)}) = Cardinality(s) - 1
<1>1. IsFiniteSet(s) /\ Cardinality(s) <= Cardinality(S)
  BY FS_Subset
<1>2. s # {} => Pick(s) \in s
  BY DEF Pick
<1> QED
  BY <1>1, <1>2, FS_RemoveElement, FS_EmptySet, FS_CardinalityType

\* The function the sum is read off exists.
LEMMA Exists ==
  ASSUME NEW f, NEW S, IsFiniteSet(S)
  PROVE  \E h : h = Body(f, S, h)
<1> DEFINE B == {n \in Nat : ~\E h : DOMAIN h = Level(S, n) /\ \A s \in Level(S, n) : Follows(f, s, h)}
<1>1. \A s \in SUBSET S : Cardinality(s) \in Nat /\ (Cardinality(s) = 0 <=> s = {})
  BY Subsets
<1>2. \A s \in SUBSET S : s # {} => s \ {Pick(s)} \in SUBSET S /\ Cardinality(s \ {Pick(s)}) = Cardinality(s) - 1
  BY Subsets
<1>3. B = {}
  <2> SUFFICES ASSUME B # {} PROVE FALSE
    OBVIOUS
  <2>1. PICK n \in B : \A m \in B : n <= m
    BY LeastNat
  <2>2. n # 0
    <3> DEFINE h == [s \in Level(S, 0) |-> 0]
    <3>1. \A s \in Level(S, 0) : s = {}
      BY <1>1 DEF Level
    <3>2. \A s \in Level(S, 0) : Follows(f, s, h)
      BY <3>1 DEF Follows
    <3>3. DOMAIN h = Level(S, 0)
      OBVIOUS
    <3> QED
      BY <3>2, <3>3
  <2>3. n \in Nat /\ n - 1 \in Nat /\ n - 1 \notin B
    BY <2>1, <2>2
  <2>4. PICK g : DOMAIN g = Level(S, n - 1) /\ \A s \in Level(S, n - 1) : Follows(f, s, g)
    BY <2>3
  <2> DEFINE h == [s \in Level(S, n) |-> IF s \in Level(S, n - 1) THEN g[s] ELSE f[Pick(s)] + g[s \ {Pick(s)}]]
  <2>5. ASSUME NEW s \in Level(S, n) PROVE Follows(f, s, h)
    <3>1. s = {} => s \in Level(S, n - 1)
      BY <1>1, <2>3 DEF Level
    <3>2. s # {} => s \ {Pick(s)} \in Level(S, n - 1) /\ s \ {Pick(s)} \in Level(S, n)
      BY <1>1, <1>2, <2>3 DEF Level
    <3>3. s # {} => h[s \ {Pick(s)}] = g[s \ {Pick(s)}]
      BY <3>2
    <3>4. s \in Level(S, n - 1) => Follows(f, s, g)
      BY <2>4
    <3> QED
      BY <3>1, <3>2, <3>3, <3>4 DEF Follows
  <2>6. DOMAIN h = Level(S, n)
    OBVIOUS
  <2> HIDE DEF h
  <2>7. n \notin B
    BY <2>3, <2>5, <2>6
  <2> QED
    BY <2>7
<1>4. Cardinality(S) \in Nat
  BY FS_CardinalityType
<1>5. PICK h : DOMAIN h = Level(S, Cardinality(S)) /\ \A s \in Level(S, Cardinality(S)) : Follows(f, s, h)
  BY <1>3, <1>4
<1>6. Level(S, Cardinality(S)) = SUBSET S
  BY Subsets DEF Level
<1> DEFINE k == [s \in SUBSET S |-> h[s]]
<1>7. ASSUME NEW s \in SUBSET S PROVE k[s] = IF s = {} THEN 0 ELSE f[Pick(s)] + k[s \ {Pick(s)}]
  BY <1>5, <1>6, Subsets DEF Follows
<1>8. k = Body(f, S, k)
  BY <1>7 DEF Body
<1> QED
  BY <1>8

\* One step of the sum.
LEMMA SumPick ==
  ASSUME NEW f, NEW S, IsFiniteSet(S)
  PROVE  SumFunctionOnSet(f, S) =
           IF S = {} THEN 0 ELSE f[Pick(S)] + SumFunctionOnSet(f, S \ {Pick(S)})
<1> DEFINE H(T) == CHOOSE h : h = Body(f, T, h)
<1>1. ASSUME NEW T, IsFiniteSet(T) PROVE H(T) = Body(f, T, H(T))
  BY <1>1, Exists
<1>u. ASSUME NEW T PROVE SumFunctionOnSet(f, T) = H(T)[T]
  BY Unfold
<1> HIDE DEF H
<1>v. ASSUME NEW T, IsFiniteSet(T), NEW s \in SUBSET T
      PROVE  H(T)[s] = IF s = {} THEN 0 ELSE f[Pick(s)] + H(T)[s \ {Pick(s)}]
  <2>1. Body(f, T, H(T))[s] = IF s = {} THEN 0 ELSE f[Pick(s)] + H(T)[s \ {Pick(s)}]
    BY DEF Body
  <2> QED
    BY <1>1, <1>v, <2>1
<1>2. CASE S = {}
  <2>1. H(S)[S] = 0
    BY <1>2, <1>v
  <2> QED
    BY <1>2, <1>u, <2>1
<1>3. CASE S # {}
  <2> DEFINE T == S \ {Pick(S)}
             B == {s \in SUBSET T : H(S)[s] # H(T)[s]}
  <2>1. Pick(S) \in S /\ IsFiniteSet(T)
    BY <1>3, Subsets, FS_RemoveElement
  <2>2. B \subseteq SUBSET T
    OBVIOUS
  <2>3. ASSUME NEW s \in B PROVE s \in SUBSET S /\ s \in SUBSET T /\ H(S)[s] # H(T)[s]
    OBVIOUS
  <2>4. ASSUME NEW s \in SUBSET T, s \notin B PROVE H(S)[s] = H(T)[s]
    BY <2>4
  <2>5. T \in SUBSET S
    OBVIOUS
  <2> HIDE DEF B, T
  <2>6. B = {}
    <3> SUFFICES ASSUME B # {} PROVE FALSE
      OBVIOUS
    <3>1. PICK s \in B : \A U \in B : ~(U \subseteq s /\ U # s)
      BY <2>1, <2>2, LeastSet
    <3>2. s \in SUBSET T /\ s \in SUBSET S /\ H(S)[s] # H(T)[s]
      BY <2>3
    <3>3. H(S)[s] = IF s = {} THEN 0 ELSE f[Pick(s)] + H(S)[s \ {Pick(s)}]
      BY <3>2, <1>v
    <3>4. H(T)[s] = IF s = {} THEN 0 ELSE f[Pick(s)] + H(T)[s \ {Pick(s)}]
      BY <2>1, <3>2, <1>v
    <3>5. s # {}
      BY <3>2, <3>3, <3>4
    <3>6. Pick(s) \in s
      BY <3>5 DEF Pick
    <3>7. H(S)[s \ {Pick(s)}] = H(T)[s \ {Pick(s)}]
      BY <3>1, <3>2, <3>6, <2>4
    <3> QED
      BY <3>2, <3>3, <3>4, <3>5, <3>7
  <2>7. H(S)[S] = f[Pick(S)] + H(S)[S \ {Pick(S)}]
    BY <1>3, <1>v
  <2>8. H(S)[S \ {Pick(S)}] = H(T)[T]
    BY <2>6, <2>4 DEF T
  <2>9. SumFunctionOnSet(f, S) = H(S)[S] /\ SumFunctionOnSet(f, S \ {Pick(S)}) = H(T)[T]
    BY <1>u DEF T
  <2> QED
    BY <1>3, <2>7, <2>8, <2>9
<1> QED
  BY <1>2, <1>3

\* The empty sum is zero.
LEMMA SumEmpty == \A f : SumFunctionOnSet(f, {}) = 0
  BY SumPick, FS_EmptySet

\* Sums of integers are integers.
LEMMA SumInt ==
  ASSUME NEW f, NEW S, IsFiniteSet(S), \A x \in S : f[x] \in Int
  PROVE  SumFunctionOnSet(f, S) \in Int
<1> DEFINE B == {T \in SUBSET S : SumFunctionOnSet(f, T) \notin Int}
<1>1. /\ B \subseteq SUBSET S
      /\ \A T \in B : SumFunctionOnSet(f, T) \notin Int
      /\ \A T \in SUBSET S : T \notin B => SumFunctionOnSet(f, T) \in Int
  OBVIOUS
<1> HIDE DEF B
<1>2. B = {}
  <2> SUFFICES ASSUME B # {} PROVE FALSE
    OBVIOUS
  <2>1. PICK T \in B : \A U \in B : ~(U \subseteq T /\ U # T)
    BY <1>1, LeastSet
  <2>2. T \in SUBSET S /\ IsFiniteSet(T) /\ T # {}
    <3>1. T \in SUBSET S
      BY <1>1
    <3>2. SumFunctionOnSet(f, {}) \in Int
      BY SumEmpty
    <3>3. T # {}
      BY <1>1, <3>2
    <3> QED
      BY <3>1, <3>3, Subsets
  <2>3. Pick(T) \in T /\ T \ {Pick(T)} \in SUBSET S /\ T \ {Pick(T)} # T
    BY <2>2 DEF Pick
  <2>4. SumFunctionOnSet(f, T \ {Pick(T)}) \in Int
    BY <1>1, <2>1, <2>3
  <2>5. f[Pick(T)] \in Int
    BY <2>2, <2>3
  <2>6. SumFunctionOnSet(f, T) = f[Pick(T)] + SumFunctionOnSet(f, T \ {Pick(T)})
    BY <2>2, SumPick
  <2> QED
    BY <1>1, <2>4, <2>5, <2>6
<1> QED
  BY <1>1, <1>2

\* A sum is any one of its terms and the sum of the others: the order does not matter.
LEMMA SumRemove ==
  ASSUME NEW f, NEW S, IsFiniteSet(S), \A x \in S : f[x] \in Int, NEW x \in S
  PROVE  SumFunctionOnSet(f, S) = f[x] + SumFunctionOnSet(f, S \ {x})
<1> DEFINE Good(T) == \A y \in T : SumFunctionOnSet(f, T) = f[y] + SumFunctionOnSet(f, T \ {y})
           B == {T \in SUBSET S : ~Good(T)}
<1>1. /\ B \subseteq SUBSET S
      /\ \A T \in B : ~Good(T)
      /\ \A T \in SUBSET S : T \notin B => Good(T)
  OBVIOUS
<1> HIDE DEF B
<1>2. B = {}
  <2> SUFFICES ASSUME B # {} PROVE FALSE
    OBVIOUS
  <2>1. PICK T \in B : \A U \in B : ~(U \subseteq T /\ U # T)
    BY <1>1, LeastSet
  <2>2. PICK y \in T : SumFunctionOnSet(f, T) # f[y] + SumFunctionOnSet(f, T \ {y})
    BY <1>1
  <2> DEFINE p == Pick(T)
  <2>3. p \in T /\ T \in SUBSET S /\ IsFiniteSet(T) /\ T # {}
    BY <1>1, Subsets DEF Pick
  <2>4. SumFunctionOnSet(f, T) = f[p] + SumFunctionOnSet(f, T \ {p})
    BY <2>3, SumPick
  <2> HIDE DEF p
  <2>5. y # p
    BY <2>2, <2>4
  <2>6. Good(T \ {p}) /\ Good(T \ {y})
    <3>1. T \ {p} \notin B /\ T \ {y} \notin B
      BY <2>1, <2>3
    <3> QED
      BY <1>1, <2>3, <3>1
  <2>7. /\ SumFunctionOnSet(f, T \ {p}) = f[y] + SumFunctionOnSet(f, (T \ {p}) \ {y})
        /\ SumFunctionOnSet(f, T \ {y}) = f[p] + SumFunctionOnSet(f, (T \ {y}) \ {p})
    BY <2>3, <2>5, <2>6
  <2>8. (T \ {p}) \ {y} = (T \ {y}) \ {p}
    OBVIOUS
  <2>9. SumFunctionOnSet(f, (T \ {y}) \ {p}) \in Int
    <3> DEFINE U == (T \ {y}) \ {p}
    <3>1. U \in SUBSET S
      BY <2>3
    <3> HIDE DEF U
    <3>2. IsFiniteSet(U)
      BY <3>1, Subsets
    <3>3. \A z \in U : f[z] \in Int
      BY <3>1
    <3>4. SumFunctionOnSet(f, U) \in Int
      BY <3>2, <3>3, SumInt
    <3> QED
      BY <3>4 DEF U
  <2>10. f[p] \in Int /\ f[y] \in Int
    BY <2>3
  <2>11. SumFunctionOnSet(f, (T \ {p}) \ {y}) = SumFunctionOnSet(f, (T \ {y}) \ {p})
    BY <2>8
  <2>12. \A a, b, c \in Int : a + (b + c) = b + (a + c)
    OBVIOUS
  <2> QED
    BY <2>2, <2>4, <2>7, <2>9, <2>10, <2>11, <2>12
<1> QED
  BY <1>1, <1>2

\* Induction, over the natural numbers and over the subsets of a finite set: G holds what
\* the statement is true of.
LEMMA UpFromZero ==
  ASSUME NEW G, 0 \in G, \A n \in Nat : n \in G => n + 1 \in G
  PROVE  \A n \in Nat : n \in G
<1> SUFFICES ASSUME Nat \ G # {} PROVE FALSE
  OBVIOUS
<1>1. PICK n \in Nat \ G : \A m \in Nat \ G : n <= m
  BY LeastNat
<1>2. n # 0 /\ n - 1 \in Nat /\ n - 1 + 1 = n
  OBVIOUS
<1>3. n - 1 \in G
  BY <1>1, <1>2
<1> QED
  BY <1>2, <1>3

\* A set of sets that holds {}, and T whenever it holds T without a member, holds every subset of S.
LEMMA UpFromEmpty ==
  ASSUME NEW S, IsFiniteSet(S), NEW G, {} \in G,
         \A T \in SUBSET S : \A x \in T : T \ {x} \in G => T \in G
  PROVE  \A T \in SUBSET S : T \in G
<1> DEFINE B == {T \in SUBSET S : T \notin G}
<1>1. B \subseteq SUBSET S /\ \A T \in SUBSET S : T \in B <=> T \notin G
  OBVIOUS
<1> HIDE DEF B
<1> SUFFICES ASSUME B # {} PROVE FALSE
  BY <1>1
<1>2. PICK T \in B : \A U \in B : ~(U \subseteq T /\ U # T)
  BY <1>1, LeastSet
<1>3. T \in SUBSET S /\ T \notin G
  BY <1>1
<1>4. PICK x \in T : TRUE
  BY <1>3
<1>5. T \ {x} \in SUBSET S /\ T \ {x} # T /\ T \ {x} \subseteq T
  BY <1>3, <1>4
<1>6. T \ {x} \in G
  BY <1>1, <1>2, <1>5
<1> QED
  BY <1>3, <1>4, <1>6

\* A set of sets that holds T whenever it holds T without each of its members, holds every subset of S.
LEMMA UpFromSmaller ==
  ASSUME NEW S, IsFiniteSet(S), NEW G,
         \A T \in SUBSET S : (\A x \in T : T \ {x} \in G) => T \in G
  PROVE  \A T \in SUBSET S : T \in G
<1> DEFINE B == {T \in SUBSET S : T \notin G}
<1>1. B \subseteq SUBSET S /\ \A T \in SUBSET S : T \in B <=> T \notin G
  OBVIOUS
<1> HIDE DEF B
<1> SUFFICES ASSUME B # {} PROVE FALSE
  BY <1>1
<1>2. PICK T \in B : \A U \in B : ~(U \subseteq T /\ U # T)
  BY <1>1, LeastSet
<1>3. T \in SUBSET S /\ T \notin G
  BY <1>1
<1>4. ASSUME NEW x \in T PROVE T \ {x} \in G
  <2>1. T \ {x} \in SUBSET S /\ T \ {x} # T /\ T \ {x} \subseteq T
    BY <1>3, <1>4
  <2> QED
    BY <1>1, <1>2, <2>1
<1> QED
  BY <1>3, <1>4

\* Functions that agree on S have the same sum over it.
LEMMA SumSame ==
  ASSUME NEW f, NEW g, NEW S, IsFiniteSet(S), \A x \in S : f[x] = g[x]
  PROVE  SumFunctionOnSet(f, S) = SumFunctionOnSet(g, S)
<1> DEFINE G == {T \in SUBSET S : SumFunctionOnSet(f, T) = SumFunctionOnSet(g, T)}
<1>1. G = {T \in SUBSET S : SumFunctionOnSet(f, T) = SumFunctionOnSet(g, T)}
  OBVIOUS
<1> HIDE DEF G
<1>2. {} \in G
  BY <1>1, SumEmpty
<1>3. ASSUME NEW T \in SUBSET S, T # {}, T \ {Pick(T)} \in G PROVE T \in G
  <2>1. IsFiniteSet(T) /\ Pick(T) \in T
    BY <1>3, Subsets
  <2>2. f[Pick(T)] = g[Pick(T)]
    BY <2>1
  <2>3. SumFunctionOnSet(f, T \ {Pick(T)}) = SumFunctionOnSet(g, T \ {Pick(T)})
    BY <1>1, <1>3
  <2>4. SumFunctionOnSet(f, T) = f[Pick(T)] + SumFunctionOnSet(f, T \ {Pick(T)})
    BY <1>3, <2>1, SumPick
  <2>5. SumFunctionOnSet(g, T) = g[Pick(T)] + SumFunctionOnSet(g, T \ {Pick(T)})
    BY <1>3, <2>1, SumPick
  <2> QED
    BY <1>1, <2>2, <2>3, <2>4, <2>5
<1>4. ASSUME NEW T \in SUBSET S, \A x \in T : T \ {x} \in G PROVE T \in G
  <2>1. T # {} => Pick(T) \in T
    BY DEF Pick
  <2> QED
    BY <1>2, <1>3, <1>4, <2>1
<1>5. S \in G
  <2>1. \A T \in SUBSET S : (\A x \in T : T \ {x} \in G) => T \in G
    BY <1>4
  <2>2. \A T \in SUBSET S : T \in G
    BY <2>1, UpFromSmaller
  <2> QED
    BY <2>2
<1> QED
  BY <1>1, <1>5

\* The sum of a sum.
LEMMA SumPlus ==
  ASSUME NEW f, NEW g, NEW h, NEW S, IsFiniteSet(S),
         \A x \in S : f[x] \in Int /\ g[x] \in Int /\ h[x] = f[x] + g[x]
  PROVE  SumFunctionOnSet(h, S) = SumFunctionOnSet(f, S) + SumFunctionOnSet(g, S)
<1> DEFINE G == {T \in SUBSET S : SumFunctionOnSet(h, T) = SumFunctionOnSet(f, T) + SumFunctionOnSet(g, T)}
<1>1. G = {T \in SUBSET S : SumFunctionOnSet(h, T) = SumFunctionOnSet(f, T) + SumFunctionOnSet(g, T)}
  OBVIOUS
<1> HIDE DEF G
<1>2. {} \in G
  BY <1>1, SumEmpty
<1>3. ASSUME NEW T \in SUBSET S, NEW x \in T, T \ {x} \in G PROVE T \in G
  <2>1. IsFiniteSet(T) /\ IsFiniteSet(T \ {x})
    BY Subsets
  <2>2. f[x] \in Int /\ g[x] \in Int /\ h[x] = f[x] + g[x] /\ h[x] \in Int
    OBVIOUS
  <2>3. SumFunctionOnSet(f, T \ {x}) \in Int /\ SumFunctionOnSet(g, T \ {x}) \in Int
    BY <2>1, SumInt
  <2>4. SumFunctionOnSet(f, T) = f[x] + SumFunctionOnSet(f, T \ {x})
    BY <2>1, SumRemove
  <2>5. SumFunctionOnSet(g, T) = g[x] + SumFunctionOnSet(g, T \ {x})
    BY <2>1, SumRemove
  <2>6. SumFunctionOnSet(h, T) = h[x] + SumFunctionOnSet(h, T \ {x})
    <3>1. \A y \in T : h[y] \in Int
      OBVIOUS
    <3> QED
      BY <2>1, <3>1, SumRemove
  <2>7. SumFunctionOnSet(h, T \ {x}) = SumFunctionOnSet(f, T \ {x}) + SumFunctionOnSet(g, T \ {x})
    BY <1>1, <1>3
  <2>8. SumFunctionOnSet(h, T) = SumFunctionOnSet(f, T) + SumFunctionOnSet(g, T)
    BY <2>2, <2>3, <2>4, <2>5, <2>6, <2>7
  <2> QED
    BY <1>1, <2>8
<1>4. S \in G
  <2>1. \A T \in SUBSET S : \A x \in T : T \ {x} \in G => T \in G
    BY <1>3
  <2> QED
    BY <1>2, <2>1, UpFromEmpty
<1> QED
  BY <1>1, <1>4

\* Smaller terms, smaller sum.
LEMMA SumLess ==
  ASSUME NEW f, NEW g, NEW S, IsFiniteSet(S),
         \A x \in S : f[x] \in Int /\ g[x] \in Int /\ f[x] <= g[x]
  PROVE  SumFunctionOnSet(f, S) <= SumFunctionOnSet(g, S)
<1> DEFINE G == {T \in SUBSET S : SumFunctionOnSet(f, T) <= SumFunctionOnSet(g, T)}
<1>1. G = {T \in SUBSET S : SumFunctionOnSet(f, T) <= SumFunctionOnSet(g, T)}
  OBVIOUS
<1> HIDE DEF G
<1>2. {} \in G
  BY <1>1, SumEmpty
<1>3. ASSUME NEW T \in SUBSET S, NEW x \in T, T \ {x} \in G PROVE T \in G
  <2>1. IsFiniteSet(T) /\ IsFiniteSet(T \ {x})
    BY Subsets
  <2>2. f[x] \in Int /\ g[x] \in Int /\ f[x] <= g[x]
    OBVIOUS
  <2>3. SumFunctionOnSet(f, T \ {x}) \in Int /\ SumFunctionOnSet(g, T \ {x}) \in Int
    BY <2>1, SumInt
  <2>4. SumFunctionOnSet(f, T) = f[x] + SumFunctionOnSet(f, T \ {x})
    BY <2>1, SumRemove
  <2>5. SumFunctionOnSet(g, T) = g[x] + SumFunctionOnSet(g, T \ {x})
    BY <2>1, SumRemove
  <2>7. SumFunctionOnSet(f, T \ {x}) <= SumFunctionOnSet(g, T \ {x})
    BY <1>1, <1>3
  <2>8. SumFunctionOnSet(f, T) <= SumFunctionOnSet(g, T)
    BY <2>2, <2>3, <2>4, <2>5, <2>7
  <2> QED
    BY <1>1, <2>8
<1>4. S \in G
  <2>1. \A T \in SUBSET S : \A x \in T : T \ {x} \in G => T \in G
    BY <1>3
  <2> QED
    BY <1>2, <2>1, UpFromEmpty
<1> QED
  BY <1>1, <1>4

\* Nothing but zeros.
LEMMA SumZero ==
  ASSUME NEW f, NEW S, IsFiniteSet(S), \A x \in S : f[x] = 0
  PROVE  SumFunctionOnSet(f, S) = 0
<1> DEFINE z == [x \in S |-> 0]
<1>1. \A x \in S : z[x] \in Int /\ z[x] = z[x] + z[x]
  OBVIOUS
<1>2. SumFunctionOnSet(f, S) = SumFunctionOnSet(z, S)
  BY SumSame
<1> HIDE DEF z
<1>3. SumFunctionOnSet(z, S) \in Int
  BY <1>1, SumInt
<1>4. SumFunctionOnSet(z, S) = SumFunctionOnSet(z, S) + SumFunctionOnSet(z, S)
  BY <1>1, SumPlus
<1> QED
  BY <1>2, <1>3, <1>4

\* Natural terms: the sum is a natural number that no term exceeds.
LEMMA SumNat ==
  ASSUME NEW f, NEW S, IsFiniteSet(S), \A x \in S : f[x] \in Nat
  PROVE  /\ SumFunctionOnSet(f, S) \in Nat
         /\ \A x \in S : f[x] <= SumFunctionOnSet(f, S)
<1>1. ASSUME NEW T \in SUBSET S PROVE SumFunctionOnSet(f, T) \in Nat
  <2> DEFINE z == [x \in T |-> 0]
  <2>1. \A x \in T : z[x] = 0 /\ z[x] \in Int /\ f[x] \in Int /\ z[x] <= f[x]
    OBVIOUS
  <2>2. IsFiniteSet(T)
    BY Subsets
  <2> HIDE DEF z
  <2>3. SumFunctionOnSet(z, T) = 0
    BY <2>1, <2>2, SumZero
  <2>4. SumFunctionOnSet(z, T) <= SumFunctionOnSet(f, T)
    BY <2>1, <2>2, SumLess
  <2>5. SumFunctionOnSet(f, T) \in Int
    BY <2>1, <2>2, SumInt
  <2> QED
    BY <2>3, <2>4, <2>5
<1>2. ASSUME NEW x \in S PROVE f[x] <= SumFunctionOnSet(f, S)
  <2>1. SumFunctionOnSet(f, S \ {x}) \in Nat
    BY <1>1
  <2>2. SumFunctionOnSet(f, S) = f[x] + SumFunctionOnSet(f, S \ {x})
    <3>1. \A y \in S : f[y] \in Int
      OBVIOUS
    <3> QED
      BY <3>1, SumRemove
  <2>3. f[x] \in Nat
    OBVIOUS
  <2> QED
    BY <2>1, <2>2, <2>3
<1> QED
  BY <1>1, <1>2

\* The sum over two sets without a common member.
LEMMA SumUnion ==
  ASSUME NEW f, NEW S, NEW R, IsFiniteSet(S), IsFiniteSet(R), S \cap R = {},
         \A x \in S \cup R : f[x] \in Int
  PROVE  SumFunctionOnSet(f, S \cup R) = SumFunctionOnSet(f, S) + SumFunctionOnSet(f, R)
<1> DEFINE G == {T \in SUBSET S : SumFunctionOnSet(f, T \cup R) = SumFunctionOnSet(f, T) + SumFunctionOnSet(f, R)}
<1>1. G = {T \in SUBSET S : SumFunctionOnSet(f, T \cup R) = SumFunctionOnSet(f, T) + SumFunctionOnSet(f, R)}
  OBVIOUS
<1> HIDE DEF G
<1>0. SumFunctionOnSet(f, R) \in Int
  BY SumInt
<1>2. {} \in G
  <2>1. {} \cup R = R
    OBVIOUS
  <2>2. SumFunctionOnSet(f, {} \cup R) = SumFunctionOnSet(f, {}) + SumFunctionOnSet(f, R)
    BY <1>0, <2>1, SumEmpty
  <2> QED
    BY <1>1, <2>2
<1>3. ASSUME NEW T \in SUBSET S, NEW x \in T, T \ {x} \in G PROVE T \in G
  <2>1. IsFiniteSet(T) /\ IsFiniteSet(T \ {x}) /\ IsFiniteSet(T \cup R) /\ x \in T \cup R
    <3>1. IsFiniteSet(T)
      BY Subsets
    <3>2. IsFiniteSet(T \ {x})
      BY <3>1, FS_RemoveElement
    <3>3. IsFiniteSet(T \cup R)
      BY <3>1, FS_Union
    <3> QED
      BY <3>1, <3>2, <3>3
  <2>2. f[x] \in Int
    OBVIOUS
  <2>3. SumFunctionOnSet(f, T \ {x}) \in Int
    BY <2>1, SumInt
  <2>4. SumFunctionOnSet(f, T) = f[x] + SumFunctionOnSet(f, T \ {x})
    BY <2>1, SumRemove
  <2>5. SumFunctionOnSet(f, T \cup R) = f[x] + SumFunctionOnSet(f, (T \cup R) \ {x})
    <3>1. \A y \in T \cup R : f[y] \in Int
      OBVIOUS
    <3> QED
      BY <2>1, <3>1, SumRemove
  <2>6. SumFunctionOnSet(f, (T \cup R) \ {x}) = SumFunctionOnSet(f, (T \ {x}) \cup R)
    <3>1. (T \cup R) \ {x} = (T \ {x}) \cup R
      OBVIOUS
    <3> QED
      BY <3>1
  <2>7. SumFunctionOnSet(f, (T \ {x}) \cup R) = SumFunctionOnSet(f, T \ {x}) + SumFunctionOnSet(f, R)
    BY <1>1, <1>3
  <2>8. SumFunctionOnSet(f, T \cup R) = SumFunctionOnSet(f, T) + SumFunctionOnSet(f, R)
    BY <1>0, <2>2, <2>3, <2>4, <2>5, <2>6, <2>7
  <2> QED
    BY <1>1, <2>8
<1>4. S \in G
  <2>1. \A T \in SUBSET S : \A x \in T : T \ {x} \in G => T \in G
    BY <1>3
  <2>2. \A T \in SUBSET S : T \in G
    BY <1>2, <2>1, UpFromEmpty
  <2> QED
    BY <2>2
<1> QED
  BY <1>1, <1>4

\* One more term at the end.
LEMMA SumStep ==
  ASSUME NEW f, NEW n \in Nat, \A i \in 1..(n + 1) : f[i] \in Int
  PROVE  SumFunctionOnSet(f, 1..(n + 1)) = SumFunctionOnSet(f, 1..n) + f[n + 1]
<1>1. IsFiniteSet(1..(n + 1)) /\ IsFiniteSet(1..n)
  BY FS_Interval
<1>2. n + 1 \in 1..(n + 1) /\ (1..(n + 1)) \ {n + 1} = 1..n
  OBVIOUS
<1>r. SumFunctionOnSet(f, 1..(n + 1)) = f[n + 1] + SumFunctionOnSet(f, (1..(n + 1)) \ {n + 1})
  BY <1>1, <1>2, SumRemove
<1>3. SumFunctionOnSet(f, 1..(n + 1)) = f[n + 1] + SumFunctionOnSet(f, 1..n)
  BY <1>2, <1>r
<1>4. SumFunctionOnSet(f, 1..n) \in Int
  <2>1. \A i \in 1..n : f[i] \in Int
    OBVIOUS
  <2> QED
    BY <1>1, <2>1, SumInt
<1>5. f[n + 1] \in Int
  BY <1>2
<1> QED
  BY <1>3, <1>4, <1>5

\* Equal terms.
LEMMA SumEqual ==
  ASSUME NEW f, NEW n \in Nat, NEW b \in Int, \A i \in 1..n : f[i] = b
  PROVE  SumFunctionOnSet(f, 1..n) = b * n
<1> DEFINE c == [i \in Nat |-> b]
           G == {k \in Nat : SumFunctionOnSet(c, 1..k) = b * k}
<1>1. G = {k \in Nat : SumFunctionOnSet(c, 1..k) = b * k} /\ \A k \in Nat : c[k] = b
  OBVIOUS
<1>2. SumFunctionOnSet(f, 1..n) = SumFunctionOnSet(c, 1..n)
  <2>1. \A i \in 1..n : f[i] = c[i]
    OBVIOUS
  <2>2. IsFiniteSet(1..n)
    BY FS_Interval
  <2> HIDE DEF c
  <2> QED
    BY <2>1, <2>2, SumSame
<1> HIDE DEF G, c
<1>3. 0 \in G
  <2>1. 1..0 = {}
    OBVIOUS
  <2>2. b * 0 = 0
    OBVIOUS
  <2> QED
    BY <1>1, <2>1, <2>2, SumEmpty
<1>4. ASSUME NEW k \in Nat, k \in G PROVE k + 1 \in G
  <2>1. SumFunctionOnSet(c, 1..(k + 1)) = SumFunctionOnSet(c, 1..k) + c[k + 1]
    BY <1>1, SumStep
  <2>2. b * k + b = b * (k + 1)
    OBVIOUS
  <2> QED
    BY <1>1, <1>4, <2>1, <2>2
<1>5. n \in G
  BY <1>3, <1>4, UpFromZero
<1> QED
  BY <1>1, <1>2, <1>5

\* g adds up, for each number up to n, the part of f that has the number as its key.
ByKey(f, key, S, g, n, of, all) ==
  /\ \A x \in S : f[x] \in Int
  /\ \A k \in 1..n : g[k] = SumFunctionOnSet(f, of[k]) /\ \A x : x \in of[k] <=> x \in S /\ key[x] = k
  /\ \A x : x \in all <=> x \in S /\ key[x] \in 1..n

\* Sorted by a key from 1 to n, the partial sums add up to the sum.
LEMMA SumByKey ==
  ASSUME NEW f, NEW key, NEW S, IsFiniteSet(S), NEW g, NEW n \in Nat, NEW of, NEW all, ByKey(f, key, S, g, n, of, all)
  PROVE  SumFunctionOnSet(g, 1..n) = SumFunctionOnSet(f, all)
<1> DEFINE Of(k) == {x \in S : key[x] = k}
           UpTo(k) == {x \in S : key[x] \in 1..k}
           c == [k \in Nat |-> SumFunctionOnSet(f, Of(k))]
           G == {k \in Nat : SumFunctionOnSet(c, 1..k) = SumFunctionOnSet(f, UpTo(k))}
<1>0. /\ \A x \in S : f[x] \in Int
      /\ \A k \in 1..n : g[k] = SumFunctionOnSet(f, of[k]) /\ \A x : x \in of[k] <=> x \in S /\ key[x] = k
      /\ \A x : x \in all <=> x \in S /\ key[x] \in 1..n
  BY DEF ByKey
<1>1. /\ \A k \in Nat : k \in G <=> SumFunctionOnSet(c, 1..k) = SumFunctionOnSet(f, UpTo(k))
      /\ \A k \in Nat : c[k] = SumFunctionOnSet(f, Of(k))
      /\ UpTo(0) = {}
  OBVIOUS
<1>2. \A k \in 1..n : g[k] = SumFunctionOnSet(f, Of(k))
  <2> TAKE k \in 1..n
  <2>1. of[k] = Of(k)
    BY <1>0
  <2> QED
    BY <1>0, <2>1
<1>u. UpTo(n) = all
  BY <1>0
<1>3. \A k \in Nat : /\ Of(k) \subseteq S /\ UpTo(k) \subseteq S /\ UpTo(k) \cap Of(k + 1) = {}
                     /\ UpTo(k + 1) = UpTo(k) \cup Of(k + 1)
  OBVIOUS
<1> HIDE DEF G, c, Of, UpTo
<1>4. SumFunctionOnSet(g, 1..n) = SumFunctionOnSet(c, 1..n)
  <2>1. \A i \in 1..n : g[i] = c[i]
    BY <1>1, <1>2
  <2>2. IsFiniteSet(1..n)
    BY FS_Interval
  <2> QED
    BY <2>1, <2>2, SumSame
<1>5. 0 \in G
  <2>1. 1..0 = {}
    OBVIOUS
  <2>2. SumFunctionOnSet(c, 1..0) = 0
    BY <2>1, SumEmpty
  <2>3. SumFunctionOnSet(f, UpTo(0)) = 0
    BY <1>1, SumEmpty
  <2> QED
    BY <1>1, <2>2, <2>3
<1>6. \A k \in Nat : c[k] \in Int
  <2> TAKE k \in Nat
  <2>1. IsFiniteSet(Of(k)) /\ \A x \in Of(k) : f[x] \in Int
    BY <1>0, <1>3, FS_Subset
  <2>2. SumFunctionOnSet(f, Of(k)) \in Int
    BY <2>1, SumInt
  <2> QED
    BY <1>1, <2>2
<1>7. ASSUME NEW k \in Nat, k \in G PROVE k + 1 \in G
  <2>1. SumFunctionOnSet(c, 1..(k + 1)) = SumFunctionOnSet(c, 1..k) + c[k + 1]
    BY <1>6, SumStep
  <2>2. SumFunctionOnSet(c, 1..k) = SumFunctionOnSet(f, UpTo(k))
    BY <1>1, <1>7
  <2>3. c[k + 1] = SumFunctionOnSet(f, Of(k + 1))
    BY <1>1
  <2>4. IsFiniteSet(UpTo(k)) /\ IsFiniteSet(Of(k + 1))
    BY <1>3, FS_Subset
  <2>5. SumFunctionOnSet(f, UpTo(k) \cup Of(k + 1)) = SumFunctionOnSet(f, UpTo(k)) + SumFunctionOnSet(f, Of(k + 1))
    <3>1. \A x \in UpTo(k) \cup Of(k + 1) : f[x] \in Int
      BY <1>0, <1>3
    <3> QED
      BY <1>3, <2>4, <3>1, SumUnion
  <2>6. SumFunctionOnSet(f, UpTo(k) \cup Of(k + 1)) = SumFunctionOnSet(f, UpTo(k + 1))
    BY <1>3
  <2> QED
    BY <1>1, <2>1, <2>2, <2>3, <2>5, <2>6
<1>8. n \in G
  BY <1>5, <1>7, UpFromZero
<1>9. SumFunctionOnSet(c, 1..n) = SumFunctionOnSet(f, UpTo(n))
  BY <1>1, <1>8
<1> QED
  BY <1>4, <1>9, <1>u

-----------------------------------------------------------------------------
(* Rounding, rows and their sums.                                          *)

Record == [base : Int, penalty : Int, amount : Int, paid : Nat, due : Int]
Paid(k, m) == [op : 1..k, kind : {"principal", "interest"}, number : 0..m, amount : Nat \ {0}]

\* Integer division, from below and from above.
LEMMA DivLow == ASSUME NEW a \in Int, NEW b \in Nat \ {0} PROVE b * (a \div b) <= a
  OBVIOUS

\* The remainder is less than the divisor.
LEMMA DivHigh == ASSUME NEW a \in Int, NEW b \in Nat \ {0} PROVE a < b * (a \div b) + b
  OBVIOUS

\* Rounding and percentages give natural numbers.
LEMMA RoundedNat == \A x \in Nat, y \in Nat \ {0} : Rounded(x, y) \in Nat
  BY DEF Rounded

\* A rate of zero gives nothing.
LEMMA PercentZero == \A x \in Int : Percent(x, 0) = 0
  BY DEF Percent, Rounded
LEMMA PercentInt == \A x \in Int, r \in Nat : Percent(x, r) \in Int
  BY DEF Percent, Rounded
LEMMA PercentNat == \A x \in Nat, r \in Nat : Percent(x, r) \in Nat
  BY DEF Percent, Rounded

\* A function on 1..k is a sequence of length k.
LEMMA SeqOf ==
  ASSUME NEW R, NEW k \in Nat, NEW f \in [1..k -> R]
  PROVE  f \in Seq(R) /\ Len(f) = k /\ DOMAIN f = 1..k
  OBVIOUS

\* A sequence of rows.
LEMMA SeqRows ==
  ASSUME NEW R, NEW s \in Seq(R)
  PROVE  /\ Len(s) \in Nat /\ DOMAIN s = 1..Len(s) /\ IsFiniteSet(DOMAIN s)
         /\ \A n \in DOMAIN s : s[n] \in R
<1>1. Len(s) \in Nat /\ DOMAIN s = 1..Len(s) /\ \A n \in DOMAIN s : s[n] \in R
  OBVIOUS
<1> QED
  BY <1>1, FS_Interval

\* The amounts of payments add up to a natural number.
LEMMA SumType ==
  ASSUME NEW S, IsFiniteSet(S), \A p \in S : p.amount \in Nat
  PROVE  Sum(S) \in Nat /\ \A p \in S : p.amount <= Sum(S)
<1> DEFINE f == [p \in S |-> p.amount]
<1>1. \A p \in S : f[p] \in Nat /\ f[p] = p.amount
  OBVIOUS
<1>2. Sum(S) = SumFunctionOnSet(f, S)
  BY DEF Sum, Total, SumFunction
<1> HIDE DEF f
<1> QED
  BY <1>1, <1>2, SumNat

\* What is paid of a period is a natural number.
LEMMA PaidOnType ==
  ASSUME NEW pays, IsFiniteSet(pays), \A p \in pays : p.amount \in Nat, NEW n
  PROVE  PaidOn(n, pays) \in Nat /\ \A p \in pays : p.number = n => p.amount <= PaidOn(n, pays)
<1> DEFINE S == {p \in pays : p.number = n}
<1>1. IsFiniteSet(S) /\ (\A p \in S : p.amount \in Nat) /\ PaidOn(n, pays) = Sum(S)
  BY FS_Subset DEF PaidOn
<1>2. \A p \in pays : p.number = n => p \in S
  OBVIOUS
<1> HIDE DEF S
<1> QED
  BY <1>1, <1>2, SumType

\* So is the capital repaid.
LEMMA PrincipalType ==
  ASSUME NEW pays, IsFiniteSet(pays), \A p \in pays : p.amount \in Nat
  PROVE  Principal(pays) \in Nat
<1> DEFINE S == {p \in pays : p.kind = "principal" /\ p.number = 0}
<1>1. IsFiniteSet(S) /\ (\A p \in S : p.amount \in Nat) /\ Principal(pays) = Sum(S)
  BY FS_Subset DEF Principal
<1> HIDE DEF S
<1> QED
  BY <1>1, SumType

\* One row after a reconciliation.
Row(p, paid, rate, day) ==
  [base |-> Base(p), penalty |-> Penalty(p, paid, rate, day),
   amount |-> Base(p) + Penalty(p, paid, rate, day), paid |-> paid, due |-> p.due]

\* A reconciled row is a row, with the base it had.
LEMMA RowType ==
  ASSUME NEW p \in Record, NEW paid \in Nat, NEW rate \in Nat, NEW day \in Int
  PROVE  /\ Row(p, paid, rate, day) \in Record
         /\ Base(p) \in Int /\ Base(Row(p, paid, rate, day)) = Base(p)
         /\ p.amount = p.base + p.penalty => Base(p) = p.base
<1>1. Base(p) \in Int
  BY DEF Base, Record
<1>2. Penalty(p, paid, rate, day) \in Int
  BY <1>1, PercentInt DEF Penalty, Record
<1> HIDE DEF Penalty
<1>3. Row(p, paid, rate, day) \in Record
  BY <1>1, <1>2 DEF Row, Record
<1>4. Base(Row(p, paid, rate, day)) = Base(p)
  <2> DEFINE b == Base(p)
             x == Penalty(p, paid, rate, day)
  <2>1. b \in Int /\ x \in Int
    BY <1>1, <1>2
  <2>2. Row(p, paid, rate, day).base = b /\ Row(p, paid, rate, day).amount = b + x /\ Row(p, paid, rate, day).penalty = x
    BY DEF Row
  <2> HIDE DEF b, x
  <2>3. Base(Row(p, paid, rate, day)) = IF b # 0 THEN b ELSE (b + x) - x
    BY <2>2 DEF Base
  <2> QED
    BY <2>1, <2>3 DEF b
<1>5. p.amount = p.base + p.penalty => Base(p) = p.base
  BY DEF Base, Record
<1> QED
  BY <1>1, <1>3, <1>4, <1>5

\* A reconciliation keeps the number of rows and works row by row.
LEMMA ReconciledType ==
  ASSUME NEW ps \in Seq(Record), NEW pays, IsFiniteSet(pays), \A p \in pays : p.amount \in Nat,
         NEW rate \in Nat, NEW day \in Int
  PROVE  LET rows == ReconciledPeriods(ps, pays, rate, day)
         IN /\ rows \in Seq(Record) /\ Len(rows) = Len(ps) /\ DOMAIN rows = DOMAIN ps
            /\ \A n \in DOMAIN ps : rows[n] = Row(ps[n], PaidOn(n, pays), rate, day)
<1> DEFINE rows == ReconciledPeriods(ps, pays, rate, day)
<1>1. Len(ps) \in Nat /\ DOMAIN ps = 1..Len(ps) /\ \A n \in DOMAIN ps : ps[n] \in Record
  BY SeqRows
<1>2. rows = [n \in DOMAIN ps |-> Row(ps[n], PaidOn(n, pays), rate, day)]
  BY DEF ReconciledPeriods, Row
<1> HIDE DEF rows
<1>3. \A n \in DOMAIN ps : Row(ps[n], PaidOn(n, pays), rate, day) \in Record
  BY <1>1, PaidOnType, RowType
<1>4. rows \in [1..Len(ps) -> Record]
  BY <1>1, <1>2, <1>3
<1>5. rows \in Seq(Record) /\ Len(rows) = Len(ps) /\ DOMAIN rows = 1..Len(ps)
  BY <1>1, <1>4, SeqOf
<1>6. \A n \in DOMAIN ps : rows[n] = Row(ps[n], PaidOn(n, pays), rate, day)
  BY <1>2
<1> QED
  BY <1>1, <1>5, <1>6 DEF rows

\* Sums over the rows of a sequence.
LEMMA OverType ==
  ASSUME NEW ps \in Seq(Record)
  PROVE  /\ SumOver(ps, Open) \in Nat
         /\ SumOver(ps, LAMBDA p : p.amount) \in Int
         /\ SumOver(ps, LAMBDA p : p.penalty) \in Int
         /\ Total(Bases(ps)) \in Int
<1>1. IsFiniteSet(DOMAIN ps) /\ \A n \in DOMAIN ps : ps[n] \in Record
  BY SeqRows
<1>2. SumOver(ps, Open) \in Nat
  <2> DEFINE f == [i \in DOMAIN ps |-> Open(ps[i])]
  <2>1. \A i \in DOMAIN ps : f[i] \in Nat
    BY <1>1 DEF Open, Positive, Record
  <2>2. SumOver(ps, Open) = SumFunctionOnSet(f, DOMAIN ps)
    BY DEF SumOver, Total, SumFunction
  <2> HIDE DEF f
  <2> QED
    BY <1>1, <2>1, <2>2, SumNat
<1>3. SumOver(ps, LAMBDA p : p.amount) \in Int
  <2> DEFINE f == [i \in DOMAIN ps |-> ps[i].amount]
  <2>1. \A i \in DOMAIN ps : f[i] \in Int
    BY <1>1 DEF Record
  <2>2. SumOver(ps, LAMBDA p : p.amount) = SumFunctionOnSet(f, DOMAIN ps)
    BY DEF SumOver, Total, SumFunction
  <2> HIDE DEF f
  <2> QED
    BY <1>1, <2>1, <2>2, SumInt
<1>4. SumOver(ps, LAMBDA p : p.penalty) \in Int
  <2> DEFINE f == [i \in DOMAIN ps |-> ps[i].penalty]
  <2>1. \A i \in DOMAIN ps : f[i] \in Int
    BY <1>1 DEF Record
  <2>2. SumOver(ps, LAMBDA p : p.penalty) = SumFunctionOnSet(f, DOMAIN ps)
    BY DEF SumOver, Total, SumFunction
  <2> HIDE DEF f
  <2> QED
    BY <1>1, <2>1, <2>2, SumInt
<1>5. Total(Bases(ps)) \in Int
  <2> DEFINE f == Bases(ps)
  <2>1. DOMAIN f = DOMAIN ps /\ \A i \in DOMAIN ps : f[i] \in Int
    BY <1>1 DEF Record, Bases, Base
  <2>2. Total(f) = SumFunctionOnSet(f, DOMAIN ps)
    BY <2>1 DEF Total, SumFunction
  <2> HIDE DEF f
  <2>3. Total(f) \in Int
    BY <1>1, <2>1, <2>2, SumInt
  <2> QED
    BY <2>3 DEF f
<1> QED
  BY <1>2, <1>3, <1>4, <1>5

-----------------------------------------------------------------------------
(* Type correctness: the parts of the invariant, and a reconciliation.     *)

TermsTyped ==
  /\ terms \in [loanType : {"multi", "single"}, principal : Nat \ {0}, interestRate : Nat,
               rounding : {"whole", "cents"}]
  /\ today \in 0..MaxToday /\ ops \in 0..MaxOps /\ edited \in BOOLEAN

LedgerTyped ==
  /\ debt \in DebtRow
  /\ periods \in Seq(Record) /\ Len(periods) > 0
  /\ Multi => Len(periods) \in Durations
  /\ payments \subseteq Paid(ops, Len(periods)) /\ IsFiniteSet(payments)
  /\ Multi => \A p \in payments : p.number > 0
  /\ \A n \in DOMAIN periods : /\ periods[n].amount = periods[n].base + periods[n].penalty
                               /\ periods[n].paid = PaidOn(n, payments)

SessionsTyped ==
  /\ view \in [Clerks -> DebtRow \cup {NoView}]
  /\ stage \in [Clerks -> {"idle", "save", "save due", "period", "status", "done"}]
  /\ \A c \in Clerks : stage[c] \in {"save", "save due", "period", "status"} => view[c] \in DebtRow

RepairTyped ==
  repair # NoRepair =>
  /\ Multi
  /\ \A n \in DOMAIN repair : n \in 1..Len(periods) /\ repair[n] \in [base : Int, penalty : Int, paid : Nat]

Typed == TermsTyped /\ LedgerTyped /\ SessionsTyped /\ RepairTyped

LEMMA ImageFinite ==
  ASSUME NEW f, IsFiniteSet(DOMAIN f)
  PROVE  IsFiniteSet({f[x] : x \in DOMAIN f})
<1> DEFINE S == DOMAIN f
           g == [x \in S |-> f[x]]
           T == {f[x] : x \in S}
<1>1. g \in Surjection(S, T)
  BY DEF Surjection
<1> HIDE DEF g, T
<1>2. IsFiniteSet(T)
  BY <1>1, FS_Surjection
<1> QED
  BY <1>2 DEF T

\* The debt row after a reconciliation.
LEMMA DebtType ==
  ASSUME terms.principal \in Nat, NEW d \in DebtRow, NEW ps \in Seq(Record), NEW pays, IsFiniteSet(pays),
         \A p \in pays : p.amount \in Nat, NEW day \in Int
  PROVE  /\ ReconciledDebt(d, ps, pays, day) \in DebtRow
         /\ ReconciledDebt(d, ps, pays, day).penaltyRate = d.penaltyRate
         /\ ReconciledDebt(d, ps, pays, day).due = d.due
<1> DEFINE capital == IF Multi THEN d.capital ELSE Positive(terms.principal - Principal(pays))
           open == SumOver(ps, Open)
           outstanding == IF Multi THEN open ELSE capital + open
           total == IF Multi THEN SumOver(ps, LAMBDA p : p.amount) ELSE outstanding
           collected == Sum(pays)
           status == CurrentStatus(outstanding, d.due, day)
<1>1. capital \in Nat
  BY PrincipalType DEF Positive, DebtRow
<1>2. open \in Nat /\ SumOver(ps, LAMBDA p : p.amount) \in Int
  BY OverType
<1>3. collected \in Nat
  BY SumType
<1>4. status \in {"unpaid", "overdue", "paid"}
  BY DEF CurrentStatus
<1>5. ReconciledDebt(d, ps, pays, day) =
        [d EXCEPT !.capital = capital, !.total = total, !.collected = collected,
                  !.outstanding = outstanding, !.status = status]
  BY DEF ReconciledDebt
<1> HIDE DEF capital, open, collected, status
<1>6. outstanding \in Nat /\ total \in Int
  BY <1>1, <1>2
<1> HIDE DEF outstanding, total
<1> QED
  BY <1>1, <1>3, <1>4, <1>5, <1>6 DEF DebtRow

\* What a reconciliation leaves.
LEMMA ReconcileTyped ==
  ASSUME TermsTyped, NEW d \in DebtRow, NEW ps \in Seq(Record), NEW pays, IsFiniteSet(pays),
         \A p \in pays : p.amount \in Nat, Reconcile(d, ps, pays)
  PROVE  /\ debt' \in DebtRow /\ debt'.penaltyRate = d.penaltyRate /\ debt'.due = d.due
         /\ payments' = pays
         /\ periods' \in Seq(Record) /\ Len(periods') = Len(ps) /\ DOMAIN periods' = DOMAIN ps
         /\ \A n \in DOMAIN ps :
              /\ periods'[n] = Row(ps[n], PaidOn(n, pays), d.penaltyRate, today)
              /\ periods'[n].amount = periods'[n].base + periods'[n].penalty
              /\ periods'[n].paid = PaidOn(n, pays)
              /\ periods'[n].base = Base(ps[n])
<1> DEFINE rows == ReconciledPeriods(ps, pays, d.penaltyRate, today)
<1>1. d.penaltyRate \in Nat /\ today \in Int /\ terms.principal \in Nat
  BY DEF DebtRow, TermsTyped
<1>2. /\ rows \in Seq(Record) /\ Len(rows) = Len(ps) /\ DOMAIN rows = DOMAIN ps
      /\ \A n \in DOMAIN ps : rows[n] = Row(ps[n], PaidOn(n, pays), d.penaltyRate, today)
  BY <1>1, ReconciledType
<1>3. periods' = rows /\ debt' = ReconciledDebt(d, rows, pays, today) /\ payments' = pays
  BY DEF Reconcile
<1> HIDE DEF rows
<1>4. debt' \in DebtRow /\ debt'.penaltyRate = d.penaltyRate /\ debt'.due = d.due
  BY <1>1, <1>2, <1>3, DebtType
<1>5. \A n \in DOMAIN ps :
              /\ periods'[n] = Row(ps[n], PaidOn(n, pays), d.penaltyRate, today)
              /\ periods'[n].amount = periods'[n].base + periods'[n].penalty
              /\ periods'[n].paid = PaidOn(n, pays)
              /\ periods'[n].base = Base(ps[n])
  BY <1>2, <1>3 DEF Row
<1> QED
  BY <1>2, <1>3, <1>4, <1>5

\* The ledger as it would be if it were reconciled now.
LEMMA NowType ==
  ASSUME TermsTyped, LedgerTyped
  PROVE  /\ ReconciledNow \in Seq(Record) /\ Len(ReconciledNow) = Len(periods)
         /\ DOMAIN ReconciledNow = DOMAIN periods
         /\ DebtNow \in DebtRow /\ DebtNow.penaltyRate = debt.penaltyRate /\ DebtNow.due = debt.due
         /\ \A n \in DOMAIN periods :
              /\ ReconciledNow[n] = Row(periods[n], periods[n].paid, debt.penaltyRate, today)
              /\ periods[n] \in Record /\ Base(periods[n]) = periods[n].base
              /\ ReconciledNow[n] \in Record
              /\ Base(ReconciledNow[n]) = periods[n].base
              /\ ReconciledNow[n].base = periods[n].base
              /\ ReconciledNow[n].paid = periods[n].paid
              /\ ReconciledNow[n].due = periods[n].due
              /\ ReconciledNow[n].amount = ReconciledNow[n].base + ReconciledNow[n].penalty
<1>1. debt.penaltyRate \in Nat /\ today \in Int /\ terms.principal \in Nat
  BY DEF DebtRow, TermsTyped, LedgerTyped
<1>2. periods \in Seq(Record) /\ IsFiniteSet(payments) /\ \A p \in payments : p.amount \in Nat
  BY DEF LedgerTyped, Paid
<1>3. /\ ReconciledNow \in Seq(Record) /\ Len(ReconciledNow) = Len(periods)
      /\ DOMAIN ReconciledNow = DOMAIN periods
      /\ \A n \in DOMAIN periods : ReconciledNow[n] = Row(periods[n], PaidOn(n, payments), debt.penaltyRate, today)
  BY <1>1, <1>2, ReconciledType DEF ReconciledNow
<1>4. DebtNow \in DebtRow /\ DebtNow.penaltyRate = debt.penaltyRate /\ DebtNow.due = debt.due
  BY <1>1, <1>2, <1>3, DebtType DEF DebtNow, LedgerTyped
<1>5. ASSUME NEW n \in DOMAIN periods
      PROVE  /\ ReconciledNow[n] = Row(periods[n], periods[n].paid, debt.penaltyRate, today)
             /\ periods[n] \in Record /\ Base(periods[n]) = periods[n].base
             /\ ReconciledNow[n] \in Record
             /\ Base(ReconciledNow[n]) = periods[n].base
             /\ ReconciledNow[n].base = periods[n].base
             /\ ReconciledNow[n].paid = periods[n].paid
             /\ ReconciledNow[n].due = periods[n].due
             /\ ReconciledNow[n].amount = ReconciledNow[n].base + ReconciledNow[n].penalty
  <2>1. periods[n].amount = periods[n].base + periods[n].penalty /\ periods[n].paid = PaidOn(n, payments)
    BY DEF LedgerTyped
  <2>2. ReconciledNow[n] = Row(periods[n], periods[n].paid, debt.penaltyRate, today)
    BY <1>3, <2>1
  <2>3. periods[n] \in Record
    BY <1>2, SeqRows
  <2>p. periods[n].paid \in Nat
    BY <2>3 DEF Record
  <2>4. Base(periods[n]) = periods[n].base /\ ReconciledNow[n] \in Record /\ Base(ReconciledNow[n]) = Base(periods[n])
    BY <1>1, <2>1, <2>2, <2>3, <2>p, RowType
  <2> QED
    BY <2>2, <2>3, <2>4 DEF Row
<1> QED
  BY <1>3, <1>4, <1>5

-----------------------------------------------------------------------------
(* What new payments add.                                                  *)

\* The sum of payments is the sum of their amounts.
LEMMA SumAmounts ==
  ASSUME NEW S, NEW f, \A p \in S : f[p] = p.amount, IsFiniteSet(S)
  PROVE  Sum(S) = SumFunctionOnSet(f, S)
<1> DEFINE g == [p \in S |-> p.amount]
<1>1. \A p \in S : g[p] = f[p]
  OBVIOUS
<1>2. Sum(S) = SumFunctionOnSet(g, S)
  BY DEF Sum, Total, SumFunction
<1> HIDE DEF g
<1> QED
  BY <1>1, <1>2, SumSame

\* No payment, no sum.
LEMMA SumOfNone == Sum({}) = 0
<1> DEFINE f == [p \in {} |-> p.amount]
<1>1. Sum({}) = SumFunctionOnSet(f, {})
  BY DEF Sum, Total, SumFunction
<1> HIDE DEF f
<1> QED
  BY <1>1, SumEmpty

\* One payment.
LEMMA SumOfOne ==
  ASSUME NEW p, p.amount \in Int
  PROVE  Sum({p}) = p.amount
<1> DEFINE f == [q \in {p} |-> q.amount]
<1>1. Sum({p}) = SumFunctionOnSet(f, {p})
  BY DEF Sum, Total, SumFunction
<1>2. \A q \in {p} : f[q] \in Int
  OBVIOUS
<1>3. f[p] = p.amount /\ IsFiniteSet({p}) /\ {p} \ {p} = {} /\ p \in {p}
  BY FS_Singleton
<1> HIDE DEF f
<1>4. SumFunctionOnSet(f, {p}) = f[p] + SumFunctionOnSet(f, {p} \ {p})
  BY <1>2, <1>3, SumRemove
<1>5. SumFunctionOnSet(f, {p} \ {p}) = 0
  BY <1>3, SumEmpty
<1> QED
  BY <1>1, <1>3, <1>4, <1>5

\* Payments that are different add up.
LEMMA SumOfBoth ==
  ASSUME NEW S, NEW R, IsFiniteSet(S), IsFiniteSet(R), S \cap R = {}, \A p \in S \cup R : p.amount \in Int
  PROVE  Sum(S \cup R) = Sum(S) + Sum(R)
<1> DEFINE f == [p \in S \cup R |-> p.amount]
<1>1. \A p \in S \cup R : f[p] = p.amount /\ f[p] \in Int
  OBVIOUS
<1>2. IsFiniteSet(S \cup R)
  BY FS_Union
<1> HIDE DEF f
<1>3. Sum(S) = SumFunctionOnSet(f, S)
  BY <1>1, SumAmounts
<1>4. Sum(R) = SumFunctionOnSet(f, R)
  BY <1>1, SumAmounts
<1>5. Sum(S \cup R) = SumFunctionOnSet(f, S \cup R)
  BY <1>1, <1>2, SumAmounts
<1>6. SumFunctionOnSet(f, S \cup R) = SumFunctionOnSet(f, S) + SumFunctionOnSet(f, R)
  <2>1. \A p \in S \cup R : f[p] \in Int
    BY <1>1
  <2> QED
    BY <2>1, SumUnion
<1> QED
  BY <1>3, <1>4, <1>5, <1>6

\* New payments add to what is paid of each period, to the capital repaid and to the total.
LEMMA PaymentsAdd ==
  ASSUME NEW S, NEW R, IsFiniteSet(S), IsFiniteSet(R), S \cap R = {}, \A p \in S \cup R : p.amount \in Nat
  PROVE  /\ IsFiniteSet(S \cup R)
         /\ Sum(S \cup R) = Sum(S) + Sum(R)
         /\ Principal(S \cup R) = Principal(S) + Principal(R)
         /\ \A n : PaidOn(n, S \cup R) = PaidOn(n, S) + PaidOn(n, R)
<1>1. Sum(S \cup R) = Sum(S) + Sum(R)
  <2>1. \A p \in S \cup R : p.amount \in Int
    OBVIOUS
  <2> QED
    BY <2>1, SumOfBoth
<1>2. Principal(S \cup R) = Principal(S) + Principal(R)
  <2> DEFINE A == {p \in S : p.kind = "principal" /\ p.number = 0}
             B == {p \in R : p.kind = "principal" /\ p.number = 0}
             C == {p \in S \cup R : p.kind = "principal" /\ p.number = 0}
  <2>1. A \subseteq S /\ B \subseteq R /\ A \cap B = {} /\ C = A \cup B /\ \A p \in A \cup B : p.amount \in Int
    OBVIOUS
  <2>2. Principal(S) = Sum(A) /\ Principal(R) = Sum(B) /\ Principal(S \cup R) = Sum(C)
    BY DEF Principal
  <2> HIDE DEF A, B, C
  <2>3. IsFiniteSet(A) /\ IsFiniteSet(B)
    BY <2>1, FS_Subset
  <2>4. Sum(A \cup B) = Sum(A) + Sum(B)
    BY <2>1, <2>3, SumOfBoth
  <2> QED
    BY <2>1, <2>2, <2>4
<1>3. ASSUME NEW n PROVE PaidOn(n, S \cup R) = PaidOn(n, S) + PaidOn(n, R)
  <2> DEFINE A == {p \in S : p.number = n}
             B == {p \in R : p.number = n}
             C == {p \in S \cup R : p.number = n}
  <2>1. A \subseteq S /\ B \subseteq R /\ A \cap B = {} /\ C = A \cup B /\ \A p \in A \cup B : p.amount \in Int
    OBVIOUS
  <2>2. PaidOn(n, S) = Sum(A) /\ PaidOn(n, R) = Sum(B) /\ PaidOn(n, S \cup R) = Sum(C)
    BY DEF PaidOn
  <2> HIDE DEF A, B, C
  <2>3. IsFiniteSet(A) /\ IsFiniteSet(B)
    BY <2>1, FS_Subset
  <2>4. Sum(A \cup B) = Sum(A) + Sum(B)
    BY <2>1, <2>3, SumOfBoth
  <2> QED
    BY <2>1, <2>2, <2>4
<1> QED
  BY <1>1, <1>2, <1>3, FS_Union

\* A payment of the operation under way, recorded when it has an amount.
LEMMA SomePay ==
  ASSUME LedgerTyped, ops \in Nat, NEW kind \in {"principal", "interest"}, NEW m \in 0..Len(periods), NEW x \in Nat
  PROVE  /\ IsFiniteSet(Some(Pay(kind, m, x))) /\ Some(Pay(kind, m, x)) \subseteq Paid(ops + 1, Len(periods))
         /\ \A p \in Some(Pay(kind, m, x)) : p = Pay(kind, m, x) /\ p \notin payments /\ x > 0
         /\ Sum(Some(Pay(kind, m, x))) = x
         /\ Principal(Some(Pay(kind, m, x))) = IF kind = "principal" /\ m = 0 THEN x ELSE 0
         /\ \A n : PaidOn(n, Some(Pay(kind, m, x))) = IF n = m THEN x ELSE 0
<1> DEFINE q == Pay(kind, m, x)
           S == Some(q)
<1>1. q.op = ops + 1 /\ q.kind = kind /\ q.number = m /\ q.amount = x
  BY DEF Pay
<1>2. q \notin payments
  BY <1>1 DEF LedgerTyped, Paid
<1>3. x > 0 => q \in Paid(ops + 1, Len(periods))
  BY DEF Pay, Paid
<1> HIDE DEF q
<1>4. S = IF x > 0 THEN {q} ELSE {}
  BY <1>1 DEF Some
<1>5. IsFiniteSet({q}) /\ IsFiniteSet({})
  BY FS_Singleton, FS_EmptySet
<1>6. Sum({q}) = x /\ Sum({}) = 0
  BY <1>1, SumOfOne, SumOfNone
<1>7. Sum(S) = x
  BY <1>4, <1>6
<1>8. Principal(S) = IF kind = "principal" /\ m = 0 THEN x ELSE 0
  <2> DEFINE A == {p \in S : p.kind = "principal" /\ p.number = 0}
  <2>1. A = IF kind = "principal" /\ m = 0 THEN S ELSE {}
    BY <1>1, <1>4
  <2>2. Principal(S) = Sum(A)
    BY DEF Principal
  <2> HIDE DEF A, S
  <2> QED
    BY <1>6, <1>7, <2>1, <2>2
<1>9. ASSUME NEW n PROVE PaidOn(n, S) = IF n = m THEN x ELSE 0
  <2> DEFINE A == {p \in S : p.number = n}
  <2>1. A = IF n = m THEN S ELSE {}
    BY <1>1, <1>4
  <2>2. PaidOn(n, S) = Sum(A)
    BY DEF PaidOn
  <2> HIDE DEF A, S
  <2> QED
    BY <1>6, <1>7, <2>1, <2>2
<1>10. IsFiniteSet(S) /\ S \subseteq Paid(ops + 1, Len(periods)) /\ \A p \in S : p = q /\ p \notin payments /\ x > 0
  BY <1>2, <1>3, <1>4, <1>5
<1> QED
  BY <1>7, <1>8, <1>9, <1>10 DEF q

\* The payments of one operation spread over periods.
Shares(a, chosen) ==
  UNION {Some(Pay("principal", n, Share(ReconciledNow, a, chosen, n))) : n \in chosen}

\* A share of a payment is not more than what is open of its period.
LEMMA ShareType ==
  ASSUME NEW ps \in Seq(Record), NEW a \in Int, NEW chosen \in SUBSET DOMAIN ps, NEW n \in DOMAIN ps
  PROVE  Share(ps, a, chosen, n) \in 0..Open(ps[n]) /\ Open(ps[n]) \in Nat
<1> DEFINE S == {m \in chosen : m < n}
           f == [m \in S |-> Open(ps[m])]
           before == SumFunctionOnSet(f, S)
<1>r. IsFiniteSet(DOMAIN ps) /\ \A m \in DOMAIN ps : ps[m] \in Record
  BY SeqRows
<1>1. IsFiniteSet(DOMAIN ps) /\ \A m \in DOMAIN ps : Open(ps[m]) \in Nat
  <2>1. ASSUME NEW p \in Record PROVE Open(p) \in Nat
    <3>1. p.amount \in Int /\ p.paid \in Int
      BY DEF Record
    <3> QED
      BY <3>1 DEF Open, Positive
  <2> QED
    BY <1>r, <2>1
<1>2. IsFiniteSet(S) /\ \A m \in S : f[m] \in Int
  BY <1>1, FS_Subset
<1>3. Share(ps, a, chosen, n) = Lesser(Open(ps[n]), Positive(a - before))
  BY DEF Share, Total, SumFunction
<1> HIDE DEF S, f
<1>4. before \in Int
  BY <1>2, SumInt
<1> HIDE DEF before
<1> QED
  BY <1>1, <1>3, <1>4 DEF Lesser, Positive

\* The payments of one operation are new, and none is more than what is open.
LEMMA SharesType ==
  ASSUME TermsTyped, LedgerTyped, NEW a \in Int, NEW chosen \in SUBSET DOMAIN periods
  PROVE  /\ IsFiniteSet(Shares(a, chosen)) /\ Shares(a, chosen) \subseteq Paid(ops + 1, Len(periods))
         /\ \A p \in Shares(a, chosen) : p \notin payments /\ p.number > 0
         /\ \A n \in DOMAIN periods : PaidOn(n, Shares(a, chosen)) \in 0..Open(ReconciledNow[n])
<1> DEFINE part(n) == Share(ReconciledNow, a, chosen, n)
           f == [n \in chosen |-> Pay("principal", n, part(n))]
           T == {f[n] : n \in chosen}
           new == Shares(a, chosen)
<1>0. ops \in Nat /\ Len(periods) \in Nat /\ DOMAIN periods = 1..Len(periods) /\ IsFiniteSet(DOMAIN periods)
  BY SeqRows DEF LedgerTyped, TermsTyped
<1>1. ASSUME NEW n \in DOMAIN periods PROVE part(n) \in 0..Open(ReconciledNow[n]) /\ Open(ReconciledNow[n]) \in Nat
  BY NowType, ShareType
<1> HIDE DEF part
<1>2. ASSUME NEW n \in chosen
      PROVE  /\ n \in 0..Len(periods) /\ n > 0 /\ part(n) \in Nat
             /\ Some(Pay("principal", n, part(n))) \subseteq Paid(ops + 1, Len(periods))
             /\ \A p \in Some(Pay("principal", n, part(n))) : p = f[n] /\ p \notin payments /\ p.number = n
             /\ IsFiniteSet(Some(Pay("principal", n, part(n))))
             /\ Sum(Some(Pay("principal", n, part(n)))) = part(n)
  <2>1. n \in 0..Len(periods) /\ n > 0 /\ part(n) \in Nat
    BY <1>0, <1>1
  <2>2. f[n] = Pay("principal", n, part(n)) /\ f[n].number = n
    BY DEF Pay
  <2> HIDE DEF f
  <2> QED
    BY <1>0, <2>1, <2>2, SomePay
<1>3. new = UNION {Some(Pay("principal", n, part(n))) : n \in chosen}
  BY DEF Shares, part
<1>4. new \subseteq T /\ new \subseteq Paid(ops + 1, Len(periods)) /\ \A p \in new : p \notin payments /\ p.number > 0
  <2> SUFFICES ASSUME NEW p \in new
               PROVE  p \in T /\ p \in Paid(ops + 1, Len(periods)) /\ p \notin payments /\ p.number > 0
    OBVIOUS
  <2>1. PICK n \in chosen : p \in Some(Pay("principal", n, part(n)))
    BY <1>3
  <2> HIDE DEF new, f
  <2> QED
    BY <1>2, <2>1
<1>5. IsFiniteSet(T)
  <2>1. IsFiniteSet(chosen) /\ DOMAIN f = chosen
    BY <1>0, FS_Subset
  <2> HIDE DEF f
  <2> QED
    BY <2>1, ImageFinite
<1>6. ASSUME NEW n \in DOMAIN periods PROVE PaidOn(n, new) \in 0..Open(ReconciledNow[n])
  <2> DEFINE A == {p \in new : p.number = n}
  <2>1. PaidOn(n, new) = Sum(A)
    BY DEF PaidOn
  <2>2. A = IF n \in chosen THEN Some(Pay("principal", n, part(n))) ELSE {}
    <3>1. ASSUME NEW p \in A PROVE n \in chosen /\ p \in Some(Pay("principal", n, part(n)))
      <4>1. PICK m \in chosen : p \in Some(Pay("principal", m, part(m)))
        BY <1>3
      <4>2. p.number = m /\ p.number = n
        BY <1>2, <4>1
      <4> QED
        BY <4>1, <4>2
    <3>2. ASSUME NEW p \in Some(Pay("principal", n, part(n))), n \in chosen PROVE p \in A
      <4>1. p \in new
        BY <1>3, <3>2
      <4>2. p.number = n
        BY <1>2, <3>2
      <4> QED
        BY <4>1, <4>2
    <3> HIDE DEF A
    <3> QED
      BY <3>1, <3>2
  <2> HIDE DEF A, new, f
  <2>3. n \in chosen => Sum(A) = part(n)
    BY <1>2, <2>2
  <2>4. n \notin chosen => Sum(A) = 0
    BY <2>2, SumOfNone
  <2> QED
    BY <1>1, <2>1, <2>3, <2>4
<1>7. IsFiniteSet(new)
  BY <1>4, <1>5, FS_Subset
<1> QED
  BY <1>4, <1>6, <1>7

-----------------------------------------------------------------------------
(* Type correctness, operation by operation.                               *)

\* A reconciliation of rows with payments they know leaves a ledger.
LEMMA LedgerStep ==
  ASSUME TermsTyped, NEW d \in DebtRow, NEW ps \in Seq(Record), Len(ps) > 0, Multi => Len(ps) \in Durations,
         NEW pays, IsFiniteSet(pays), pays \subseteq Paid(ops', Len(ps)), Multi => \A p \in pays : p.number > 0,
         Reconcile(d, ps, pays), terms' = terms
  PROVE  LedgerTyped'
<1>1. \A p \in pays : p.amount \in Nat
  BY DEF Paid
<1>2. Multi' = Multi
  BY DEF Multi
<1>3. /\ debt' \in DebtRow /\ payments' = pays
      /\ periods' \in Seq(Record) /\ Len(periods') = Len(ps) /\ DOMAIN periods' = DOMAIN ps
      /\ \A n \in DOMAIN ps : /\ periods'[n].amount = periods'[n].base + periods'[n].penalty
                              /\ periods'[n].paid = PaidOn(n, pays)
  BY <1>1, ReconcileTyped
<1> QED
  BY <1>2, <1>3 DEF LedgerTyped

\* Steps that leave the sessions alone, and those that leave the repair alone.
LEMMA SessionsKept ==
  ASSUME SessionsTyped, view' = view, stage' = stage
  PROVE  SessionsTyped'
BY DEF SessionsTyped

LEMMA RepairKept ==
  ASSUME RepairTyped, repair' = repair, terms' = terms, Multi => Len(periods') = Len(periods)
  PROVE  RepairTyped'
BY DEF RepairTyped, Multi

\* At most one period is open.
LEMMA OpenOne ==
  ASSUME NEW ps \in Seq(Record), OpenPeriod(ps) # {}
  PROVE  /\ Min(OpenPeriod(ps)) \in DOMAIN ps /\ OpenPeriod(ps) = {Min(OpenPeriod(ps))}
         /\ ps[Min(OpenPeriod(ps))].paid < ps[Min(OpenPeriod(ps))].amount
         /\ \A m \in 1..(Min(OpenPeriod(ps)) - 1) : ps[m].paid >= ps[m].amount
<1>1. PICK n \in OpenPeriod(ps) : TRUE
  OBVIOUS
<1>2. Len(ps) \in Nat /\ DOMAIN ps = 1..Len(ps)
  BY SeqRows
<1>r. \A m \in DOMAIN ps : ps[m] \in Record
  BY SeqRows
<1>3. ASSUME NEW m \in OpenPeriod(ps), NEW k \in OpenPeriod(ps), m < k PROVE FALSE
  <2>1. m \in 1..(k - 1) /\ m \in DOMAIN ps
    BY <1>2, <1>3 DEF OpenPeriod
  <2>2. ps[m].paid >= ps[m].amount /\ ps[m].paid < ps[m].amount
    BY <2>1 DEF OpenPeriod
  <2> QED
    BY <2>1, <2>2, <1>r DEF Record
<1>4. OpenPeriod(ps) = {n}
  <2>1. ASSUME NEW m \in OpenPeriod(ps) PROVE m = n
    <3>1. m \in Nat /\ n \in Nat
      BY <1>2 DEF OpenPeriod
    <3>2. ~(m < n) /\ ~(n < m)
      BY <1>3
    <3> QED
      BY <3>1, <3>2
  <2> QED
    BY <2>1
<1>5. Min(OpenPeriod(ps)) = n
  BY <1>2, <1>4 DEF Min, OpenPeriod
<1> QED
  BY <1>4, <1>5 DEF OpenPeriod

\* A new row is one of the table's.
LEMMA PeriodType ==
  ASSUME NEW x \in Int, NEW due \in Int
  PROVE  Period(x, due) \in Record
BY DEF Period, Record

\* One more row.
LEMMA AppendType ==
  ASSUME NEW ps \in Seq(Record), NEW p \in Record
  PROVE  /\ Append(ps, p) \in Seq(Record) /\ Len(Append(ps, p)) = Len(ps) + 1
         /\ \A n \in DOMAIN ps : Append(ps, p)[n] = ps[n]
         /\ Append(ps, p)[Len(ps) + 1] = p
OBVIOUS

\* Interest is a natural number, and so is what is due.
LEMMA InterestType ==
  ASSUME TermsTyped, NEW capital \in Nat
  PROVE  Interest(capital) \in Nat
BY PercentNat DEF Interest, TermsTyped

LEMMA DueType ==
  ASSUME TermsTyped, LedgerTyped
  PROVE  InterestDue(ReconciledNow) \in Nat
<1>1. CASE OpenPeriod(ReconciledNow) = {}
  <2>1. DebtNow.capital \in Nat
    BY NowType DEF DebtRow
  <2> QED
    BY <1>1, <2>1, InterestType DEF InterestDue
<1>2. CASE OpenPeriod(ReconciledNow) # {}
  <2> DEFINE n == Min(OpenPeriod(ReconciledNow))
  <2>1. ReconciledNow \in Seq(Record)
    BY NowType
  <2>2. n \in DOMAIN ReconciledNow /\ ReconciledNow[n].paid < ReconciledNow[n].amount
    BY <1>2, <2>1, OpenOne
  <2>3. ReconciledNow[n] \in Record
    BY <2>1, <2>2, SeqRows
  <2>4. InterestDue(ReconciledNow) = ReconciledNow[n].amount - ReconciledNow[n].paid
    BY <1>2 DEF InterestDue
  <2> HIDE DEF n
  <2> QED
    BY <2>2, <2>3, <2>4 DEF Record
<1> QED
  BY <1>1, <1>2

\* The operations that reconcile what is stored.
LEMMA SameRowsTyped ==
  ASSUME Typed, Reconcile(debt, periods, payments), terms' = terms, ops' = ops
  PROVE  LedgerTyped' /\ Len(periods') = Len(periods)
<1>1. /\ TermsTyped /\ debt \in DebtRow /\ periods \in Seq(Record) /\ Len(periods) > 0
      /\ (Multi => Len(periods) \in Durations) /\ IsFiniteSet(payments) /\ payments \subseteq Paid(ops', Len(periods))
      /\ Multi => \A p \in payments : p.number > 0
  BY DEF Typed, LedgerTyped
<1>2. \A p \in payments : p.amount \in Nat
  BY <1>1 DEF Paid
<1>3. LedgerTyped'
  BY <1>1, LedgerStep
<1>4. Len(periods') = Len(periods)
  BY <1>1, <1>2, ReconcileTyped
<1> QED
  BY <1>3, <1>4

\* The operations, one by one, leave what is typed typed.
LEMMA AssessTyped == ASSUME Typed, AssessOverduePenalties \/ ReconcileReport PROVE Typed'
<1>1. Reconcile(debt, periods, payments) /\ UNCHANGED <<terms, today, ops, view, stage, repair, edited>>
  BY DEF AssessOverduePenalties, ReconcileReport
<1>2. TermsTyped'
  BY <1>1 DEF Typed, TermsTyped
<1>3. LedgerTyped' /\ Len(periods') = Len(periods)
  BY <1>1, SameRowsTyped
<1>4. SessionsTyped' /\ RepairTyped'
  BY <1>1, <1>3, SessionsKept, RepairKept DEF Typed
<1> QED
  BY <1>2, <1>3, <1>4 DEF Typed

\* Adding payments of this operation to a ledger with the rows ps.
LEMMA PayTyped ==
  ASSUME Typed, NEW d \in DebtRow, NEW ps \in Seq(Record), Len(ps) >= Len(periods),
         Multi => Len(ps) = Len(periods),
         NEW new, IsFiniteSet(new), new \subseteq Paid(ops + 1, Len(ps)), Multi => \A p \in new : p.number > 0,
         Reconcile(d, ps, payments \cup new), ops < MaxOps, ops' = ops + 1,
         UNCHANGED <<terms, today, view, stage, repair, edited>>
  PROVE  Typed'
<1>1. /\ TermsTyped /\ IsFiniteSet(payments) /\ payments \subseteq Paid(ops, Len(periods))
      /\ (Multi => \A p \in payments : p.number > 0) /\ (Multi => Len(periods) \in Durations)
      /\ ops \in Nat /\ ops + 1 \in 0..MaxOps /\ Len(periods) \in Nat /\ Len(ps) \in Nat /\ Len(periods) > 0
  BY TermsAssumption, SeqRows DEF Typed, LedgerTyped, TermsTyped
<1>2. TermsTyped'
  BY <1>1 DEF TermsTyped
<1>3. Paid(ops, Len(periods)) \subseteq Paid(ops + 1, Len(ps))
  BY <1>1 DEF Paid
<1>4. IsFiniteSet(payments \cup new) /\ payments \cup new \subseteq Paid(ops', Len(ps))
  BY <1>1, <1>3, FS_Union
<1>5. Multi => \A p \in payments \cup new : p.number > 0
  BY <1>1
<1>6. Len(ps) > 0 /\ (Multi => Len(ps) \in Durations)
  BY <1>1
<1>7. LedgerTyped'
  BY <1>1, <1>4, <1>5, <1>6, LedgerStep
<1>8. Len(periods') = Len(ps)
  <2>1. \A p \in payments \cup new : p.amount \in Nat
    BY <1>4 DEF Paid
  <2> QED
    BY <1>1, <1>4, <2>1, ReconcileTyped
<1>9. SessionsTyped' /\ RepairTyped'
  BY <1>8, SessionsKept, RepairKept DEF Typed
<1> QED
  BY <1>2, <1>7, <1>9 DEF Typed

LEMMA PayBalanceTyped ==
  ASSUME Typed, NEW a \in Amounts, NEW chosen \in SUBSET DOMAIN periods, PayBalance(a, chosen),
         ops < MaxOps, ops' = ops + 1, UNCHANGED <<terms, today, view, stage, repair, edited>>
  PROVE  Typed'
<1>1. TermsTyped /\ LedgerTyped /\ a \in Int
  BY TermsAssumption DEF Typed
<1>2. /\ ReconciledNow \in Seq(Record) /\ Len(ReconciledNow) = Len(periods) /\ DebtNow \in DebtRow
      /\ Len(periods) \in Nat
  BY <1>1, NowType, SeqRows DEF LedgerTyped
<1>3. Multi /\ Reconcile(DebtNow, ReconciledNow, payments \cup Shares(a, chosen))
  BY DEF PayBalance, Shares
<1>4. /\ IsFiniteSet(Shares(a, chosen)) /\ Shares(a, chosen) \subseteq Paid(ops + 1, Len(periods))
      /\ \A p \in Shares(a, chosen) : p.number > 0
  BY <1>1, SharesType
<1> QED
  BY <1>2, <1>3, <1>4, PayTyped

\* The payment of PayInterest, and what SomePay says of a positive one.
LEMMA OnePay ==
  ASSUME Typed, NEW kind \in {"principal", "interest"}, NEW k \in Nat, NEW m \in 0..k, NEW x \in Nat \ {0}
  PROVE  IsFiniteSet({Pay(kind, m, x)}) /\ {Pay(kind, m, x)} \subseteq Paid(ops + 1, k)
<1>1. ops \in Nat
  BY DEF Typed, TermsTyped
<1>2. Pay(kind, m, x) \in Paid(ops + 1, k)
  BY <1>1 DEF Pay, Paid
<1> QED
  BY <1>2, FS_Singleton

LEMMA PayPrincipalTyped ==
  ASSUME Typed, NEW a \in Amounts, PayPrincipal(a),
         ops < MaxOps, ops' = ops + 1, UNCHANGED <<terms, today, view, stage, repair, edited>>
  PROVE  Typed'
<1> DEFINE applied == Lesser(a, DebtNow.capital)
           interest == Interest(DebtNow.capital - applied)
           ps == [n \in DOMAIN ReconciledNow |->
                     IF n \in OpenPeriod(ReconciledNow)
                     THEN [ReconciledNow[n] EXCEPT !.amount = interest, !.base = interest]
                     ELSE ReconciledNow[n]]
<1>1. TermsTyped /\ LedgerTyped /\ a \in Nat /\ ~Multi /\ applied > 0
  BY TermsAssumption DEF Typed, PayPrincipal
<1>2. /\ ReconciledNow \in Seq(Record) /\ Len(ReconciledNow) = Len(periods) /\ DebtNow \in DebtRow
      /\ DOMAIN ReconciledNow = DOMAIN periods /\ Len(periods) \in Nat
  BY <1>1, NowType, SeqRows DEF LedgerTyped
<1>3. Reconcile(DebtNow, ps, payments \cup {Pay("principal", 0, applied)})
  BY DEF PayPrincipal
<1>4. DebtNow.capital \in Nat
  BY <1>2 DEF DebtRow
<1>5. applied \in Nat \ {0} /\ DebtNow.capital - applied \in Nat
  BY <1>1, <1>4 DEF Lesser
<1>6. interest \in Int
  BY <1>1, <1>5, InterestType
<1> HIDE DEF interest, applied
<1>7. DOMAIN ReconciledNow = 1..Len(periods) /\ \A n \in DOMAIN ReconciledNow : ReconciledNow[n] \in Record
  BY <1>2, SeqRows
<1>8. ps \in [1..Len(periods) -> Record]
  <2>1. \A n \in DOMAIN ReconciledNow : [ReconciledNow[n] EXCEPT !.amount = interest, !.base = interest] \in Record
    BY <1>6, <1>7 DEF Record
  <2> QED
    BY <1>7, <2>1
<1> HIDE DEF ps
<1>9. ps \in Seq(Record) /\ Len(ps) = Len(periods)
  BY <1>2, <1>8, SeqOf
<1>10. IsFiniteSet({Pay("principal", 0, applied)}) /\ {Pay("principal", 0, applied)} \subseteq Paid(ops + 1, Len(ps))
  <2>1. "principal" \in {"principal", "interest"}
    OBVIOUS
  <2>2. Len(ps) \in Nat /\ 0 \in 0..Len(ps)
    BY <1>2, <1>9
  <2>3. applied \in Nat \ {0}
    BY <1>5
  <2> QED
    BY <2>1, <2>2, <2>3, OnePay
<1> QED
  BY <1>1, <1>2, <1>3, <1>9, <1>10, PayTyped

\* The rows of PayInterest before the next period is added.
InterestRows ==
  IF OpenPeriod(ReconciledNow) = {}
  THEN Append(ReconciledNow, Period(InterestDue(ReconciledNow), debt.due)) ELSE ReconciledNow
InterestNumber ==
  IF OpenPeriod(ReconciledNow) = {} THEN Len(InterestRows) ELSE Min(OpenPeriod(ReconciledNow))

LEMMA InterestRowsType ==
  ASSUME TermsTyped, LedgerTyped
  PROVE  /\ InterestRows \in Seq(Record) /\ Len(InterestRows) \in Nat
         /\ OpenPeriod(ReconciledNow) = {} => Len(InterestRows) = Len(periods) + 1
         /\ OpenPeriod(ReconciledNow) # {} => Len(InterestRows) = Len(periods)
         /\ \A n \in DOMAIN periods : InterestRows[n] = ReconciledNow[n]
         /\ InterestNumber \in 1..Len(InterestRows)
         /\ InterestRows[InterestNumber] \in Record
<1>1. /\ ReconciledNow \in Seq(Record) /\ Len(ReconciledNow) = Len(periods)
      /\ DOMAIN ReconciledNow = DOMAIN periods /\ Len(periods) \in Nat /\ DOMAIN periods = 1..Len(periods)
      /\ debt.due \in Int
  BY NowType, SeqRows DEF LedgerTyped, DebtRow
<1>2. Period(InterestDue(ReconciledNow), debt.due) \in Record
  BY <1>1, DueType, PeriodType
<1>3. CASE OpenPeriod(ReconciledNow) = {}
  <2>1. InterestRows = Append(ReconciledNow, Period(InterestDue(ReconciledNow), debt.due))
    BY <1>3 DEF InterestRows
  <2>2. /\ InterestRows \in Seq(Record) /\ Len(InterestRows) = Len(periods) + 1
        /\ \A n \in DOMAIN periods : InterestRows[n] = ReconciledNow[n]
    BY <1>1, <1>2, <2>1, AppendType
  <2>3. InterestNumber = Len(InterestRows)
    BY <1>3 DEF InterestNumber
  <2> HIDE DEF InterestRows
  <2>4. InterestNumber \in 1..Len(InterestRows)
    BY <1>1, <2>2, <2>3
  <2> QED
    BY <1>1, <1>3, <2>2, <2>4, SeqRows
<1>4. CASE OpenPeriod(ReconciledNow) # {}
  <2>1. InterestRows = ReconciledNow /\ InterestNumber = Min(OpenPeriod(ReconciledNow))
    BY <1>4 DEF InterestRows, InterestNumber
  <2>2. InterestNumber \in DOMAIN ReconciledNow
    BY <1>1, <1>4, <2>1, OpenOne
  <2>3. ReconciledNow[InterestNumber] \in Record
    BY <1>1, <2>2, SeqRows
  <2>4. Len(InterestRows) = Len(periods) /\ InterestNumber \in 1..Len(InterestRows)
    BY <1>1, <2>1, <2>2
  <2>6. \A n \in DOMAIN periods : InterestRows[n] = ReconciledNow[n]
    BY <2>1
  <2> QED
    BY <1>1, <1>4, <2>1, <2>3, <2>4, <2>6
<1> QED
  BY <1>3, <1>4

LEMMA PayInterestTyped ==
  ASSUME Typed, PayInterest,
         ops < MaxOps, ops' = ops + 1, UNCHANGED <<terms, today, view, stage, repair, edited>>
  PROVE  Typed'
<1> DEFINE due == InterestDue(ReconciledNow)
           next == InterestRows[InterestNumber].due + 1
           d == [DebtNow EXCEPT !.due = next]
           ps == Append(InterestRows, Period(Interest(DebtNow.capital), next))
           new == {Pay("interest", InterestNumber, due)}
<1>1. TermsTyped /\ LedgerTyped
  BY DEF Typed
<1>2. ~Multi /\ due > 0 /\ Reconcile(d, ps, payments \cup new)
  BY DEF PayInterest, InterestRows, InterestNumber
<1>3. /\ InterestRows \in Seq(Record) /\ Len(InterestRows) \in Nat /\ Len(InterestRows) >= Len(periods)
      /\ InterestNumber \in 1..Len(InterestRows) /\ InterestRows[InterestNumber] \in Record
  <2>1. Len(periods) \in Nat
    BY <1>1, SeqRows DEF LedgerTyped
  <2> QED
    BY <1>1, <2>1, InterestRowsType
<1>4. next \in Int /\ due \in Nat /\ DebtNow \in DebtRow
  <2>1. due \in Nat
    BY <1>1, DueType
  <2>2. DebtNow \in DebtRow
    BY <1>1, NowType
  <2>3. InterestRows[InterestNumber].due \in Int
    BY <1>3 DEF Record
  <2> QED
    BY <2>1, <2>2, <2>3
<1> HIDE DEF next, due
<1>5. d \in DebtRow /\ Interest(DebtNow.capital) \in Int
  <2>1. DebtNow.capital \in Nat /\ d \in DebtRow
    BY <1>4 DEF DebtRow
  <2> QED
    BY <1>1, <2>1, InterestType
<1>6. ps \in Seq(Record) /\ Len(ps) = Len(InterestRows) + 1
  BY <1>3, <1>4, <1>5, PeriodType, AppendType
<1> HIDE DEF d, ps
<1>7. IsFiniteSet(new) /\ new \subseteq Paid(ops + 1, Len(ps))
  <2>1. Len(ps) \in Nat /\ InterestNumber \in 0..Len(ps) /\ due \in Nat \ {0}
    BY <1>2, <1>3, <1>4, <1>6
  <2> QED
    BY <2>1, OnePay
<1> HIDE DEF new
<1>8. Len(ps) >= Len(periods)
  <2>1. Len(periods) \in Nat
    BY <1>1, SeqRows DEF LedgerTyped
  <2> QED
    BY <1>3, <1>6, <2>1
<1> QED
  BY <1>2, <1>5, <1>6, <1>7, <1>8, PayTyped

LEMMA SettleTyped ==
  ASSUME Typed, Settle,
         ops < MaxOps, ops' = ops + 1, UNCHANGED <<terms, today, view, stage, repair, edited>>
  PROVE  Typed'
<1> DEFINE n == IF OpenPeriod(ReconciledNow) = {} THEN 0 ELSE Min(OpenPeriod(ReconciledNow))
           A == Some(Pay("interest", n, InterestDue(ReconciledNow)))
           B == Some(Pay("principal", 0, DebtNow.capital))
<1>1. TermsTyped /\ LedgerTyped /\ ops \in Nat
  BY DEF Typed, TermsTyped
<1>2. /\ ReconciledNow \in Seq(Record) /\ Len(ReconciledNow) = Len(periods) /\ DebtNow \in DebtRow
      /\ DOMAIN ReconciledNow = DOMAIN periods /\ Len(periods) \in Nat /\ DOMAIN periods = 1..Len(periods)
  BY <1>1, NowType, SeqRows DEF LedgerTyped
<1>3. n \in 0..Len(periods)
  <2>1. OpenPeriod(ReconciledNow) # {} => Min(OpenPeriod(ReconciledNow)) \in DOMAIN periods
    BY <1>2, OpenOne
  <2> QED
    BY <1>2, <2>1
<1>4. ~Multi /\ Reconcile(DebtNow, ReconciledNow, payments \cup A \cup B)
  BY DEF Settle
<1>5. DebtNow.capital \in Nat /\ InterestDue(ReconciledNow) \in Nat
  BY <1>1, <1>2, DueType DEF DebtRow
<1> HIDE DEF n
<1>6. IsFiniteSet(A) /\ A \subseteq Paid(ops + 1, Len(periods))
  BY <1>1, <1>3, <1>5, SomePay
<1>7. IsFiniteSet(B) /\ B \subseteq Paid(ops + 1, Len(periods))
  <2>1. 0 \in 0..Len(periods)
    BY <1>2
  <2> QED
    BY <1>1, <1>5, <2>1, SomePay
<1> HIDE DEF A, B
<1>8. IsFiniteSet(A \cup B) /\ A \cup B \subseteq Paid(ops + 1, Len(periods)) /\ payments \cup A \cup B = payments \cup (A \cup B)
  BY <1>6, <1>7, FS_Union
<1>9. Reconcile(DebtNow, ReconciledNow, payments \cup (A \cup B))
  BY <1>4, <1>8
<1> QED
  BY <1>2, <1>4, <1>8, <1>9, PayTyped

LEMMA RecordPaymentTyped == ASSUME Typed, RecordPayment PROVE Typed'
<1>1. ops < MaxOps /\ ops' = ops + 1 /\ UNCHANGED <<terms, today, view, stage, repair, edited>>
  BY DEF RecordPayment
<1>2. CASE \E a \in Amounts : PayBalance(a, DOMAIN periods)
  BY <1>1, <1>2, PayBalanceTyped
<1>3. CASE \E a \in Amounts, n \in DOMAIN periods : PayBalance(a, {n})
  <2>1. PICK a \in Amounts, n \in DOMAIN periods : PayBalance(a, {n})
    BY <1>3
  <2>2. {n} \in SUBSET DOMAIN periods
    OBVIOUS
  <2> QED
    BY <1>1, <2>1, <2>2, PayBalanceTyped
<1>4. CASE \E a \in Amounts : PayPrincipal(a)
  BY <1>1, <1>4, PayPrincipalTyped
<1>5. CASE PayInterest
  BY <1>1, <1>5, PayInterestTyped
<1>6. CASE Settle
  BY <1>1, <1>6, SettleTyped
<1> QED
  BY <1>2, <1>3, <1>4, <1>5, <1>6 DEF RecordPayment

\* The columns of a row.
LEMMA RowFields ==
  ASSUME NEW ps \in Seq(Record), NEW n \in DOMAIN ps
  PROVE  /\ ps[n] \in Record /\ ps[n].base \in Int /\ ps[n].penalty \in Int /\ ps[n].amount \in Int
         /\ ps[n].paid \in Nat /\ ps[n].due \in Int
<1>1. ps[n] \in Record
  BY SeqRows
<1> QED
  BY <1>1 DEF Record

\* Payments of a period that has nothing paid do not exist.
LEMMA NonePaid ==
  ASSUME LedgerTyped, NEW p \in payments, p.number \in DOMAIN periods
  PROVE  periods[p.number].paid > 0
<1>1. IsFiniteSet(payments) /\ \A q \in payments : q.amount \in Nat \ {0}
  BY DEF LedgerTyped, Paid
<1>2. p.amount <= PaidOn(p.number, payments) /\ PaidOn(p.number, payments) \in Nat
  <2>1. \A q \in payments : q.amount \in Nat
    BY <1>1
  <2> QED
    BY <1>1, <2>1, PaidOnType
<1>3. p.amount \in Nat \ {0} /\ periods[p.number].paid = PaidOn(p.number, payments)
  BY <1>1 DEF LedgerTyped
<1> QED
  BY <1>2, <1>3

\* The first n rows.
LEMMA FirstRows ==
  ASSUME NEW ps \in Seq(Record), NEW n \in DOMAIN ps
  PROVE  /\ SubSeq(ps, 1, n) \in Seq(Record) /\ Len(SubSeq(ps, 1, n)) = n /\ DOMAIN SubSeq(ps, 1, n) = 1..n
         /\ \A m \in 1..n : SubSeq(ps, 1, n)[m] = ps[m] /\ m \in DOMAIN ps
<1>1. Len(ps) \in Nat /\ DOMAIN ps = 1..Len(ps)
  BY SeqRows
<1>2. n \in Nat /\ n >= 1 /\ n <= Len(ps) /\ \A m \in 1..n : m \in DOMAIN ps
  BY <1>1
<1>3. SubSeq(ps, 1, n) = [m \in 1..n |-> ps[m]]
  BY <1>2
<1>4. [m \in 1..n |-> ps[m]] \in [1..n -> Record]
  BY <1>2, SeqRows
<1>5. SubSeq(ps, 1, n) \in Seq(Record) /\ Len(SubSeq(ps, 1, n)) = n /\ DOMAIN SubSeq(ps, 1, n) = 1..n
  BY <1>2, <1>3, <1>4, SeqOf
<1> QED
  BY <1>2, <1>3, <1>5

LEMMA RevertTyped == ASSUME Typed, NEW n \in DOMAIN periods, RevertInstallment(n) PROVE Typed'
<1> DEFINE left == {p \in payments : p.number # n}
<1>1. TermsTyped /\ LedgerTyped /\ UNCHANGED <<terms, today, ops, view, stage, repair, edited>>
  BY DEF Typed, RevertInstallment
<1>2. /\ debt \in DebtRow /\ periods \in Seq(Record) /\ (Multi => Len(periods) \in Durations)
      /\ IsFiniteSet(payments) /\ payments \subseteq Paid(ops, Len(periods))
      /\ (Multi => \A p \in payments : p.number > 0)
      /\ Len(periods) > 0 /\ Len(periods) \in Nat /\ DOMAIN periods = 1..Len(periods)
  BY <1>1, SeqRows DEF LedgerTyped
<1>3. left \subseteq payments /\ IsFiniteSet(left)
  BY <1>2, FS_Subset
<1>4. TermsTyped'
  BY <1>1 DEF TermsTyped
<1>5. CASE Multi
  <2>1. Reconcile(debt, periods, left)
    BY <1>5 DEF RevertInstallment
  <2>2. left \subseteq Paid(ops', Len(periods)) /\ (Multi => \A p \in left : p.number > 0)
    BY <1>1, <1>2, <1>3
  <2> HIDE DEF left
  <2>3. LedgerTyped'
    BY <1>1, <1>2, <1>3, <2>1, <2>2, LedgerStep
  <2>4. \A p \in left : p.amount \in Nat
    BY <2>2 DEF Paid
  <2>5. Len(periods') = Len(periods)
    BY <1>1, <1>2, <1>3, <2>1, <2>4, ReconcileTyped
  <2> QED
    BY <1>1, <1>4, <2>3, <2>5, SessionsKept, RepairKept DEF Typed
<1>6. CASE ~Multi
  <2> DEFINE d == [debt EXCEPT !.due = periods[n].due]
             ps == SubSeq(periods, 1, n)
  <2>1. Reconcile(d, ps, left) /\ \A m \in DOMAIN periods : m > n => periods[m].paid <= 0
    BY <1>6 DEF RevertInstallment
  <2>2. d \in DebtRow
    <3>1. periods[n].due \in Int
      BY <1>2, RowFields
    <3> QED
      BY <1>2, <3>1 DEF DebtRow
  <2>3. ps \in Seq(Record) /\ Len(ps) = n /\ n > 0
    BY <1>2, FirstRows
  <2>4. left \subseteq Paid(ops', n)
    <3> SUFFICES ASSUME NEW p \in left PROVE p \in Paid(ops, n)
      BY <1>1
    <3>1. p \in Paid(ops, Len(periods))
      BY <1>2
    <3>2. ~(p.number > n)
      <4> SUFFICES ASSUME p.number > n PROVE FALSE
        OBVIOUS
      <4>1. p.number \in DOMAIN periods /\ p \in payments
        BY <1>2, <3>1 DEF Paid
      <4>2. periods[p.number].paid > 0 /\ periods[p.number].paid <= 0
        BY <1>1, <2>1, <4>1, NonePaid
      <4>3. periods[p.number].paid \in Int
        BY <1>2, <4>1, RowFields
      <4> QED
        BY <4>2, <4>3
    <3> QED
      BY <1>2, <3>1, <3>2 DEF Paid
  <2> HIDE DEF d, ps, left
  <2>5. LedgerTyped'
    BY <1>1, <1>3, <1>6, <2>1, <2>2, <2>3, <2>4, LedgerStep
  <2> QED
    BY <1>1, <1>4, <1>6, <2>5, SessionsKept, RepairKept DEF Typed
<1> QED
  BY <1>5, <1>6

\* A sequence with one row changed.
LEMMA ChangedRow ==
  ASSUME NEW ps \in Seq(Record), NEW n \in DOMAIN ps, NEW row \in Record
  PROVE  /\ [ps EXCEPT ![n] = row] \in Seq(Record) /\ Len([ps EXCEPT ![n] = row]) = Len(ps)
         /\ DOMAIN [ps EXCEPT ![n] = row] = DOMAIN ps
<1>1. Len(ps) \in Nat /\ DOMAIN ps = 1..Len(ps) /\ \A m \in DOMAIN ps : ps[m] \in Record
  BY SeqRows
<1>2. [ps EXCEPT ![n] = row] \in [1..Len(ps) -> Record]
  BY <1>1
<1> QED
  BY <1>1, <1>2, SeqOf

LEMMA EditTyped ==
  ASSUME Typed, NEW n \in DOMAIN periods, NEW base \in PhoneBases, NEW due \in PhoneDues, EditPeriod(n, base, due)
  PROVE  Typed'
<1> DEFINE row == [periods[n] EXCEPT !.base = base, !.amount = base, !.due = due]
           ps == [periods EXCEPT ![n] = row]
<1>1. /\ TermsTyped /\ LedgerTyped /\ UNCHANGED <<terms, today, view, stage, repair>> /\ edited' = TRUE
      /\ ops < MaxOps /\ ops' = ops + 1 /\ base \in Int /\ due \in Int
  BY TermsAssumption DEF Typed, EditPeriod
<1>2. /\ debt \in DebtRow /\ periods \in Seq(Record) /\ (Multi => Len(periods) \in Durations)
      /\ IsFiniteSet(payments) /\ payments \subseteq Paid(ops, Len(periods))
      /\ (Multi => \A p \in payments : p.number > 0) /\ Len(periods) > 0
  BY <1>1 DEF LedgerTyped
<1>3. Reconcile(debt, ps, payments)
  <2>1. ps = [periods EXCEPT ![n].base = base, ![n].amount = base, ![n].due = due]
    OBVIOUS
  <2> QED
    BY <2>1 DEF EditPeriod
<1>4. periods[n] \in Record
  BY <1>2, SeqRows
<1>5. row \in Record
  BY <1>1, <1>4 DEF Record
<1> HIDE DEF row
<1>6. ps \in Seq(Record) /\ Len(ps) = Len(periods)
  BY <1>2, <1>5, ChangedRow
<1> HIDE DEF ps
<1>7. TermsTyped'
  BY <1>1, TermsAssumption DEF TermsTyped
<1>8. payments \subseteq Paid(ops', Len(ps)) /\ \A p \in payments : p.amount \in Nat
  BY <1>1, <1>2, <1>6 DEF Paid, TermsTyped
<1>9. LedgerTyped'
  BY <1>1, <1>2, <1>3, <1>6, <1>8, LedgerStep
<1>10. Len(periods') = Len(periods)
  BY <1>1, <1>2, <1>3, <1>6, <1>8, ReconcileTyped
<1> QED
  BY <1>1, <1>7, <1>9, <1>10, SessionsKept, RepairKept DEF Typed

\* The bases a repair aims at.
LEMMA EqualType ==
  ASSUME NEW total \in Int, NEW n \in Nat \ {0}
  PROVE  EqualPeriodAmounts(total, n) \in [1..n -> Int]
<1> DEFINE whole == (total \div (n * Unit)) * Unit
           base == IF whole > 0 THEN whole ELSE Rounded(total, n)
<1>1. n * Unit \in Nat \ {0}
  BY UnitAssumption
<1>2. whole \in Int
  BY <1>1, UnitAssumption
<1>3. Rounded(total, n) \in Int
  BY DEF Rounded
<1>4. EqualPeriodAmounts(total, n) = [i \in 1..n |-> IF i < n THEN base ELSE total - base * (n - 1)]
  BY DEF EqualPeriodAmounts
<1> HIDE DEF whole
<1>5. base \in Int
  BY <1>2, <1>3
<1> HIDE DEF base
<1>6. total - base * (n - 1) \in Int
  BY <1>5
<1> QED
  BY <1>4, <1>5, <1>6

\* What a loan is expected to bring, and the bases a repair aims at.
LEMMA ExpectedType == ASSUME TermsTyped PROVE Expected \in Nat
<1>1. terms.principal \in Nat /\ terms.interestRate \in Nat
  BY DEF TermsTyped
<1>2. Percent(terms.principal, terms.interestRate) \in Nat
  BY <1>1, PercentNat
<1> QED
  BY <1>1, <1>2 DEF Expected

LEMMA RepairedType ==
  ASSUME TermsTyped, LedgerTyped
  PROVE  Repaired(periods) \in [1..Len(periods) -> Int]
<1>1. /\ periods \in Seq(Record) /\ Len(periods) \in Nat \ {0} /\ DOMAIN periods = 1..Len(periods)
      /\ \A n \in DOMAIN periods : periods[n] \in Record
  BY SeqRows DEF LedgerTyped
<1>2. EqualPeriodAmounts(Expected, Len(periods)) \in [1..Len(periods) -> Int]
  BY <1>1, ExpectedType, EqualType
<1>3. Bases(periods) \in [1..Len(periods) -> Int]
  BY <1>1 DEF Bases, Base, Record
<1>4. Gap(periods) \in Int
  <2>1. Expected \in Nat /\ Total(Bases(periods)) \in Int
    BY <1>1, ExpectedType, OverType
  <2> QED
    BY <2>1 DEF Gap
<1>5. [Bases(periods) EXCEPT ![Len(periods)] = @ + Gap(periods)] \in [1..Len(periods) -> Int]
  BY <1>1, <1>3, <1>4
<1> QED
  BY <1>2, <1>3, <1>5 DEF Repaired

LEMMA RepairReadTyped == ASSUME Typed, RepairRead PROVE Typed'
<1>1. UNCHANGED <<terms, debt, periods, payments, today, ops, view, stage, edited>> /\ Multi
  BY DEF RepairRead
<1>2. TermsTyped' /\ LedgerTyped' /\ SessionsTyped'
  BY <1>1 DEF Typed, TermsTyped, LedgerTyped, SessionsTyped, Multi
<1>3. RepairTyped'
  <2> DEFINE changed == {n \in DOMAIN periods : Repaired(periods)[n] # Base(periods[n])}
  <2>1. repair' = [n \in changed |-> [base |-> Repaired(periods)[n], penalty |-> periods[n].penalty,
                                      paid |-> periods[n].paid]]
    BY DEF RepairRead
  <2>2. periods \in Seq(Record) /\ Repaired(periods) \in [1..Len(periods) -> Int]
    BY RepairedType DEF Typed, LedgerTyped
  <2>3. DOMAIN periods = 1..Len(periods) /\ \A n \in DOMAIN periods : periods[n] \in Record
    BY <2>2, SeqRows
  <2>4. changed \subseteq 1..Len(periods)
    BY <2>3
  <2> HIDE DEF changed
  <2>5. ASSUME NEW n \in DOMAIN repair' PROVE n \in 1..Len(periods) /\ repair'[n] \in [base : Int, penalty : Int, paid : Nat]
    BY <2>1, <2>2, <2>3, <2>4 DEF Record
  <2> QED
    BY <1>1, <2>5 DEF RepairTyped, Multi
<1> QED
  BY <1>2, <1>3 DEF Typed

\* The rows a repair saves.
RepairedRows ==
  [n \in DOMAIN periods |->
     IF n \in DOMAIN repair
     THEN [periods[n] EXCEPT !.base = repair[n].base, !.amount = repair[n].base + repair[n].penalty]
     ELSE periods[n]]

\* The rows a repair saves are rows.
LEMMA RepairedRowsType ==
  ASSUME Typed, repair # NoRepair
  PROVE  RepairedRows \in Seq(Record) /\ Len(RepairedRows) = Len(periods) /\ DOMAIN RepairedRows = DOMAIN periods
<1>1. /\ periods \in Seq(Record) /\ Len(periods) \in Nat /\ DOMAIN periods = 1..Len(periods)
      /\ \A n \in DOMAIN periods : periods[n] \in Record
  BY SeqRows DEF Typed, LedgerTyped
<1>2. ASSUME NEW n \in DOMAIN periods PROVE RepairedRows[n] \in Record
  <2>1. n \in DOMAIN repair => repair[n].base \in Int /\ repair[n].penalty \in Int
    BY DEF Typed, RepairTyped
  <2> QED
    <3>1. RepairedRows[n] = IF n \in DOMAIN repair
            THEN [periods[n] EXCEPT !.base = repair[n].base, !.amount = repair[n].base + repair[n].penalty]
            ELSE periods[n]
      BY DEF RepairedRows
    <3>2. periods[n] \in Record
      BY <1>1
    <3>3. ASSUME NEW p \in Record, NEW b \in Int, NEW y \in Int
          PROVE  [p EXCEPT !.base = b, !.amount = y] \in Record
      BY DEF Record
    <3>4. CASE n \in DOMAIN repair
      <4> DEFINE b == repair[n].base
                 y == repair[n].base + repair[n].penalty
      <4>1. b \in Int /\ y \in Int /\ RepairedRows[n] = [periods[n] EXCEPT !.base = b, !.amount = y]
        BY <2>1, <3>1, <3>4
      <4> HIDE DEF b, y
      <4> QED
        BY <3>2, <3>3, <4>1
    <3>5. CASE n \notin DOMAIN repair
      BY <3>1, <3>2, <3>5
    <3> QED
      BY <3>4, <3>5
<1>3. RepairedRows \in [1..Len(periods) -> Record]
  BY <1>1, <1>2 DEF RepairedRows
<1> QED
  BY <1>1, <1>3, SeqOf

LEMMA RepairSaveTyped == ASSUME Typed, RepairSave PROVE Typed'
<1>1. /\ TermsTyped /\ LedgerTyped /\ UNCHANGED <<terms, today, ops, view, stage>> /\ repair' = NoRepair
      /\ Reconcile(debt, RepairedRows, payments) /\ edited' \in BOOLEAN /\ repair # NoRepair
  BY DEF Typed, TermsTyped, RepairSave, RepairedRows
<1>2. /\ debt \in DebtRow /\ periods \in Seq(Record) /\ (Multi => Len(periods) \in Durations)
      /\ IsFiniteSet(payments) /\ payments \subseteq Paid(ops, Len(periods))
      /\ (Multi => \A p \in payments : p.number > 0) /\ Len(periods) > 0
  BY <1>1 DEF LedgerTyped
<1>3. RepairedRows \in Seq(Record) /\ Len(RepairedRows) = Len(periods)
  BY <1>1, RepairedRowsType
<1>4. payments \subseteq Paid(ops', Len(RepairedRows))
  BY <1>1, <1>2, <1>3
<1>5. LedgerTyped'
  BY <1>1, <1>2, <1>3, <1>4, LedgerStep
<1>6. TermsTyped' /\ SessionsTyped' /\ RepairTyped'
  BY <1>1, SessionsKept DEF Typed, TermsTyped, RepairTyped
<1> QED
  BY <1>5, <1>6 DEF Typed

LEMMA PatchTyped == ASSUME Typed, NEW c \in Clerks, Patch(c) PROVE Typed'
<1> USE TermsAssumption
<1>1. CASE PatchRead(c)
  <2>1. ops < MaxOps /\ ops' = ops + 1 /\ edited' = TRUE /\ UNCHANGED <<terms, debt, periods, payments, today, repair>>
    BY <1>1 DEF PatchRead
  <2>2. TermsTyped' /\ ops \in Nat
    BY <2>1 DEF Typed, TermsTyped
  <2>3. Paid(ops, Len(periods)) \subseteq Paid(ops', Len(periods))
    BY <2>1, <2>2 DEF Paid
  <2>4. LedgerTyped' /\ RepairTyped'
    BY <2>1, <2>3 DEF Typed, LedgerTyped, RepairTyped, Multi
  <2>5. SessionsTyped'
    <3>1. PICK rate \in PatchRates \cup {debt.penaltyRate} :
            \/ /\ view' = [view EXCEPT ![c] = [debt EXCEPT !.penaltyRate = rate]]
               /\ stage' = [stage EXCEPT ![c] = "save"]
            \/ \E due \in PatchDues :
                 /\ view' = [view EXCEPT ![c] = [debt EXCEPT !.penaltyRate = rate, !.due = due]]
                 /\ stage' = [stage EXCEPT ![c] = "save due"]
      BY <1>1 DEF PatchRead
    <3>2. rate \in Nat /\ debt \in DebtRow
      BY DEF Typed, LedgerTyped, DebtRow
    <3>3. PICK v \in DebtRow : view' = [view EXCEPT ![c] = v]
      BY <3>1, <3>2 DEF DebtRow
    <3>4. stage' = [stage EXCEPT ![c] = "save"] \/ stage' = [stage EXCEPT ![c] = "save due"]
      BY <3>1
    <3> QED
      BY <3>3, <3>4 DEF Typed, SessionsTyped
  <2> QED
    BY <2>2, <2>4, <2>5 DEF Typed
<1>2. CASE PatchSave(c)
  <2>1. /\ UNCHANGED <<terms, periods, payments, today, ops, view, repair, edited>> /\ debt' = view[c]
        /\ stage[c] \in {"save", "save due"} /\ stage' = [stage EXCEPT ![c] = IF @ = "save" THEN "status" ELSE "period"]
    BY <1>2 DEF PatchSave
  <2>2. view[c] \in DebtRow
    BY <2>1 DEF Typed, SessionsTyped
  <2>3. TermsTyped' /\ LedgerTyped' /\ RepairTyped'
    BY <2>1, <2>2 DEF Typed, TermsTyped, LedgerTyped, RepairTyped, Multi
  <2>4. SessionsTyped'
    BY <2>1 DEF Typed, SessionsTyped
  <2> QED
    BY <2>3, <2>4 DEF Typed
<1>3. CASE PatchPeriod(c)
  <2> DEFINE n == Len(periods)
             row == [periods[n] EXCEPT !.due = view[c].due]
  <2>1. /\ UNCHANGED <<terms, debt, payments, today, ops, view, repair, edited>> /\ stage[c] = "period"
        /\ stage' = [stage EXCEPT ![c] = "status"]
        /\ periods' = [periods EXCEPT ![n] = row]
    BY <1>3 DEF PatchPeriod
  <2>2. periods \in Seq(Record) /\ n \in DOMAIN periods /\ view[c].due \in Int
    <3>1. periods \in Seq(Record) /\ Len(periods) > 0 /\ view[c] \in DebtRow
      BY <2>1 DEF Typed, LedgerTyped, SessionsTyped
    <3> QED
      BY <3>1, SeqRows DEF DebtRow
  <2>3. periods[n] \in Record
    BY <2>2, SeqRows
  <2>4. row \in Record /\ row.amount = periods[n].amount /\ row.base = periods[n].base /\ row.penalty = periods[n].penalty
        /\ row.paid = periods[n].paid
    BY <2>2, <2>3 DEF Record
  <2> HIDE DEF row, n
  <2>5. periods' \in Seq(Record) /\ Len(periods') = Len(periods) /\ DOMAIN periods' = DOMAIN periods
    BY <2>1, <2>2, <2>4, ChangedRow
  <2>6. \A m \in DOMAIN periods : periods'[m] = IF m = n THEN row ELSE periods[m]
    BY <2>1, <2>2
  <2>7. TermsTyped' /\ RepairTyped' /\ SessionsTyped'
    <3>1. TermsTyped' /\ RepairTyped'
      BY <2>1, <2>5 DEF Typed, TermsTyped, RepairTyped, Multi
    <3>2. SessionsTyped'
      BY <2>1 DEF Typed, SessionsTyped
    <3> QED
      BY <3>1, <3>2
  <2>8. LedgerTyped'
    <3>1. \A m \in DOMAIN periods' : /\ periods'[m].amount = periods'[m].base + periods'[m].penalty
                                     /\ periods'[m].paid = PaidOn(m, payments)
      <4>1. \A m \in DOMAIN periods : /\ periods[m].amount = periods[m].base + periods[m].penalty
                                      /\ periods[m].paid = PaidOn(m, payments)
        BY DEF Typed, LedgerTyped
      <4> QED
        BY <2>2, <2>4, <2>5, <2>6, <4>1
    <3> QED
      BY <2>1, <2>5, <3>1 DEF Typed, LedgerTyped, Multi
  <2> QED
    BY <2>7, <2>8 DEF Typed
<1>4. CASE PatchStatus(c)
  <2>1. /\ UNCHANGED <<terms, periods, payments, today, ops, repair, edited>>
        /\ debt' = [debt EXCEPT !.status = CurrentStatus(view[c].outstanding, view[c].due, today)]
        /\ stage' = [stage EXCEPT ![c] = "done"] /\ view' = [view EXCEPT ![c] = NoView]
    BY <1>4 DEF PatchStatus
  <2>2. debt' \in DebtRow
    <3>1. debt \in DebtRow
      BY DEF Typed, LedgerTyped
    <3>2. CurrentStatus(view[c].outstanding, view[c].due, today) \in {"unpaid", "overdue", "paid"}
      BY DEF CurrentStatus
    <3> QED
      BY <2>1, <3>1, <3>2 DEF DebtRow
  <2>3. TermsTyped' /\ LedgerTyped' /\ RepairTyped'
    BY <2>1, <2>2 DEF Typed, TermsTyped, LedgerTyped, RepairTyped, Multi
  <2>4. SessionsTyped'
    BY <2>1 DEF Typed, SessionsTyped
  <2> QED
    BY <2>3, <2>4 DEF Typed
<1> QED
  BY <1>1, <1>2, <1>3, <1>4 DEF Patch

LEMMA NextDayTyped == ASSUME Typed, NextDay PROVE Typed'
<1>1. today < MaxToday /\ today' = today + 1 /\ UNCHANGED <<terms, debt, periods, payments, ops, view, stage, repair, edited>>
  BY DEF NextDay
<1>2. TermsTyped'
  BY <1>1, TermsAssumption DEF Typed, TermsTyped
<1> QED
  BY <1>1, <1>2 DEF Typed, LedgerTyped, SessionsTyped, RepairTyped, Multi

\* Every step leaves what is typed typed.
LEMMA TypedStep == ASSUME Typed, [Next]_vars PROVE Typed'
<1>1. CASE UNCHANGED vars
  BY <1>1 DEF vars, Typed, TermsTyped, LedgerTyped, SessionsTyped, RepairTyped, Multi
<1>2. CASE Next
  BY <1>2, RecordPaymentTyped, RevertTyped, AssessTyped, PatchTyped, EditTyped, RepairReadTyped, RepairSaveTyped,
     NextDayTyped DEF Next
<1> QED
  BY <1>1, <1>2

-----------------------------------------------------------------------------
(* The invariant of regular loans.                                         *)

\* A period of a regular loan before it is reconciled, and after.
PreSound(p, rate, day) ==
  /\ p.amount = p.base + p.penalty /\ p.base >= 0
  /\ p.penalty \in {0, Percent(p.base, rate)} /\ (p.penalty # 0 => p.due < day)
Sound(p, rate, day) == PreSound(p, rate, day) /\ p.paid <= p.amount

Fresh == \E day \in 0..today : debt = ReconciledDebt(debt, periods, payments, day)

\* Shares of a total in which the last takes the rest.
LastTakes(total, n, b) == [i \in 1..n |-> IF i < n THEN b ELSE total - b * (n - 1)]
EqualBase(total, n) ==
  LET whole == (total \div (n * Unit)) * Unit IN IF whole > 0 THEN whole ELSE Rounded(total, n)
OldBase(n) == Rounded(Expected, n)

Shaped(bases, n) ==
  \/ bases = LastTakes(Expected, n, EqualBase(Expected, n))
  \/ terms.rounding = "cents" /\ bases = LastTakes(Expected, n, OldBase(n))
Shape ==
  \/ Shaped(Bases(periods), Len(periods))
  \/ terms.rounding = "cents" /\ \A n \in DOMAIN periods : periods[n].base = OldBase(Len(periods))

RepairAims ==
  repair # NoRepair =>
  /\ Shaped([n \in DOMAIN periods |-> IF n \in DOMAIN repair THEN repair[n].base ELSE periods[n].base], Len(periods))
  /\ \A n \in DOMAIN repair : repair[n].base > 0

MultiInv == Multi => Shape /\ RepairAims

SingleInv ==
  ~Multi =>
  /\ debt.penaltyRate = 0
  /\ \A n \in DOMAIN periods : /\ periods[n].paid = 0 \/ periods[n].paid = periods[n].amount
                               /\ n < Len(periods) => periods[n].paid = periods[n].amount
  /\ debt.due = periods[Len(periods)].due
  /\ Principal(payments) <= terms.principal

RegularInv ==
  Regular =>
  /\ \A c \in Clerks : stage[c] = "idle"
  /\ \A n \in DOMAIN periods : Sound(periods[n], debt.penaltyRate, today)
  /\ Fresh /\ MultiInv /\ SingleInv

\* Reconciling a regular row gives a regular row of which no more than its amount is paid.
LEMMA SoundRow ==
  ASSUME NEW p \in Record, NEW rate \in Nat, NEW day \in Int, PreSound(p, rate, day),
         NEW paid \in Nat, paid <= p.amount
  PROVE  /\ Sound(Row(p, paid, rate, day), rate, day) /\ Row(p, paid, rate, day).amount >= p.amount
         /\ Row(p, paid, rate, day).base = p.base /\ Row(p, paid, rate, day).paid = paid
<1> DEFINE pen == Penalty(p, paid, rate, day)
           q == Row(p, paid, rate, day)
           pc == Percent(p.base, rate)
<1>1. p.base \in Nat /\ p.penalty \in Int /\ p.amount \in Int /\ p.due \in Int
  BY DEF Record, PreSound
<1>2. Base(p) = p.base
  BY <1>1 DEF Base, PreSound
<1>3. pc \in Nat
  BY <1>1, PercentNat
<1>4. pen = IF paid >= p.amount /\ p.amount > 0 THEN p.penalty
            ELSE IF p.due < day /\ paid < p.amount THEN pc ELSE 0
  BY <1>2 DEF Penalty
<1>5. q = [base |-> p.base, penalty |-> pen, amount |-> p.base + pen, paid |-> paid, due |-> p.due]
  BY <1>2 DEF Row
<1>6. p.amount = p.base + p.penalty /\ (p.penalty = 0 \/ p.penalty = pc) /\ (p.penalty # 0 => p.due < day)
  BY DEF PreSound
<1> HIDE DEF pen, pc, q
<1>7. /\ pen \in {0, pc} /\ (pen # 0 => p.due < day) /\ paid <= p.base + pen /\ p.base + pen >= p.amount
  BY <1>1, <1>3, <1>4, <1>6
<1>8. q.base = p.base /\ q.penalty = pen /\ q.amount = p.base + pen /\ q.paid = paid /\ q.due = p.due
  BY <1>5
<1>9. Sound(q, rate, day) /\ q.amount >= p.amount
  BY <1>1, <1>7, <1>8 DEF Sound, PreSound, pc
<1> QED
  BY <1>8, <1>9 DEF q

\* A row whose columns add up has its own base.
LEMMA BaseOf == ASSUME NEW p \in Record, p.amount = p.base + p.penalty PROVE Base(p) = p.base
BY DEF Base, Record

\* The debt row as a function of the terms.
DebtOf(t, d, ps, pays, day) ==
  LET multi == t.loanType = "multi"
      capital == IF multi THEN d.capital ELSE Positive(t.principal - Principal(pays))
      open == SumOver(ps, Open)
      outstanding == IF multi THEN open ELSE capital + open
  IN [d EXCEPT !.capital = capital,
               !.total = IF multi THEN SumOver(ps, LAMBDA p : p.amount) ELSE outstanding,
               !.collected = Sum(pays),
               !.outstanding = outstanding,
               !.status = CurrentStatus(outstanding, d.due, day)]

\* The derived columns before and after a step.
LEMMA DebtNext ==
  /\ \A d, ps, pays, day : ReconciledDebt(d, ps, pays, day) = DebtOf(terms, d, ps, pays, day)
  /\ \A day : ReconciledDebt(debt, periods, payments, day)' = DebtOf(terms', debt', periods', payments', day)
<1>1. ASSUME NEW d, NEW ps, NEW pays, NEW day
      PROVE  ReconciledDebt(d, ps, pays, day) = DebtOf(terms, d, ps, pays, day)
  BY DEF ReconciledDebt, DebtOf, Multi, SumOver
<1>2. ASSUME NEW day
      PROVE  ReconciledDebt(debt, periods, payments, day)' = DebtOf(terms', debt', periods', payments', day)
  BY DEF ReconciledDebt, DebtOf, Multi, SumOver
<1> QED
  BY <1>1, <1>2

\* Reconciling a debt row a second time changes nothing.
LEMMA DebtAgain ==
  ASSUME terms.principal \in Nat, NEW d \in DebtRow, NEW ps, NEW pays, NEW day
  PROVE  LET e == ReconciledDebt(d, ps, pays, day) IN ReconciledDebt(e, ps, pays, day) = e
<1> DEFINE capital == IF Multi THEN d.capital ELSE Positive(terms.principal - Principal(pays))
           open == SumOver(ps, Open)
           outstanding == IF Multi THEN open ELSE capital + open
           total == IF Multi THEN SumOver(ps, LAMBDA p : p.amount) ELSE outstanding
           collected == Sum(pays)
           e == ReconciledDebt(d, ps, pays, day)
<1>1. e = [d EXCEPT !.capital = capital, !.total = total, !.collected = collected,
                    !.outstanding = outstanding, !.status = CurrentStatus(outstanding, d.due, day)]
  BY DEF ReconciledDebt
<1>2. e.capital = capital /\ e.due = d.due
  BY <1>1 DEF DebtRow
<1>3. (IF Multi THEN e.capital ELSE Positive(terms.principal - Principal(pays))) = capital
  BY <1>2
<1>4. ReconciledDebt(e, ps, pays, day) =
        [e EXCEPT !.capital = capital, !.total = total, !.collected = collected,
                  !.outstanding = outstanding, !.status = CurrentStatus(outstanding, d.due, day)]
  BY <1>2, <1>3 DEF ReconciledDebt
<1> HIDE DEF capital, total, collected, outstanding
<1>5. [e EXCEPT !.capital = capital, !.total = total, !.collected = collected,
                  !.outstanding = outstanding, !.status = CurrentStatus(outstanding, d.due, day)] = e
  BY <1>1 DEF DebtRow
<1> QED
  BY <1>4, <1>5

\* A reconciliation leaves a fresh debt row.
LEMMA FreshRows ==
  ASSUME TermsTyped, NEW d \in DebtRow, NEW ps, NEW pays, Reconcile(d, ps, pays), terms' = terms, today' = today
  PROVE  Fresh'
<1>1. today \in Nat /\ terms.principal \in Nat
  BY DEF TermsTyped
<1>2. debt' = ReconciledDebt(d, periods', pays, today) /\ payments' = pays
  BY DEF Reconcile
<1>3. ReconciledDebt(debt', periods', payments', today) = debt'
  BY <1>1, <1>2, DebtAgain
<1>4. ReconciledDebt(debt, periods, payments, today)' = ReconciledDebt(debt', periods', payments', today)
  BY DebtNext
<1>5. debt' = ReconciledDebt(debt, periods, payments, today)' /\ today' \in 0..today'
  BY <1>1, <1>3, <1>4
<1> QED
  BY <1>5 DEF Fresh

\* Reconciling sound rows leaves sound rows and a fresh debt row.
LEMMA RowsSound ==
  ASSUME TermsTyped, NEW d \in DebtRow, NEW ps \in Seq(Record), NEW pays, IsFiniteSet(pays),
         \A p \in pays : p.amount \in Nat, Reconcile(d, ps, pays),
         \A n \in DOMAIN ps : PreSound(ps[n], d.penaltyRate, today) /\ PaidOn(n, pays) <= ps[n].amount,
         terms' = terms, today' = today
  PROVE  /\ \A n \in DOMAIN periods' : Sound(periods'[n], debt'.penaltyRate, today')
         /\ Fresh'
<1>1. /\ debt' \in DebtRow /\ debt'.penaltyRate = d.penaltyRate
      /\ DOMAIN periods' = DOMAIN ps
      /\ \A n \in DOMAIN ps : periods'[n] = Row(ps[n], PaidOn(n, pays), d.penaltyRate, today)
  BY ReconcileTyped
<1>2. d.penaltyRate \in Nat /\ today \in Nat /\ terms.principal \in Nat
  BY DEF DebtRow, TermsTyped
<1>3. ASSUME NEW n \in DOMAIN ps PROVE Sound(periods'[n], debt'.penaltyRate, today')
  <2>1. ps[n] \in Record /\ PaidOn(n, pays) \in Nat
    BY SeqRows, PaidOnType
  <2>2. Sound(Row(ps[n], PaidOn(n, pays), d.penaltyRate, today), d.penaltyRate, today)
    BY <1>2, <2>1, SoundRow
  <2> QED
    BY <1>1, <2>2
<1>4. Fresh'
  BY FreshRows
<1> QED
  BY <1>1, <1>3, <1>4

\* What the rows of the moment are like in a regular loan.
LEMMA NowSound ==
  ASSUME Typed, RegularInv, Regular, NEW n \in DOMAIN periods
  PROVE  /\ Sound(ReconciledNow[n], debt.penaltyRate, today) /\ ReconciledNow[n].amount >= periods[n].amount
         /\ PreSound(periods[n], debt.penaltyRate, today) /\ PaidOn(n, payments) <= periods[n].amount
         /\ ReconciledNow[n].paid = periods[n].paid /\ PaidOn(n, payments) = periods[n].paid
<1>1. /\ TermsTyped /\ LedgerTyped /\ debt.penaltyRate \in Nat /\ today \in Int
      /\ Sound(periods[n], debt.penaltyRate, today)
  BY DEF Typed, TermsTyped, LedgerTyped, DebtRow, RegularInv
<1>2. /\ ReconciledNow[n] = Row(periods[n], periods[n].paid, debt.penaltyRate, today) /\ periods[n] \in Record
      /\ ReconciledNow[n].paid = periods[n].paid
  BY <1>1, NowType
<1>3. PreSound(periods[n], debt.penaltyRate, today) /\ periods[n].paid <= periods[n].amount
  BY <1>1 DEF Sound
<1>4. periods[n].paid \in Nat /\ periods[n].paid = PaidOn(n, payments)
  BY <1>1, <1>2 DEF Record, LedgerTyped
<1> QED
  BY <1>1, <1>2, <1>3, <1>4, SoundRow

\* The bases of a multi-period loan are those of the rows that are reconciled.
LEMMA ShapeKept ==
  ASSUME Typed, Shape, RepairAims, NEW d \in DebtRow, NEW ps \in Seq(Record), NEW pays, IsFiniteSet(pays),
         \A p \in pays : p.amount \in Nat, Reconcile(d, ps, pays), Len(ps) = Len(periods),
         \A n \in DOMAIN periods : Base(ps[n]) = periods[n].base, terms' = terms, repair' = repair
  PROVE  Shape' /\ RepairAims'
<1>1. /\ DOMAIN ps = DOMAIN periods /\ DOMAIN periods = 1..Len(periods) /\ periods \in Seq(Record) /\ LedgerTyped
  BY SeqRows DEF Typed, LedgerTyped
<1>2. /\ periods' \in Seq(Record) /\ Len(periods') = Len(periods) /\ DOMAIN periods' = DOMAIN periods
      /\ \A n \in DOMAIN periods : periods'[n].base = periods[n].base
                                   /\ periods'[n].amount = periods'[n].base + periods'[n].penalty
  BY <1>1, ReconcileTyped DEF Typed
<1>3. \A n \in DOMAIN periods : Base(periods[n]) = periods[n].base /\ Base(periods'[n]) = periods'[n].base
  <2> TAKE n \in DOMAIN periods
  <2>1. periods[n] \in Record /\ periods'[n] \in Record /\ periods[n].amount = periods[n].base + periods[n].penalty
    BY <1>1, <1>2, SeqRows DEF LedgerTyped
  <2> QED
    BY <1>2, <2>1, BaseOf
<1>4. Bases(periods') = Bases(periods)
  BY <1>2, <1>3 DEF Bases
<1>5. Expected' = Expected /\ terms'.rounding = terms.rounding
  BY DEF Expected
<1>6. OldBase(Len(periods))' = OldBase(Len(periods)) /\ \A bases, n : Shaped(bases, n)' <=> Shaped(bases, n)
  BY <1>2, <1>5 DEF OldBase, Shaped
<1>7. Shape'
  BY <1>2, <1>4, <1>5, <1>6 DEF Shape, Shaped, OldBase
<1>8. RepairAims'
  <2>1. [n \in DOMAIN periods' |-> IF n \in DOMAIN repair' THEN repair'[n].base ELSE periods'[n].base] =
        [n \in DOMAIN periods |-> IF n \in DOMAIN repair THEN repair[n].base ELSE periods[n].base]
    BY <1>2
  <2> QED
    BY <1>2, <1>5, <2>1 DEF RepairAims, Shaped, OldBase
<1> QED
  BY <1>7, <1>8

\* A loan that is regular after a step was regular before it.
LEMMA RegularBack ==
  ASSUME Typed, terms' = terms, Multi => Len(periods') = Len(periods), edited' = edited \/ edited' = TRUE, Regular'
  PROVE  Regular /\ edited' = FALSE
<1>1. Expected' = Expected /\ Multi' = Multi
  BY DEF Expected, Multi
<1>2. Tiny' <=> Tiny
  BY <1>1 DEF Tiny, Multi
<1>3. edited \in BOOLEAN
  BY DEF Typed, TermsTyped
<1> QED
  BY <1>2, <1>3 DEF Regular

\* What a typed ledger is like.
LEMMA LedgerFacts ==
  ASSUME Typed
  PROVE  /\ TermsTyped /\ LedgerTyped /\ debt \in DebtRow /\ periods \in Seq(Record) /\ Len(periods) \in Nat
         /\ Len(periods) > 0 /\ DOMAIN periods = 1..Len(periods)
         /\ IsFiniteSet(payments) /\ payments \subseteq Paid(ops, Len(periods))
         /\ \A p \in payments : p.amount \in Nat
         /\ today \in Nat /\ ops \in Nat /\ debt.penaltyRate \in Nat
BY SeqRows DEF Typed, TermsTyped, LedgerTyped, Paid, DebtRow

-----------------------------------------------------------------------------
(* Single loans.                                                           *)

\* Rows of single loans have no penalty.
LEMMA SingleRow ==
  ASSUME NEW p \in Record, NEW day \in Int, PreSound(p, 0, day), NEW paid \in Nat
  PROVE  /\ p.penalty = 0 /\ Row(p, paid, 0, day).amount = p.amount /\ Row(p, paid, 0, day).paid = paid
         /\ Row(p, paid, 0, day).due = p.due /\ Row(p, paid, 0, day).base = p.base
<1>1. p.base \in Int /\ p.penalty = 0 /\ p.amount = p.base
  BY PercentZero DEF PreSound, Record
<1>2. Base(p) = p.base
  BY <1>1, BaseOf
<1>3. Penalty(p, paid, 0, day) = 0
  BY <1>1, <1>2, PercentZero DEF Penalty
<1> QED
  BY <1>1, <1>2, <1>3 DEF Row

\* The rows and the due date a reconciliation of a single loan leaves.
LEMMA SingleRows ==
  ASSUME TermsTyped, NEW d \in DebtRow, d.penaltyRate = 0, NEW ps \in Seq(Record), NEW pays, IsFiniteSet(pays),
         \A p \in pays : p.amount \in Nat, Reconcile(d, ps, pays), \A n \in DOMAIN ps : PreSound(ps[n], 0, today)
  PROVE  /\ Len(periods') = Len(ps) /\ DOMAIN periods' = DOMAIN ps
         /\ debt'.penaltyRate = 0 /\ debt'.due = d.due /\ payments' = pays
         /\ \A n \in DOMAIN ps : /\ periods'[n].amount = ps[n].amount /\ periods'[n].paid = PaidOn(n, pays)
                                 /\ periods'[n].due = ps[n].due
<1>1. /\ debt'.penaltyRate = d.penaltyRate /\ debt'.due = d.due /\ payments' = pays
      /\ Len(periods') = Len(ps) /\ DOMAIN periods' = DOMAIN ps
      /\ \A n \in DOMAIN ps : periods'[n] = Row(ps[n], PaidOn(n, pays), 0, today)
  BY ReconcileTyped
<1>2. today \in Int
  BY DEF TermsTyped
<1>3. ASSUME NEW n \in DOMAIN ps
      PROVE  /\ periods'[n].amount = ps[n].amount /\ periods'[n].paid = PaidOn(n, pays)
             /\ periods'[n].due = ps[n].due
  <2>1. ps[n] \in Record /\ PaidOn(n, pays) \in Nat
    BY SeqRows, PaidOnType
  <2>2. PreSound(ps[n], 0, today)
    OBVIOUS
  <2> QED
    BY <1>1, <1>2, <2>1, <2>2, SingleRow
<1> QED
  BY <1>1, <1>3

\* The rows of the moment of a single loan.
LEMMA SingleNow ==
  ASSUME Typed, RegularInv, Regular, ~Multi
  PROVE  /\ debt.penaltyRate = 0 /\ DebtNow \in DebtRow /\ DebtNow.penaltyRate = 0 /\ DebtNow.due = debt.due
         /\ debt.due = periods[Len(periods)].due
         /\ Principal(payments) \in 0..terms.principal /\ DebtNow.capital = terms.principal - Principal(payments)
         /\ ReconciledNow \in Seq(Record) /\ Len(ReconciledNow) = Len(periods) /\ DOMAIN ReconciledNow = DOMAIN periods
         /\ \A n \in DOMAIN periods :
              /\ ReconciledNow[n] \in Record /\ PreSound(ReconciledNow[n], 0, today)
              /\ ReconciledNow[n].amount = periods[n].amount /\ ReconciledNow[n].paid = periods[n].paid
              /\ ReconciledNow[n].due = periods[n].due /\ PaidOn(n, payments) = periods[n].paid
              /\ periods[n].amount \in Nat /\ periods[n].paid \in Nat /\ periods[n].paid <= periods[n].amount
              /\ PreSound(periods[n], 0, today)
              /\ periods[n].paid = 0 \/ periods[n].paid = periods[n].amount
              /\ n < Len(periods) => periods[n].paid = periods[n].amount
<1>1. /\ TermsTyped /\ LedgerTyped /\ periods \in Seq(Record) /\ IsFiniteSet(payments)
      /\ (\A p \in payments : p.amount \in Nat) /\ today \in Nat
  BY LedgerFacts
<1>2. /\ debt.penaltyRate = 0 /\ debt.due = periods[Len(periods)].due /\ Principal(payments) <= terms.principal
      /\ \A n \in DOMAIN periods : /\ periods[n].paid = 0 \/ periods[n].paid = periods[n].amount
                                   /\ n < Len(periods) => periods[n].paid = periods[n].amount
                                   /\ Sound(periods[n], 0, today)
  BY DEF RegularInv, SingleInv
<1>3. /\ ReconciledNow \in Seq(Record) /\ Len(ReconciledNow) = Len(periods) /\ DOMAIN ReconciledNow = DOMAIN periods
      /\ DebtNow \in DebtRow /\ DebtNow.penaltyRate = 0 /\ DebtNow.due = debt.due
  BY <1>1, <1>2, NowType
<1>4. Principal(payments) \in 0..terms.principal /\ DebtNow.capital = terms.principal - Principal(payments)
  <2>1. Principal(payments) \in Nat /\ terms.principal \in Nat
    BY <1>1, PrincipalType DEF TermsTyped
  <2>2. DebtNow.capital = Positive(terms.principal - Principal(payments))
    BY <1>1 DEF DebtNow, ReconciledDebt, LedgerTyped, DebtRow
  <2> QED
    BY <1>2, <2>1, <2>2 DEF Positive
<1>5. ASSUME NEW n \in DOMAIN periods
      PROVE  /\ ReconciledNow[n] \in Record /\ PreSound(ReconciledNow[n], 0, today)
             /\ ReconciledNow[n].amount = periods[n].amount /\ ReconciledNow[n].paid = periods[n].paid
             /\ ReconciledNow[n].due = periods[n].due /\ PaidOn(n, payments) = periods[n].paid
             /\ periods[n].amount \in Nat /\ periods[n].paid \in Nat /\ periods[n].paid <= periods[n].amount
             /\ PreSound(periods[n], 0, today)
  <2>1. /\ ReconciledNow[n] \in Record /\ ReconciledNow[n] = Row(periods[n], periods[n].paid, 0, today)
        /\ periods[n] \in Record
    BY <1>1, <1>2, NowType
  <2>2. PreSound(ReconciledNow[n], 0, today) /\ PreSound(periods[n], 0, today) /\ PaidOn(n, payments) = periods[n].paid
    BY <1>2, NowSound DEF Sound
  <2>3. periods[n].paid \in Nat /\ periods[n].amount \in Int /\ periods[n].paid <= periods[n].amount
    BY <1>2, <2>1 DEF Record, Sound
  <2>4. ReconciledNow[n].amount = periods[n].amount /\ ReconciledNow[n].paid = periods[n].paid
        /\ ReconciledNow[n].due = periods[n].due
    BY <1>1, <2>1, <2>2, <2>3, SingleRow
  <2> QED
    BY <2>1, <2>2, <2>3, <2>4
<1> QED
  BY <1>2, <1>3, <1>4, <1>5

\* Its open period can only be the last, of which nothing is paid.
LEMMA SingleOpen ==
  ASSUME Typed, RegularInv, Regular, ~Multi
  PROVE  LET n == Len(periods)
         IN /\ OpenPeriod(ReconciledNow) # {} =>
                 /\ Min(OpenPeriod(ReconciledNow)) = n /\ OpenPeriod(ReconciledNow) = {n} /\ periods[n].paid = 0
                 /\ InterestDue(ReconciledNow) = periods[n].amount
            /\ OpenPeriod(ReconciledNow) = {} => periods[n].paid = periods[n].amount
<1> DEFINE n == Len(periods)
           k == Min(OpenPeriod(ReconciledNow))
<1>1. n \in Nat /\ n > 0 /\ DOMAIN periods = 1..n
  BY LedgerFacts
<1>2. /\ ReconciledNow \in Seq(Record) /\ DOMAIN ReconciledNow = DOMAIN periods
      /\ \A m \in DOMAIN periods :
           /\ ReconciledNow[m].amount = periods[m].amount /\ ReconciledNow[m].paid = periods[m].paid
           /\ periods[m].amount \in Nat /\ periods[m].paid \in Nat /\ periods[m].paid <= periods[m].amount
           /\ periods[m].paid = 0 \/ periods[m].paid = periods[m].amount
           /\ m < n => periods[m].paid = periods[m].amount
  BY SingleNow
<1>3. ASSUME OpenPeriod(ReconciledNow) # {}
      PROVE  /\ k = n /\ OpenPeriod(ReconciledNow) = {n} /\ periods[n].paid = 0
             /\ InterestDue(ReconciledNow) = periods[n].amount
  <2>1. k \in DOMAIN periods /\ OpenPeriod(ReconciledNow) = {k} /\ ReconciledNow[k].paid < ReconciledNow[k].amount
    BY <1>2, <1>3, OpenOne
  <2>2. InterestDue(ReconciledNow) = ReconciledNow[k].amount - ReconciledNow[k].paid
    BY <1>3 DEF InterestDue
  <2> HIDE DEF k
  <2>3. k = n /\ periods[n].paid = 0
    BY <1>1, <1>2, <2>1
  <2> QED
    BY <1>2, <2>1, <2>2, <2>3
<1>4. ASSUME OpenPeriod(ReconciledNow) = {} PROVE periods[n].paid = periods[n].amount
  <2>1. n \in DOMAIN periods /\ n \notin OpenPeriod(ReconciledNow)
    BY <1>1, <1>4
  <2>2. \A m \in 1..(n - 1) : m \in DOMAIN periods /\ ReconciledNow[m].paid >= ReconciledNow[m].amount
    BY <1>1, <1>2
  <2>3. ~(ReconciledNow[n].paid < ReconciledNow[n].amount)
    BY <1>2, <2>1, <2>2 DEF OpenPeriod
  <2> QED
    BY <1>2, <2>1, <2>3
<1> QED
  BY <1>3, <1>4

\* What an operation on a single loan has to hand to the reconciliation.
LEMMA SingleStep ==
  ASSUME Typed, RegularInv, Regular, ~Multi, NEW d \in DebtRow, d.penaltyRate = 0,
         NEW ps \in Seq(Record), Len(ps) > 0, NEW pays, IsFiniteSet(pays), \A p \in pays : p.amount \in Nat,
         Reconcile(d, ps, pays), terms' = terms, today' = today, stage' = stage,
         \A n \in DOMAIN ps : /\ PreSound(ps[n], 0, today)
                              /\ PaidOn(n, pays) = ps[n].amount \/ (n = Len(ps) /\ PaidOn(n, pays) = 0 /\ ps[n].amount >= 0),
         d.due = ps[Len(ps)].due, Principal(pays) <= terms.principal
  PROVE  RegularInv'
<1>1. TermsTyped /\ today \in Nat /\ Len(ps) \in Nat /\ DOMAIN ps = 1..Len(ps) /\ Multi' = Multi
  BY SeqRows DEF Typed, TermsTyped, Multi
<1>2. \A n \in DOMAIN ps : /\ PreSound(ps[n], d.penaltyRate, today) /\ PaidOn(n, pays) <= ps[n].amount
  <2> TAKE n \in DOMAIN ps
  <2>1. ps[n].amount \in Int /\ PaidOn(n, pays) \in Nat
    BY RowFields, PaidOnType
  <2> QED
    BY <2>1
<1>3. (\A n \in DOMAIN periods' : Sound(periods'[n], debt'.penaltyRate, today')) /\ Fresh'
  BY <1>1, <1>2, RowsSound
<1>4. /\ Len(periods') = Len(ps) /\ DOMAIN periods' = DOMAIN ps
      /\ debt'.penaltyRate = 0 /\ debt'.due = d.due /\ payments' = pays
      /\ \A n \in DOMAIN ps : /\ periods'[n].amount = ps[n].amount /\ periods'[n].paid = PaidOn(n, pays)
                              /\ periods'[n].due = ps[n].due
  BY <1>1, SingleRows
<1>5. Len(ps) \in DOMAIN ps
  BY <1>1
<1>6. SingleInv'
  <2>1. \A n \in DOMAIN periods' : /\ periods'[n].paid = 0 \/ periods'[n].paid = periods'[n].amount
                                   /\ n < Len(periods') => periods'[n].paid = periods'[n].amount
    BY <1>4
  <2> QED
    BY <1>4, <1>5, <2>1 DEF SingleInv
<1>7. MultiInv'
  BY <1>1 DEF MultiInv
<1>8. \A c \in Clerks : stage'[c] = "idle"
  BY DEF RegularInv
<1> QED
  BY <1>3, <1>6, <1>7, <1>8 DEF RegularInv

\* The operations on single loans, one by one, keep the invariant.
LEMMA SingleAssess ==
  ASSUME Typed, RegularInv, Regular, ~Multi, Reconcile(debt, periods, payments), terms' = terms, today' = today, stage' = stage
  PROVE  RegularInv'
<1>1. /\ periods \in Seq(Record) /\ debt \in DebtRow /\ Len(periods) > 0 /\ IsFiniteSet(payments)
      /\ (\A p \in payments : p.amount \in Nat) /\ DOMAIN periods = 1..Len(periods) /\ Len(periods) \in Nat
  BY LedgerFacts
<1>2. ASSUME NEW n \in DOMAIN periods
      PROVE  /\ PreSound(periods[n], 0, today)
             /\ PaidOn(n, payments) = periods[n].amount \/ (n = Len(periods) /\ PaidOn(n, payments) = 0 /\ periods[n].amount >= 0)
  <2>1. /\ PreSound(periods[n], 0, today) /\ PaidOn(n, payments) = periods[n].paid /\ periods[n].amount \in Nat
        /\ periods[n].paid = 0 \/ periods[n].paid = periods[n].amount
        /\ n < Len(periods) => periods[n].paid = periods[n].amount
    BY SingleNow
  <2> QED
    BY <1>1, <2>1
<1>3. debt.penaltyRate = 0 /\ debt.due = periods[Len(periods)].due /\ Principal(payments) <= terms.principal
  BY DEF RegularInv, SingleInv
<1> QED
  BY <1>1, <1>2, <1>3, SingleStep

\* No payment is for a period that does not exist.
LEMMA NothingPaid ==
  ASSUME LedgerTyped, ops \in Nat, NEW n \in Int, n > Len(periods)
  PROVE  PaidOn(n, payments) = 0
<1>1. {p \in payments : p.number = n} = {}
  <2> SUFFICES ASSUME NEW p \in payments, p.number = n PROVE FALSE
    OBVIOUS
  <2>1. Len(periods) \in Nat /\ p.number \in 0..Len(periods)
    BY SeqRows DEF LedgerTyped, Paid
  <2> QED
    BY <2>1
<1> QED
  BY <1>1, SumOfNone DEF PaidOn

\* A new period is sound.
LEMMA PeriodSound ==
  ASSUME NEW x \in Nat, NEW due \in Int
  PROVE  /\ PreSound(Period(x, due), 0, today) /\ Period(x, due).amount = x /\ Period(x, due).due = due
BY DEF PreSound, Period

\* The payments of a settlement.
Settled(n, x, y) == payments \cup Some(Pay("interest", n, x)) \cup Some(Pay("principal", 0, y))

LEMMA SettlePayments ==
  ASSUME Typed, NEW n \in 0..Len(periods), NEW x \in Nat, NEW y \in Nat
  PROVE  /\ IsFiniteSet(Settled(n, x, y)) /\ (\A p \in Settled(n, x, y) : p.amount \in Nat)
         /\ Principal(Settled(n, x, y)) = Principal(payments) + y
         /\ \A m : PaidOn(m, Settled(n, x, y)) =
                   PaidOn(m, payments) + ((IF m = n THEN x ELSE 0) + (IF m = 0 THEN y ELSE 0))
         /\ \A p \in Settled(n, x, y) : \/ p \in payments
                                        \/ p.number = n /\ x > 0
                                        \/ p.number = 0 /\ p.kind = "principal"
<1> DEFINE N == Len(periods)
           pays == Settled(n, x, y)
           A == Some(Pay("interest", n, x))
           B == Some(Pay("principal", 0, y))
           R == A \cup B
<1>1. /\ LedgerTyped /\ IsFiniteSet(payments) /\ (\A p \in payments : p.amount \in Nat) /\ ops \in Nat /\ N \in Nat
  BY LedgerFacts
<1>2. /\ IsFiniteSet(A) /\ A \subseteq Paid(ops + 1, N) /\ (\A p \in A : p = Pay("interest", n, x) /\ p \notin payments /\ x > 0)
      /\ Principal(A) = 0 /\ \A m : PaidOn(m, A) = IF m = n THEN x ELSE 0
  <2>1. "interest" \in {"principal", "interest"} /\ "interest" # "principal"
    OBVIOUS
  <2>2. /\ IsFiniteSet(A) /\ A \subseteq Paid(ops + 1, N) /\ (\A p \in A : p = Pay("interest", n, x) /\ p \notin payments /\ x > 0)
        /\ Principal(A) = (IF "interest" = "principal" /\ n = 0 THEN x ELSE 0)
        /\ \A m : PaidOn(m, A) = IF m = n THEN x ELSE 0
    BY <1>1, <2>1, SomePay, Zenon
  <2> QED
    BY <2>1, <2>2
<1>3. /\ IsFiniteSet(B) /\ B \subseteq Paid(ops + 1, N) /\ (\A p \in B : p = Pay("principal", 0, y) /\ p \notin payments)
      /\ Principal(B) = y /\ \A m : PaidOn(m, B) = IF m = 0 THEN y ELSE 0
  BY <1>1, SomePay
<1>4. A \cap B = {}
  BY <1>2, <1>3 DEF Pay
<1>5. \A p \in R : \/ p.number = n /\ x > 0
                   \/ p.number = 0 /\ p.kind = "principal"
  BY <1>2, <1>3 DEF Pay
<1> HIDE DEF A, B
<1>6. \A p \in R : p.amount \in Nat
  BY <1>2, <1>3 DEF Paid
<1>7. IsFiniteSet(R) /\ Principal(R) = y /\ \A m : PaidOn(m, R) = PaidOn(m, A) + PaidOn(m, B)
  <2>1. /\ IsFiniteSet(R) /\ Principal(R) = Principal(A) + Principal(B)
        /\ \A m : PaidOn(m, R) = PaidOn(m, A) + PaidOn(m, B)
    BY <1>2, <1>3, <1>4, <1>6, PaymentsAdd
  <2> HIDE DEF R
  <2> QED
    BY <1>2, <1>3, <2>1
<1>8. pays = payments \cup R /\ payments \cap R = {}
  BY <1>2, <1>3 DEF A, B, Settled
<1> HIDE DEF R, pays
<1>9. /\ IsFiniteSet(payments \cup R) /\ Principal(payments \cup R) = Principal(payments) + Principal(R)
      /\ \A m : PaidOn(m, payments \cup R) = PaidOn(m, payments) + PaidOn(m, R)
  BY <1>1, <1>6, <1>7, <1>8, PaymentsAdd
<1>10. ASSUME NEW m
       PROVE  PaidOn(m, pays) = PaidOn(m, payments) + ((IF m = n THEN x ELSE 0) + (IF m = 0 THEN y ELSE 0))
  <2>1. PaidOn(m, A) = (IF m = n THEN x ELSE 0) /\ PaidOn(m, B) = IF m = 0 THEN y ELSE 0
    BY <1>2, <1>3
  <2>2. PaidOn(m, pays) = PaidOn(m, payments) + (PaidOn(m, A) + PaidOn(m, B))
    BY <1>7, <1>8, <1>9
  <2> QED
    BY <2>1, <2>2
<1> QED
  BY <1>1, <1>5, <1>6, <1>7, <1>8, <1>9, <1>10 DEF pays

LEMMA SingleSettle ==
  ASSUME Typed, RegularInv, Regular, ~Multi, Settle, terms' = terms, today' = today, stage' = stage
  PROVE  RegularInv'
<1> DEFINE n == IF OpenPeriod(ReconciledNow) = {} THEN 0 ELSE Min(OpenPeriod(ReconciledNow))
           x == InterestDue(ReconciledNow)
           y == DebtNow.capital
           pays == Settled(n, x, y)
           N == Len(periods)
<1>1. /\ TermsTyped /\ LedgerTyped /\ periods \in Seq(Record) /\ N \in Nat /\ N > 0 /\ DOMAIN periods = 1..N
      /\ IsFiniteSet(payments) /\ (\A p \in payments : p.amount \in Nat) /\ ops \in Nat
  BY LedgerFacts
<1>2. /\ DebtNow \in DebtRow /\ DebtNow.penaltyRate = 0 /\ DebtNow.due = periods[N].due
      /\ Principal(payments) \in Nat /\ y = terms.principal - Principal(payments) /\ y \in Nat /\ x \in Nat
      /\ terms.principal \in Nat
      /\ ReconciledNow \in Seq(Record) /\ Len(ReconciledNow) = N /\ DOMAIN ReconciledNow = DOMAIN periods
  BY <1>1, SingleNow, DueType DEF DebtRow, TermsTyped
<1>3. \A m \in DOMAIN periods :
              /\ PreSound(ReconciledNow[m], 0, today) /\ ReconciledNow[m].due = periods[m].due
              /\ ReconciledNow[m].amount = periods[m].amount /\ PaidOn(m, payments) = periods[m].paid
              /\ periods[m].amount \in Nat /\ periods[m].paid \in Nat
              /\ m < N => periods[m].paid = periods[m].amount
  BY SingleNow
<1>4. /\ n \in 0..N
      /\ n = 0 => periods[N].paid = periods[N].amount
      /\ n # 0 => n = N /\ periods[N].paid = 0 /\ x = periods[N].amount
  BY <1>1, SingleOpen
<1>5. Reconcile(DebtNow, ReconciledNow, pays)
  BY DEF Settle, Settled
<1> HIDE DEF n, x, y
<1>6. /\ IsFiniteSet(pays) /\ Principal(pays) = Principal(payments) + y
       /\ \A m : PaidOn(m, pays) = PaidOn(m, payments) + ((IF m = n THEN x ELSE 0) + (IF m = 0 THEN y ELSE 0))
       /\ \A p \in pays : p.amount \in Nat
  <2>1. n \in 0..Len(periods) /\ x \in Nat /\ y \in Nat
    BY <1>2, <1>4
  <2> QED
    BY <2>1, SettlePayments
<1> HIDE DEF pays
<1>7. ASSUME NEW m \in DOMAIN periods
       PROVE  /\ PreSound(ReconciledNow[m], 0, today) /\ PaidOn(m, pays) = ReconciledNow[m].amount
  <2>1. PaidOn(m, pays) = periods[m].paid + (IF m = n THEN x ELSE 0)
    <3>1. m # 0 /\ m \in Nat
      BY <1>1
    <3>2. PaidOn(m, pays) = periods[m].paid + ((IF m = n THEN x ELSE 0) + 0)
      BY <1>3, <1>6, <3>1
    <3> QED
      BY <1>2, <3>2
  <2>2. /\ PreSound(ReconciledNow[m], 0, today) /\ ReconciledNow[m].amount = periods[m].amount
        /\ periods[m].amount \in Nat /\ periods[m].paid \in Nat
        /\ m < N => periods[m].paid = periods[m].amount
    BY <1>3
  <2>3. CASE m = N
    <3>1. CASE n = 0
      BY <1>1, <1>4, <2>1, <2>2, <2>3, <3>1
    <3>2. CASE n # 0
      BY <1>1, <1>2, <1>4, <2>1, <2>2, <2>3, <3>2
    <3> QED
      BY <3>1, <3>2
  <2>4. CASE m # N
    <3>1. m < N /\ m # n
      BY <1>1, <1>4, <2>4
    <3> QED
      BY <2>1, <2>2, <3>1
  <2> QED
    BY <2>2, <2>3, <2>4
<1>8. Principal(pays) <= terms.principal /\ DebtNow.due = ReconciledNow[N].due
  <2>1. N \in DOMAIN periods
    BY <1>1
  <2> QED
    BY <1>2, <1>3, <1>6, <2>1
<1> QED
  BY <1>1, <1>2, <1>5, <1>6, <1>7, <1>8, SingleStep

\* One payment more.
Also(kind, k, x) == payments \cup {Pay(kind, k, x)}
LEMMA OnePayment ==
  ASSUME Typed, NEW kind \in {"principal", "interest"}, NEW k \in Nat, NEW x \in Nat \ {0}
  PROVE  /\ IsFiniteSet(Also(kind, k, x)) /\ \A p \in Also(kind, k, x) : p.amount \in Nat
         /\ Principal(Also(kind, k, x)) = Principal(payments) + (IF kind = "principal" /\ k = 0 THEN x ELSE 0)
         /\ \A m : PaidOn(m, Also(kind, k, x)) = PaidOn(m, payments) + (IF m = k THEN x ELSE 0)
         /\ \A m : PaidOn(m, payments) \in Nat
<1> DEFINE q == Pay(kind, k, x)
           R == {q}
<1>1. /\ LedgerTyped /\ IsFiniteSet(payments) /\ (\A p \in payments : p.amount \in Nat) /\ ops \in Nat
  BY LedgerFacts
<1>2. q.op = ops + 1 /\ q.kind = kind /\ q.number = k /\ q.amount = x
  BY DEF Pay
<1> HIDE DEF q
<1>3. q \notin payments
  BY <1>1, <1>2 DEF LedgerTyped, Paid
<1>4. Sum(R) = x
  BY <1>2, SumOfOne
<1>5. Principal(R) = IF kind = "principal" /\ k = 0 THEN x ELSE 0
  <2> DEFINE A == {p \in R : p.kind = "principal" /\ p.number = 0}
  <2>1. A = IF kind = "principal" /\ k = 0 THEN R ELSE {}
    BY <1>2
  <2>2. Principal(R) = Sum(A)
    BY DEF Principal
  <2> HIDE DEF A, R
  <2> QED
    BY <1>4, <2>1, <2>2, SumOfNone
<1>6. ASSUME NEW m PROVE PaidOn(m, R) = IF m = k THEN x ELSE 0
  <2> DEFINE A == {p \in R : p.number = m}
  <2>1. A = IF m = k THEN R ELSE {}
    BY <1>2
  <2>2. PaidOn(m, R) = Sum(A)
    BY DEF PaidOn
  <2> HIDE DEF A, R
  <2> QED
    BY <1>4, <2>1, <2>2, SumOfNone
<1>7. IsFiniteSet(R) /\ payments \cap R = {} /\ \A p \in payments \cup R : p.amount \in Nat
  BY <1>1, <1>2, <1>3, FS_Singleton
<1> HIDE DEF R
<1>8. /\ IsFiniteSet(payments \cup R) /\ Principal(payments \cup R) = Principal(payments) + Principal(R)
      /\ \A m : PaidOn(m, payments \cup R) = PaidOn(m, payments) + PaidOn(m, R)
  BY <1>1, <1>7, PaymentsAdd
<1>9. \A m : PaidOn(m, payments \cup R) = PaidOn(m, payments) + (IF m = k THEN x ELSE 0)
  BY <1>6, <1>8
<1>10. \A m : PaidOn(m, payments) \in Nat
  BY <1>1, PaidOnType
<1> QED
  BY <1>5, <1>7, <1>8, <1>9, <1>10 DEF R, q, Also

\* The rows of PayPrincipal.
NewInterest(p, x) == [p EXCEPT !.amount = x, !.base = x]
PrincipalRows(x) ==
  [n \in DOMAIN ReconciledNow |->
     IF n \in OpenPeriod(ReconciledNow) THEN NewInterest(ReconciledNow[n], x) ELSE ReconciledNow[n]]

\* An open period whose interest is computed anew is sound.
LEMMA NewInterestSound ==
  ASSUME NEW p \in Record, NEW x \in Nat, PreSound(p, 0, today), today \in Nat,
         NEW q, q = NewInterest(p, x)
  PROVE  q \in Record /\ PreSound(q, 0, today) /\ q.amount = x /\ q.due = p.due
<1>1. p.penalty = 0
  BY SingleRow
<1>2. q.amount = x /\ q.base = x
  BY DEF NewInterest, Record
<1>3. q.penalty = p.penalty /\ q.due = p.due
  BY DEF NewInterest, Record
<1>4. q \in Record
  <2>1. ASSUME NEW r \in Record, NEW b \in Int, NEW y \in Int PROVE [r EXCEPT !.amount = y, !.base = b] \in Record
    BY DEF Record
  <2>2. x \in Int
    OBVIOUS
  <2> QED
    BY <2>1, <2>2 DEF NewInterest
<1>5. PreSound(q, 0, today)
  BY <1>1, <1>2, <1>3 DEF PreSound
<1> QED
  BY <1>2, <1>3, <1>4, <1>5

\* The rows after capital has been repaid.
LEMMA PrincipalRowsSound ==
  ASSUME Typed, RegularInv, Regular, ~Multi, NEW x \in Nat
  PROVE  LET N == Len(periods)
             ps == PrincipalRows(x)
         IN /\ ps \in Seq(Record) /\ Len(ps) = N /\ N > 0 /\ DOMAIN ps = 1..N
            /\ ps[N].due = periods[N].due
            /\ \A n \in DOMAIN ps :
                 /\ PreSound(ps[n], 0, today)
                 /\ PaidOn(n, payments) = ps[n].amount \/ (n = N /\ PaidOn(n, payments) = 0 /\ ps[n].amount >= 0)
<1> DEFINE N == Len(periods)
           ps == PrincipalRows(x)
           open == OpenPeriod(ReconciledNow)
<1>1. N \in Nat /\ N > 0 /\ DOMAIN periods = 1..N /\ today \in Nat /\ DOMAIN ReconciledNow = 1..N
  BY LedgerFacts, SingleNow
<1>2. /\ open # {} => open = {N} /\ periods[N].paid = 0
      /\ open = {} => periods[N].paid = periods[N].amount
  BY SingleOpen
<1> HIDE DEF open, N
<1>3. ASSUME NEW n \in 1..N
      PROVE  /\ ps[n] \in Record /\ PreSound(ps[n], 0, today) /\ ps[n].due = periods[n].due
             /\ PaidOn(n, payments) = ps[n].amount \/ (n = N /\ PaidOn(n, payments) = 0 /\ ps[n].amount >= 0)
  <2>1. /\ ReconciledNow[n] \in Record /\ PreSound(ReconciledNow[n], 0, today) /\ ReconciledNow[n].due = periods[n].due
        /\ ReconciledNow[n].amount = periods[n].amount /\ PaidOn(n, payments) = periods[n].paid
        /\ periods[n].amount \in Nat /\ periods[n].paid \in Nat
        /\ n < N => periods[n].paid = periods[n].amount
    BY <1>1, SingleNow
  <2>2. CASE n \in open
    <3>1. ps[n] = NewInterest(ReconciledNow[n], x)
      BY <1>1, <2>2 DEF PrincipalRows, open
    <3>2. n = N /\ periods[n].paid = 0
      BY <1>2, <2>2
    <3> HIDE DEF ps
    <3>3. ps[n] \in Record /\ PreSound(ps[n], 0, today) /\ ps[n].amount = x /\ ps[n].due = ReconciledNow[n].due
      <4>1. ReconciledNow[n] \in Record /\ PreSound(ReconciledNow[n], 0, today) /\ x \in Nat /\ today \in Nat
        BY <1>1, <2>1
      <4> QED
        BY <3>1, <4>1, NewInterestSound
    <3> QED
      BY <2>1, <3>2, <3>3
  <2>3. CASE n \notin open
    <3>1. ps[n] = ReconciledNow[n]
      BY <1>1, <2>3 DEF PrincipalRows, open
    <3>2. n < N \/ n = N
      BY <1>1
    <3> HIDE DEF ps
    <3>3. n = N => open = {}
      BY <1>2, <2>3
    <3>4. periods[n].paid = periods[n].amount
      BY <1>2, <2>1, <3>2, <3>3
    <3> QED
      BY <2>1, <3>1, <3>4
  <2> QED
    BY <2>2, <2>3
<1>4. ps \in [1..N -> Record]
  <2>1. ps = [n \in 1..N |-> ps[n]]
    BY <1>1 DEF PrincipalRows
  <2> HIDE DEF ps
  <2> QED
    BY <1>3, <2>1
<1> HIDE DEF ps
<1>5. ps \in Seq(Record) /\ Len(ps) = N /\ DOMAIN ps = 1..N /\ N \in 1..N
  BY <1>1, <1>4, SeqOf
<1> QED
  BY <1>1, <1>3, <1>5 DEF ps, N

LEMMA SinglePrincipal ==
  ASSUME Typed, RegularInv, Regular, NEW a \in Amounts, PayPrincipal(a), terms' = terms, today' = today, stage' = stage
  PROVE  RegularInv'
<1> DEFINE y == Lesser(a, DebtNow.capital)
           x == Interest(DebtNow.capital - y)
           ps == PrincipalRows(x)
           pays == Also("principal", 0, y)
<1>1. ~Multi /\ y > 0 /\ Reconcile(DebtNow, ps, pays)
  BY DEF PayPrincipal, PrincipalRows, NewInterest, Also
<1>2. /\ DebtNow \in DebtRow /\ DebtNow.penaltyRate = 0 /\ DebtNow.due = debt.due /\ debt.due = periods[Len(periods)].due
      /\ Principal(payments) \in Nat /\ DebtNow.capital = terms.principal - Principal(payments) /\ DebtNow.capital \in Nat
      /\ terms.principal \in Nat
  <2>1. TermsTyped
    BY LedgerFacts
  <2> QED
    BY <1>1, <2>1, SingleNow DEF DebtRow, TermsTyped
<1>3. y \in Nat \ {0} /\ y <= DebtNow.capital
  <2>1. a \in Nat
    BY TermsAssumption
  <2> QED
    BY <1>1, <1>2, <2>1 DEF Lesser
<1>4. x \in Nat
  <2>1. TermsTyped
    BY LedgerFacts
  <2> HIDE DEF y
  <2>2. DebtNow.capital - y \in Nat
    BY <1>2, <1>3
  <2> QED
    BY <2>1, <2>2, InterestType
<1> HIDE DEF x, y
<1>5. /\ ps \in Seq(Record) /\ Len(ps) = Len(periods) /\ Len(ps) > 0 /\ DOMAIN ps = 1..Len(ps)
      /\ ps[Len(ps)].due = periods[Len(periods)].due
      /\ \A n \in DOMAIN ps :
           /\ PreSound(ps[n], 0, today)
           /\ PaidOn(n, payments) = ps[n].amount \/ (n = Len(ps) /\ PaidOn(n, payments) = 0 /\ ps[n].amount >= 0)
  BY <1>1, <1>4, PrincipalRowsSound
<1>6. Len(ps) \in Nat
  BY <1>5, SeqRows
<1> HIDE DEF ps
<1>7. /\ IsFiniteSet(pays) /\ (\A p \in pays : p.amount \in Nat) /\ Principal(pays) = Principal(payments) + y
      /\ \A m : PaidOn(m, pays) = PaidOn(m, payments) + (IF m = 0 THEN y ELSE 0)
      /\ \A m : PaidOn(m, payments) \in Nat
  BY <1>3, OnePayment
<1> HIDE DEF pays
<1>8. \A n \in DOMAIN ps :
           /\ PreSound(ps[n], 0, today)
           /\ PaidOn(n, pays) = ps[n].amount \/ (n = Len(ps) /\ PaidOn(n, pays) = 0 /\ ps[n].amount >= 0)
  <2> TAKE n \in DOMAIN ps
  <2>1. n # 0
    BY <1>5, <1>6
  <2>2. PaidOn(n, pays) = PaidOn(n, payments)
    BY <1>7, <2>1
  <2> QED
    BY <1>5, <2>2
<1>9. Principal(pays) <= terms.principal
  BY <1>2, <1>3, <1>7
<1>10. DebtNow.due = ps[Len(ps)].due
  BY <1>2, <1>5
<1> QED
  BY <1>1, <1>2, <1>5, <1>7, <1>8, <1>9, <1>10, SingleStep

\* The period that PayInterest pays is the last; all before it are paid.
LEMMA InterestLast ==
  ASSUME Typed, RegularInv, Regular, ~Multi
  PROVE  LET L == Len(InterestRows)
         IN /\ L \in Nat /\ L > 0 /\ L >= Len(periods) /\ InterestNumber = L
            /\ InterestRows[L].amount = InterestDue(ReconciledNow) /\ PreSound(InterestRows[L], 0, today)
            /\ PaidOn(L, payments) = 0
            /\ \A m \in 1..(L - 1) : /\ InterestRows[m].amount = PaidOn(m, payments)
                                     /\ PreSound(InterestRows[m], 0, today)
<1> DEFINE x == InterestDue(ReconciledNow)
           N == Len(periods)
           L == Len(InterestRows)
<1>1. /\ TermsTyped /\ LedgerTyped /\ N \in Nat /\ N > 0 /\ DOMAIN periods = 1..N /\ ops \in Nat
      /\ today \in Nat /\ debt.due \in Int
  BY LedgerFacts DEF DebtRow
<1>2. x \in Nat /\ ReconciledNow \in Seq(Record) /\ Len(ReconciledNow) = N
  BY <1>1, SingleNow, DueType
<1>3. /\ L \in Nat /\ \A n \in DOMAIN periods : InterestRows[n] = ReconciledNow[n]
      /\ OpenPeriod(ReconciledNow) = {} => L = N + 1
      /\ OpenPeriod(ReconciledNow) # {} => L = N
  BY <1>1, InterestRowsType
<1>4. \A m \in DOMAIN periods :
              /\ PreSound(ReconciledNow[m], 0, today)
              /\ ReconciledNow[m].amount = periods[m].amount /\ PaidOn(m, payments) = periods[m].paid
              /\ m < N => periods[m].paid = periods[m].amount
  BY SingleNow
<1>5. CASE OpenPeriod(ReconciledNow) = {}
  <2>1. L = N + 1 /\ InterestNumber = L /\ periods[N].paid = periods[N].amount
    BY <1>3, <1>5, SingleOpen DEF InterestNumber
  <2>2. InterestRows[L] = Period(x, debt.due)
    <3>1. InterestRows = Append(ReconciledNow, Period(x, debt.due))
      BY <1>5 DEF InterestRows
    <3>2. Period(x, debt.due) \in Record
      BY <1>1, <1>2, PeriodType
    <3> HIDE DEF x, L
    <3> QED
      BY <1>2, <2>1, <3>1, <3>2, AppendType
  <2> HIDE DEF x, L, N
  <2>3. PaidOn(L, payments) = 0
    <3>1. L \in Int /\ L > N
      BY <1>1, <2>1
    <3> QED
      BY <1>1, <3>1, NothingPaid DEF N
  <2>4. InterestRows[L].amount = x /\ PreSound(InterestRows[L], 0, today)
    BY <1>1, <1>2, <2>2, PeriodSound
  <2>5. ASSUME NEW m \in 1..(L - 1)
        PROVE  InterestRows[m].amount = PaidOn(m, payments) /\ PreSound(InterestRows[m], 0, today)
    <3>1. m \in 1..N /\ (m = N \/ m < N)
      BY <1>1, <2>1
    <3>2. m \in DOMAIN periods
      BY <1>1, <3>1
    <3> QED
      BY <1>3, <1>4, <2>1, <3>1, <3>2
  <2>6. L > 0 /\ L >= N
    BY <1>1, <2>1
  <2> QED
    BY <1>3, <2>1, <2>3, <2>4, <2>5, <2>6 DEF x, L, N
<1>6. CASE OpenPeriod(ReconciledNow) # {}
  <2>1. L = N /\ InterestNumber = L /\ periods[N].paid = 0 /\ x = periods[N].amount
    BY <1>3, <1>6, SingleOpen DEF InterestNumber
  <2> HIDE DEF x, L, N
  <2>2. L \in DOMAIN periods /\ L > 0 /\ L >= N
    BY <1>1, <2>1
  <2>3. InterestRows[L].amount = x /\ PreSound(InterestRows[L], 0, today) /\ PaidOn(L, payments) = 0
    BY <1>3, <1>4, <2>1, <2>2
  <2>4. ASSUME NEW m \in 1..(L - 1)
        PROVE  InterestRows[m].amount = PaidOn(m, payments) /\ PreSound(InterestRows[m], 0, today)
    <3>1. m \in 1..N /\ m < N
      BY <1>1, <2>1
    <3>2. m \in DOMAIN periods
      BY <1>1, <3>1
    <3> QED
      BY <1>3, <1>4, <3>1, <3>2
  <2> QED
    BY <1>3, <2>1, <2>2, <2>3, <2>4 DEF x, L, N
<1> QED
  BY <1>5, <1>6

LEMMA SingleInterest ==
  ASSUME Typed, RegularInv, Regular, PayInterest, terms' = terms, today' = today, stage' = stage
  PROVE  RegularInv'
<1> DEFINE x == InterestDue(ReconciledNow)
           L == Len(InterestRows)
           next == InterestRows[InterestNumber].due + 1
           d == [DebtNow EXCEPT !.due = next]
           row == Period(Interest(DebtNow.capital), next)
           ps == Append(InterestRows, row)
           pays == Also("interest", InterestNumber, x)
<1>1. ~Multi /\ x > 0 /\ Reconcile(d, ps, pays)
  BY DEF PayInterest, InterestRows, InterestNumber, Also
<1>2. TermsTyped /\ LedgerTyped /\ ops \in Nat /\ Len(periods) \in Nat
  BY LedgerFacts
<1>3. /\ DebtNow \in DebtRow /\ DebtNow.penaltyRate = 0 /\ DebtNow.capital \in Nat
      /\ Principal(payments) \in Int /\ Principal(payments) <= terms.principal /\ x \in Nat \ {0}
  <2>1. x \in Nat
    BY <1>2, DueType
  <2> HIDE DEF x
  <2> QED
    BY <1>1, <2>1, SingleNow DEF DebtRow
<1>4. InterestRows \in Seq(Record) /\ InterestRows[InterestNumber] \in Record
  BY <1>2, InterestRowsType
<1>5. /\ L \in Nat /\ L > 0 /\ L >= Len(periods) /\ InterestNumber = L
      /\ InterestRows[L].amount = x /\ PreSound(InterestRows[L], 0, today) /\ PaidOn(L, payments) = 0
      /\ \A m \in 1..(L - 1) : /\ InterestRows[m].amount = PaidOn(m, payments)
                               /\ PreSound(InterestRows[m], 0, today)
  BY <1>1, InterestLast
<1>6. next \in Int /\ Interest(DebtNow.capital) \in Nat
  <2>1. next \in Int
    BY <1>4 DEF Record
  <2> QED
    BY <1>2, <1>3, <2>1, InterestType
<1> HIDE DEF x, next
<1>7. d \in DebtRow /\ d.penaltyRate = 0 /\ d.due = next
  <2>1. ASSUME NEW e \in DebtRow PROVE [e EXCEPT !.due = next] \in DebtRow /\ [e EXCEPT !.due = next].due = next
                                       /\ [e EXCEPT !.due = next].penaltyRate = e.penaltyRate
    BY <1>6 DEF DebtRow
  <2> QED
    BY <1>3, <2>1
<1>8. row \in Record /\ PreSound(row, 0, today) /\ row.amount \in Nat /\ row.due = next
  BY <1>6, PeriodType, PeriodSound
<1> HIDE DEF row, d
<1>9. /\ ps \in Seq(Record) /\ Len(ps) = L + 1 /\ ps[L + 1] = row /\ DOMAIN ps = 1..(L + 1)
      /\ \A m \in 1..L : ps[m] = InterestRows[m]
  <2>1. DOMAIN InterestRows = 1..L
    BY <1>4
  <2>2. /\ ps \in Seq(Record) /\ Len(ps) = L + 1 /\ ps[L + 1] = row
        /\ \A m \in DOMAIN InterestRows : ps[m] = InterestRows[m]
    BY <1>4, <1>8, AppendType
  <2> HIDE DEF ps
  <2> QED
    BY <2>1, <2>2, SeqRows
<1> HIDE DEF ps, L
<1>10. /\ IsFiniteSet(pays) /\ (\A p \in pays : p.amount \in Nat)
       /\ Principal(pays) = Principal(payments)
       /\ \A m : PaidOn(m, pays) = PaidOn(m, payments) + (IF m = L THEN x ELSE 0)
       /\ \A m : PaidOn(m, payments) \in Nat
  <2>1. pays = Also("interest", L, x) /\ "interest" \in {"principal", "interest"}
    BY <1>5
  <2> HIDE DEF pays
  <2>2. /\ IsFiniteSet(pays) /\ (\A p \in pays : p.amount \in Nat)
        /\ Principal(pays) = Principal(payments) + (IF "interest" = "principal" /\ L = 0 THEN x ELSE 0)
        /\ \A m : PaidOn(m, pays) = PaidOn(m, payments) + (IF m = L THEN x ELSE 0)
        /\ \A m : PaidOn(m, payments) \in Nat
    <3>1. x \in Nat \ {0} /\ L \in Nat
      BY <1>3, <1>5
    <3> QED
      BY <2>1, <3>1, OnePayment
  <2>3. Principal(pays) = Principal(payments) + 0
    BY <2>2
  <2> QED
    BY <1>3, <2>2, <2>3
<1> HIDE DEF pays
<1>11. ASSUME NEW m \in DOMAIN ps
       PROVE  /\ PreSound(ps[m], 0, today)
              /\ PaidOn(m, pays) = ps[m].amount \/ (m = Len(ps) /\ PaidOn(m, pays) = 0 /\ ps[m].amount >= 0)
  <2>1. CASE m = L + 1
    <3>1. ps[m] = row /\ m \in Int /\ m > Len(periods) /\ m # L
      BY <1>2, <1>5, <1>9, <2>1
    <3>2. PaidOn(m, payments) = 0
      BY <1>2, <3>1, NothingPaid
    <3>3. PaidOn(m, pays) = 0
      BY <1>10, <3>1, <3>2
    <3> QED
      BY <1>8, <1>9, <2>1, <3>1, <3>3
  <2>2. CASE m = L
    <3>1. ps[m] = InterestRows[L]
      BY <1>5, <1>9, <2>2
    <3>2. PaidOn(m, pays) = x
      BY <1>3, <1>5, <1>10, <2>2
    <3> QED
      BY <1>5, <3>1, <3>2
  <2>3. CASE m \in 1..(L - 1)
    <3>1. m \in 1..L /\ m # L
      BY <1>5, <2>3
    <3>2. PaidOn(m, pays) = PaidOn(m, payments) + 0 /\ PaidOn(m, payments) \in Nat /\ ps[m] = InterestRows[m]
      BY <1>9, <1>10, <3>1
    <3> QED
      BY <1>5, <2>3, <3>2
  <2> QED
    BY <1>5, <1>9, <2>1, <2>2, <2>3
<1>12. d.due = ps[Len(ps)].due /\ Len(ps) > 0 /\ Principal(pays) <= terms.principal
  BY <1>3, <1>5, <1>7, <1>8, <1>9, <1>10
<1> QED
  BY <1>1, <1>7, <1>9, <1>10, <1>11, <1>12, SingleStep

\* What is left when the payments of one number are reversed.
LEMMA PaymentsLeft ==
  ASSUME LedgerTyped, NEW n
  PROVE  LET left == {p \in payments : p.number # n}
         IN /\ IsFiniteSet(left) /\ \A p \in left : p.amount \in Nat
            /\ \A m : PaidOn(m, left) = IF m = n THEN 0 ELSE PaidOn(m, payments)
            /\ n # 0 => Principal(left) = Principal(payments)
<1> DEFINE left == {p \in payments : p.number # n}
<1>1. IsFiniteSet(payments) /\ (\A p \in payments : p.amount \in Nat) /\ left \subseteq payments
  BY DEF LedgerTyped, Paid
<1>2. IsFiniteSet(left)
  BY <1>1, FS_Subset
<1>3. ASSUME NEW m PROVE PaidOn(m, left) = IF m = n THEN 0 ELSE PaidOn(m, payments)
  <2>1. {p \in left : p.number = m} = IF m = n THEN {} ELSE {p \in payments : p.number = m}
    OBVIOUS
  <2> QED
    BY <2>1, SumOfNone DEF PaidOn
<1>4. ASSUME n # 0 PROVE Principal(left) = Principal(payments)
  <2>1. {p \in left : p.kind = "principal" /\ p.number = 0} = {p \in payments : p.kind = "principal" /\ p.number = 0}
    BY <1>4
  <2> HIDE DEF left
  <2> QED
    BY <2>1 DEF Principal
<1> QED
  BY <1>1, <1>2, <1>3, <1>4

LEMMA SingleRevert ==
  ASSUME Typed, RegularInv, Regular, ~Multi, NEW n \in DOMAIN periods, RevertInstallment(n),
         terms' = terms, today' = today, stage' = stage
  PROVE  RegularInv'
<1> DEFINE left == {p \in payments : p.number # n}
           d == [debt EXCEPT !.due = periods[n].due]
           ps == SubSeq(periods, 1, n)
           N == Len(periods)
<1>1. Reconcile(d, ps, left)
  BY DEF RevertInstallment
<1>2. /\ LedgerTyped /\ debt \in DebtRow /\ periods \in Seq(Record) /\ N \in Nat /\ DOMAIN periods = 1..N
      /\ debt.penaltyRate = 0 /\ Principal(payments) <= terms.principal
  BY LedgerFacts DEF RegularInv, SingleInv
<1>3. /\ IsFiniteSet(left) /\ (\A p \in left : p.amount \in Nat)
      /\ \A m : PaidOn(m, left) = IF m = n THEN 0 ELSE PaidOn(m, payments)
      /\ Principal(left) = Principal(payments)
  <2>1. n # 0
    BY <1>2
  <2> QED
    BY <1>2, <2>1, PaymentsLeft
<1>4. d \in DebtRow /\ d.penaltyRate = 0 /\ d.due = periods[n].due
  <2>1. periods[n].due \in Int
    BY <1>2, RowFields
  <2> QED
    BY <1>2, <2>1 DEF DebtRow
<1>5. /\ ps \in Seq(Record) /\ Len(ps) = n /\ DOMAIN ps = 1..n /\ \A m \in 1..n : ps[m] = periods[m] /\ m \in DOMAIN periods
  BY <1>2, FirstRows
<1>6. n \in Nat /\ n > 0 /\ n \in 1..n /\ n <= N
  BY <1>2
<1> HIDE DEF left, d, ps
<1>7. ASSUME NEW m \in DOMAIN ps
      PROVE  /\ PreSound(ps[m], 0, today)
             /\ PaidOn(m, left) = ps[m].amount \/ (m = Len(ps) /\ PaidOn(m, left) = 0 /\ ps[m].amount >= 0)
  <2>1. ps[m] = periods[m] /\ m \in DOMAIN periods /\ m \in 1..n
    BY <1>5
  <2>2. /\ PreSound(periods[m], 0, today) /\ PaidOn(m, payments) = periods[m].paid /\ periods[m].amount \in Nat
        /\ m < N => periods[m].paid = periods[m].amount
    BY <2>1, SingleNow
  <2>3. CASE m = n
    BY <1>3, <1>5, <2>1, <2>2, <2>3
  <2>4. CASE m # n
    <3>1. m < N
      BY <1>2, <1>6, <2>1, <2>4
    <3> QED
      BY <1>3, <2>1, <2>2, <2>4, <3>1
  <2> QED
    BY <2>3, <2>4
<1> QED
  BY <1>1, <1>2, <1>3, <1>4, <1>5, <1>6, <1>7, SingleStep

-----------------------------------------------------------------------------
(* Loans in equal periods.                                                 *)

\* A reconciliation of sound rows of a regular loan in equal periods keeps the invariant.
LEMMA MultiStep ==
  ASSUME Typed, RegularInv, Regular, Multi, NEW d \in DebtRow, d.penaltyRate = debt.penaltyRate,
         NEW ps \in Seq(Record), Len(ps) = Len(periods), NEW pays, IsFiniteSet(pays), \A p \in pays : p.amount \in Nat,
         Reconcile(d, ps, pays), terms' = terms, today' = today, stage' = stage, repair' = repair,
         \A n \in DOMAIN periods : /\ PreSound(ps[n], debt.penaltyRate, today) /\ PaidOn(n, pays) <= ps[n].amount
                                   /\ ps[n].base = periods[n].base
  PROVE  RegularInv'
<1>1. /\ TermsTyped /\ Multi' = Multi /\ periods \in Seq(Record) /\ DOMAIN ps = DOMAIN periods
      /\ Shape /\ RepairAims
  <2>1. TermsTyped /\ periods \in Seq(Record) /\ DOMAIN periods = 1..Len(periods) /\ DOMAIN ps = 1..Len(ps)
    BY LedgerFacts, SeqRows
  <2> QED
    BY <2>1 DEF RegularInv, MultiInv, Multi
<1>2. (\A n \in DOMAIN periods' : Sound(periods'[n], debt'.penaltyRate, today')) /\ Fresh'
  BY <1>1, RowsSound
<1>3. \A n \in DOMAIN periods : Base(ps[n]) = periods[n].base
  <2> TAKE n \in DOMAIN periods
  <2>1. ps[n] \in Record /\ ps[n].amount = ps[n].base + ps[n].penalty
    BY <1>1, SeqRows DEF PreSound
  <2> QED
    BY <2>1, BaseOf
<1>4. Shape' /\ RepairAims'
  BY <1>1, <1>3, ShapeKept
<1>5. \A c \in Clerks : stage'[c] = "idle"
  BY DEF RegularInv
<1> QED
  BY <1>1, <1>2, <1>4, <1>5 DEF RegularInv, MultiInv, SingleInv

\* The operations on loans in equal periods, one by one, keep the invariant.
LEMMA MultiAssess ==
  ASSUME Typed, RegularInv, Regular, Multi, Reconcile(debt, periods, payments),
         terms' = terms, today' = today, stage' = stage, repair' = repair
  PROVE  RegularInv'
<1>1. /\ periods \in Seq(Record) /\ debt \in DebtRow /\ IsFiniteSet(payments) /\ \A p \in payments : p.amount \in Nat
  BY LedgerFacts
<1>2. \A n \in DOMAIN periods : PreSound(periods[n], debt.penaltyRate, today) /\ PaidOn(n, payments) <= periods[n].amount
  BY NowSound
<1> QED
  BY <1>1, <1>2, MultiStep

LEMMA MultiRevert ==
  ASSUME Typed, RegularInv, Regular, Multi, NEW n \in DOMAIN periods, RevertInstallment(n),
         terms' = terms, today' = today, stage' = stage, repair' = repair
  PROVE  RegularInv'
<1> DEFINE left == {p \in payments : p.number # n}
<1>1. /\ periods \in Seq(Record) /\ debt \in DebtRow /\ LedgerTyped
  BY LedgerFacts
<1>2. Reconcile(debt, periods, left)
  BY DEF RevertInstallment
<1>3. /\ IsFiniteSet(left) /\ (\A p \in left : p.amount \in Nat)
      /\ \A m : PaidOn(m, left) = IF m = n THEN 0 ELSE PaidOn(m, payments)
  BY <1>1, PaymentsLeft
<1> HIDE DEF left
<1>4. ASSUME NEW m \in DOMAIN periods
      PROVE  PreSound(periods[m], debt.penaltyRate, today) /\ PaidOn(m, left) <= periods[m].amount
  <2>1. PreSound(periods[m], debt.penaltyRate, today) /\ PaidOn(m, payments) <= periods[m].amount
        /\ PaidOn(m, payments) = periods[m].paid
    BY NowSound
  <2>2. periods[m].paid \in Nat /\ periods[m].amount \in Int
    BY <1>1, RowFields
  <2> QED
    BY <1>3, <2>1, <2>2
<1> QED
  BY <1>1, <1>2, <1>3, <1>4, MultiStep

LEMMA MultiPay ==
  ASSUME Typed, RegularInv, Regular, NEW a \in Amounts, NEW chosen \in SUBSET DOMAIN periods, PayBalance(a, chosen),
         terms' = terms, today' = today, stage' = stage, repair' = repair
  PROVE  RegularInv'
<1> DEFINE pays == payments \cup Shares(a, chosen)
<1>1. /\ TermsTyped /\ LedgerTyped /\ IsFiniteSet(payments) /\ (\A p \in payments : p.amount \in Nat) /\ a \in Int
  BY LedgerFacts, TermsAssumption
<1>2. Multi /\ Reconcile(DebtNow, ReconciledNow, pays)
  BY DEF PayBalance, Shares
<1>3. /\ ReconciledNow \in Seq(Record) /\ Len(ReconciledNow) = Len(periods) /\ DebtNow \in DebtRow
      /\ DebtNow.penaltyRate = debt.penaltyRate
      /\ \A n \in DOMAIN periods : ReconciledNow[n].base = periods[n].base /\ ReconciledNow[n] \in Record
  BY <1>1, NowType
<1>4. /\ IsFiniteSet(Shares(a, chosen)) /\ Shares(a, chosen) \subseteq Paid(ops + 1, Len(periods))
      /\ \A p \in Shares(a, chosen) : p \notin payments
      /\ \A n \in DOMAIN periods : PaidOn(n, Shares(a, chosen)) \in 0..Open(ReconciledNow[n])
  BY <1>1, SharesType
<1>5. /\ IsFiniteSet(pays) /\ (\A p \in pays : p.amount \in Nat)
      /\ \A m : PaidOn(m, pays) = PaidOn(m, payments) + PaidOn(m, Shares(a, chosen))
  <2>1. payments \cap Shares(a, chosen) = {} /\ \A p \in pays : p.amount \in Nat
    BY <1>1, <1>4 DEF Paid
  <2> QED
    BY <1>1, <1>4, <2>1, PaymentsAdd
<1> HIDE DEF pays
<1>6. ASSUME NEW n \in DOMAIN periods
      PROVE  PreSound(ReconciledNow[n], debt.penaltyRate, today) /\ PaidOn(n, pays) <= ReconciledNow[n].amount
  <2>1. /\ Sound(ReconciledNow[n], debt.penaltyRate, today) /\ ReconciledNow[n].paid = periods[n].paid
        /\ PaidOn(n, payments) = periods[n].paid
    BY NowSound
  <2>2. PreSound(ReconciledNow[n], debt.penaltyRate, today) /\ ReconciledNow[n].paid <= ReconciledNow[n].amount
    BY <2>1 DEF Sound
  <2>3. ReconciledNow[n].paid \in Nat /\ ReconciledNow[n].amount \in Int
    BY <1>3 DEF Record
  <2>4. PaidOn(n, Shares(a, chosen)) \in 0..(ReconciledNow[n].amount - ReconciledNow[n].paid)
    BY <1>4, <2>2, <2>3 DEF Open, Positive
  <2> QED
    BY <1>5, <2>1, <2>2, <2>3, <2>4
<1> QED
  BY <1>2, <1>3, <1>5, <1>6, MultiStep

-----------------------------------------------------------------------------
(* Shares of a total.                                                      *)

\* If the last share takes the rest, the shares add up.
LEMMA LastTakesSum ==
  ASSUME NEW total \in Int, NEW n \in Nat \ {0}, NEW b \in Int
  PROVE  Total(LastTakes(total, n, b)) = total
<1> DEFINE f == LastTakes(total, n, b)
           m == n - 1
<1>1. m \in Nat /\ n = m + 1 /\ DOMAIN f = 1..n
  BY DEF LastTakes
<1>2. (\A i \in 1..m : f[i] = b) /\ f[n] = total - b * m
  BY DEF LastTakes
<1>3. Total(f) = SumFunctionOnSet(f, 1..n)
  BY <1>1 DEF Total, SumFunction
<1> HIDE DEF f, m
<1>4. b * m \in Int
  BY <1>1
<1>5. \A i \in 1..(m + 1) : f[i] \in Int
  <2> TAKE i \in 1..(m + 1)
  <2>1. i \in 1..m \/ i = n
    BY <1>1
  <2> QED
    BY <1>2, <1>4, <2>1
<1>6. SumFunctionOnSet(f, 1..m) = b * m
  BY <1>1, <1>2, SumEqual
<1>7. SumFunctionOnSet(f, 1..(m + 1)) = SumFunctionOnSet(f, 1..m) + f[m + 1]
  BY <1>1, <1>5, SumStep
<1>8. SumFunctionOnSet(f, 1..n) = b * m + (total - b * m)
  BY <1>1, <1>2, <1>6, <1>7
<1> QED
  BY <1>3, <1>4, <1>8 DEF f

\* What a share of a new loan is.
LEMMA BaseType ==
  ASSUME NEW total \in Nat, NEW n \in Nat \ {0}
  PROVE  /\ EqualBase(total, n) \in Nat /\ Rounded(total, n) \in Nat
         /\ EqualPeriodAmounts(total, n) = LastTakes(total, n, EqualBase(total, n))
         /\ EqualBase(total, n) # Rounded(total, n) => EqualBase(total, n) > 0 /\ EqualBase(total, n) * n <= total
         /\ total < n * Unit => EqualBase(total, n) = Rounded(total, n)
         /\ total >= n * Unit => EqualBase(total, n) > 0 /\ EqualBase(total, n) * n <= total
<1> DEFINE u == n * Unit
           k == total \div u
           whole == k * Unit
<1>0. Unit \in Nat /\ Unit > 0
  BY UnitAssumption
<1>1. u \in Nat /\ u > 0 /\ Rounded(total, n) \in Nat
  BY <1>0, RoundedNat
<1>2. EqualPeriodAmounts(total, n) = LastTakes(total, n, EqualBase(total, n))
  BY DEF EqualPeriodAmounts, EqualBase, LastTakes
<1>3. EqualBase(total, n) = IF whole > 0 THEN whole ELSE Rounded(total, n)
  BY DEF EqualBase
<1>4. k \in Nat /\ u * k <= total /\ total < u * k + u
  <2> HIDE DEF u
  <2>1. k \in Int /\ u * k <= total /\ total < u * k + u
    BY <1>1, DivLow, DivHigh
  <2>2. k >= 0
    BY <1>1
  <2> QED
    BY <2>1, <2>2
<1> HIDE DEF k
<1>5. whole \in Nat /\ whole * n <= total
  <2>1. whole * n = u * k
    BY <1>0, <1>4
  <2> QED
    BY <1>0, <1>4, <2>1
<1>6. total < u => k = 0
  <2> SUFFICES ASSUME total < u, k >= 1 PROVE FALSE
    BY <1>4
  <2> HIDE DEF u
  <2>1. u * k >= u
    BY <1>1, <1>4
  <2>2. u * k \in Int
    BY <1>1, <1>4
  <2> QED
    BY <1>1, <1>4, <2>1, <2>2
<1>7. total < u => whole = 0
  BY <1>0, <1>6
<1>8. total >= u => k >= 1
  <2> SUFFICES ASSUME total >= u, k = 0 PROVE FALSE
    BY <1>4
  <2> HIDE DEF u
  <2> QED
    BY <1>1, <1>4
<1>9. total >= u => whole > 0
  BY <1>0, <1>4, <1>8
<1> HIDE DEF whole, u
<1> QED
  BY <1>1, <1>2, <1>3, <1>5, <1>7, <1>9 DEF u

\* The last share is not below zero.
LEMMA LastShare ==
  ASSUME TermsTyped, Multi, ~Tiny, NEW N, N = Len(periods), N \in Nat \ {0}
  PROVE  /\ Expected \in Nat
         /\ Expected - EqualBase(Expected, N) * (N - 1) > 0
         /\ terms.rounding = "cents" => Expected - OldBase(N) * (N - 1) > 0
<1> DEFINE E == Expected
           R == Rounded(E, N)
           B == EqualBase(E, N)
<1>1. E \in Nat
  BY ExpectedType
<1>2. /\ B \in Nat /\ R \in Nat /\ (B # R => B > 0 /\ B * N <= E) /\ (E < N * Unit => B = R)
      /\ (E >= N * Unit => B > 0 /\ B * N <= E)
  BY <1>1, BaseType
<1>3. ~(R * (N - 1) >= E) \/ ~(terms.rounding = "whole" => E < N * Unit)
  BY DEF Tiny
<1>4. terms.rounding = "cents" => ~(R * (N - 1) >= E)
  BY <1>3
<1>5. N * Unit \in Nat
  BY UnitAssumption
<1>6. E >= N * Unit \/ ~(R * (N - 1) >= E)
  BY <1>1, <1>3, <1>5
<1> HIDE DEF E, R, B
<1>7. R * (N - 1) \in Int /\ B * (N - 1) \in Int /\ B * N = B * (N - 1) + B
  BY <1>2
<1>8. CASE B > 0 /\ B * N <= E
  <2>1. E - B * (N - 1) > 0
    BY <1>1, <1>2, <1>7, <1>8
  <2> QED
    BY <1>1, <1>4, <1>7, <2>1 DEF E, B, R, OldBase
<1>9. CASE ~(B > 0 /\ B * N <= E)
  <2>1. B = R /\ ~(R * (N - 1) >= E)
    BY <1>2, <1>6, <1>9
  <2>2. E - B * (N - 1) > 0
    BY <1>1, <1>7, <2>1
  <2> QED
    BY <1>1, <1>4, <1>7, <2>2 DEF E, B, R, OldBase
<1> QED
  BY <1>8, <1>9

\* The bases of a schedule whose last share takes the rest add up.
LEMMA ShapedTotal ==
  ASSUME TermsTyped, NEW n \in Nat \ {0}, NEW bases, Shaped(bases, n)
  PROVE  Total(bases) = Expected /\ Expected \in Nat
<1>1. Expected \in Nat
  BY ExpectedType
<1>2. EqualBase(Expected, n) \in Int /\ OldBase(n) \in Int
  BY <1>1, BaseType DEF OldBase
<1>3. CASE bases = LastTakes(Expected, n, EqualBase(Expected, n))
  BY <1>1, <1>2, <1>3, LastTakesSum
<1>4. CASE bases = LastTakes(Expected, n, OldBase(n))
  BY <1>1, <1>2, <1>4, LastTakesSum
<1> QED
  BY <1>1, <1>3, <1>4 DEF Shaped

\* The bases of an old loan that was never repaired.
LEMMA OldTotal ==
  ASSUME TermsTyped, LedgerTyped, \A n \in DOMAIN periods : periods[n].base = OldBase(Len(periods))
  PROVE  Total(Bases(periods)) = OldBase(Len(periods)) * Len(periods) /\ OldBase(Len(periods)) \in Nat
<1> DEFINE N == Len(periods)
           b == OldBase(N)
           f == Bases(periods)
<1>1. N \in Nat \ {0} /\ DOMAIN periods = 1..N /\ periods \in Seq(Record)
  BY SeqRows DEF LedgerTyped
<1>2. b \in Nat
  BY <1>1, ExpectedType, BaseType DEF OldBase
<1>3. \A i \in 1..N : f[i] = b
  <2> TAKE i \in 1..N
  <2>1. periods[i] \in Record /\ periods[i].amount = periods[i].base + periods[i].penalty
    BY <1>1, SeqRows DEF LedgerTyped
  <2> QED
    BY <1>1, <2>1, BaseOf DEF Bases
<1>4. Total(f) = SumFunctionOnSet(f, 1..N)
  BY <1>1 DEF Total, SumFunction, Bases
<1> HIDE DEF f, b
<1>5. SumFunctionOnSet(f, 1..N) = b * N
  BY <1>1, <1>2, <1>3, SumEqual
<1> QED
  BY <1>2, <1>4, <1>5 DEF f, b

-----------------------------------------------------------------------------
(* The rounding repair.                                                    *)

\* What a repair aims at: the shares of a new loan, or the old ones with the rest on the last.
LEMMA RepairTarget ==
  ASSUME Typed, RegularInv, Regular, Multi, Repaired(periods) # Bases(periods)
  PROVE  LET N == Len(periods)
             T == Repaired(periods)
         IN \/ T = LastTakes(Expected, N, EqualBase(Expected, N))
            \/ /\ terms.rounding = "cents" /\ T = LastTakes(Expected, N, OldBase(N))
               /\ \A n \in DOMAIN periods : periods[n].base = OldBase(N)
<1> DEFINE N == Len(periods)
           T == Repaired(periods)
           B == Bases(periods)
           G == Gap(periods)
           b == OldBase(N)
<1>1. /\ TermsTyped /\ LedgerTyped /\ periods \in Seq(Record) /\ N \in Nat \ {0} /\ DOMAIN periods = 1..N
  BY LedgerFacts
<1>2. Expected \in Nat
  BY <1>1, ExpectedType
<1>3. \A n \in 1..N : B[n] = periods[n].base /\ B[n] \in Int
  <2> TAKE n \in 1..N
  <2>1. periods[n] \in Record /\ periods[n].amount = periods[n].base + periods[n].penalty
    BY <1>1, SeqRows DEF LedgerTyped
  <2>2. B[n] = Base(periods[n])
    BY <1>1 DEF Bases
  <2> QED
    BY <2>1, <2>2, BaseOf DEF Record
<1>4. B = [n \in 1..N |-> B[n]]
  BY <1>1 DEF Bases
<1>5. G = Expected - Total(B)
  BY DEF Gap
<1>6. CASE \A n \in 1..N : periods[n].paid = 0
  <2>1. T = EqualPeriodAmounts(Expected, N)
    BY <1>6 DEF Repaired
  <2> QED
    BY <1>1, <1>2, <2>1, BaseType
<1>7. CASE ~(\A n \in 1..N : periods[n].paid = 0)
  <2>1. T = [B EXCEPT ![N] = @ + G]
    BY <1>7 DEF Repaired
  <2> HIDE DEF B, G, T, b, N
  <2>2. T = [n \in 1..N |-> IF n = N THEN B[n] + G ELSE B[n]]
    BY <1>1, <1>4, <2>1
  <2>3. G # 0
    <3> SUFFICES ASSUME G = 0 PROVE FALSE
      OBVIOUS
    <3>1. \A n \in 1..N : T[n] = B[n]
      BY <1>3, <2>2
    <3>2. T = B
      BY <1>4, <2>2, <3>1
    <3> QED
      BY <3>2 DEF T, B
  <2>4. ~Shaped(B, N)
    <3> SUFFICES ASSUME Shaped(B, N) PROVE FALSE
      OBVIOUS
    <3>1. Total(B) = Expected
      BY <1>1, ShapedTotal
    <3> QED
      BY <1>2, <1>5, <2>3, <3>1
  <2>5. terms.rounding = "cents" /\ \A n \in DOMAIN periods : periods[n].base = b
    BY <2>4 DEF RegularInv, MultiInv, Shape, B, N, b
  <2>6. Total(B) = b * N /\ b \in Nat
    BY <1>1, <2>5, OldTotal DEF B, N, b
  <2>7. \A n \in 1..N : T[n] = IF n < N THEN b ELSE Expected - b * (N - 1)
    <3> TAKE n \in 1..N
    <3>1. B[n] = b
      BY <1>1, <1>3, <2>5
    <3>2. b + (Expected - b * N) = Expected - b * (N - 1)
      BY <1>1, <1>2, <2>6
    <3>3. n < N \/ n = N
      BY <1>1
    <3> QED
      BY <1>1, <1>5, <2>2, <2>6, <3>1, <3>2, <3>3
  <2>8. T = LastTakes(Expected, N, b)
    BY <2>2, <2>7 DEF LastTakes
  <2> QED
    BY <2>5, <2>8 DEF T, N, b
<1> QED
  BY <1>6, <1>7

\* A repair aims at bases that add up and are above zero.
LEMMA RepairReadAims ==
  ASSUME Typed, RegularInv, Regular, RepairRead
  PROVE  RepairAims'
<1> DEFINE N == Len(periods)
           T == Repaired(periods)
           e == EqualBase(Expected, N)
           b == OldBase(N)
           changed == {n \in DOMAIN periods : T[n] # Base(periods[n])}
<1>1. /\ Multi /\ T # Bases(periods) /\ UNCHANGED <<terms, periods>>
      /\ repair' = [n \in changed |-> [base |-> T[n], penalty |-> periods[n].penalty, paid |-> periods[n].paid]]
  BY DEF RepairRead
<1>2. /\ TermsTyped /\ LedgerTyped /\ periods \in Seq(Record) /\ N \in Nat \ {0} /\ DOMAIN periods = 1..N
  BY LedgerFacts
<1>3. \/ T = LastTakes(Expected, N, e)
      \/ /\ terms.rounding = "cents" /\ T = LastTakes(Expected, N, b)
         /\ \A n \in DOMAIN periods : periods[n].base = b
  BY <1>1, RepairTarget
<1>4. \A n \in 1..N : Base(periods[n]) = periods[n].base /\ Bases(periods)[n] = periods[n].base
  <2> TAKE n \in 1..N
  <2>1. periods[n] \in Record /\ periods[n].amount = periods[n].base + periods[n].penalty
    BY <1>2, SeqRows DEF LedgerTyped
  <2> QED
    BY <1>2, <2>1, BaseOf DEF Bases
<1>5. Shaped(T, N)
  BY <1>3 DEF Shaped
<1>6. T \in [1..N -> Int]
  BY <1>2, RepairedType
<1> HIDE DEF T
\* Only shares above zero change.
<1>7. ASSUME NEW n \in changed PROVE T[n] > 0
  <2>1. n \in 1..N /\ T[n] # periods[n].base
    BY <1>2, <1>4
  <2>2. /\ Expected - e * (N - 1) > 0
        /\ terms.rounding = "cents" => Expected - b * (N - 1) > 0
    BY <1>1, <1>2, LastShare DEF Regular
  <2>3. e # b => e > 0
    <3>1. Expected \in Nat
      BY <1>2, ExpectedType
    <3> QED
      BY <1>2, <3>1, BaseType DEF OldBase
  <2> HIDE DEF e, b, N
  <2>4. CASE n = N
    <3>1. \A x : LastTakes(Expected, N, x)[n] = Expected - x * (N - 1)
      BY <1>2, <2>1, <2>4 DEF LastTakes
    <3> QED
      BY <1>3, <2>2, <3>1
  <2>5. CASE n # N
    <3>1. \A x : LastTakes(Expected, N, x)[n] = x
      BY <1>2, <2>1, <2>5 DEF LastTakes
    <3>2. periods[n].base \in {e, b}
      <4>1. \/ Bases(periods) = LastTakes(Expected, N, e) \/ Bases(periods) = LastTakes(Expected, N, b)
            \/ periods[n].base = b
        BY <1>1, <1>2, <2>1 DEF RegularInv, MultiInv, Shape, Shaped, e, b, N
      <4> QED
        BY <1>4, <2>1, <3>1, <4>1
    <3>3. T[n] = e
      BY <1>2, <1>3, <2>1, <3>1
    <3> QED
      BY <2>1, <2>3, <3>2, <3>3
  <2> QED
    BY <2>4, <2>5
<1>8. \A n \in DOMAIN repair' : repair'[n].base > 0
  BY <1>1, <1>7
<1>9. [n \in DOMAIN periods |-> IF n \in DOMAIN repair' THEN repair'[n].base ELSE periods[n].base] = T
  <2>1. \A n \in 1..N : (IF n \in DOMAIN repair' THEN repair'[n].base ELSE periods[n].base) = T[n]
    BY <1>1, <1>2, <1>4
  <2> HIDE DEF changed
  <2> QED
    BY <1>2, <1>6, <2>1
<1>10. Shaped([n \in DOMAIN periods |-> IF n \in DOMAIN repair' THEN repair'[n].base ELSE periods[n].base], N)
  BY <1>5, <1>9
<1> HIDE DEF changed
<1>11. Expected' = Expected /\ periods' = periods /\ terms' = terms
  BY <1>1 DEF Expected
<1> QED
  BY <1>8, <1>10, <1>11 DEF RepairAims, Shaped, OldBase

Rebased(p, base, penalty) == [p EXCEPT !.base = base, !.amount = base + penalty]

\* A row with a new base.
LEMMA RebasedType ==
  ASSUME NEW p \in Record, NEW b \in Int, NEW x \in Int, NEW q, q = Rebased(p, b, x)
  PROVE  q \in Record /\ q.base = b /\ q.amount = b + x /\ q.penalty = p.penalty /\ q.paid = p.paid /\ q.due = p.due
<1>1. q.base = b /\ q.amount = b + x
  BY DEF Rebased, Record
<1>2. q.penalty = p.penalty /\ q.paid = p.paid /\ q.due = p.due
  BY DEF Rebased, Record
<1>3. q \in Record
  <2>1. ASSUME NEW y \in Int PROVE [p EXCEPT !.base = b, !.amount = y] \in Record
    BY DEF Record
  <2>2. b + x \in Int
    OBVIOUS
  <2> QED
    BY <2>1, <2>2 DEF Rebased
<1> QED
  BY <1>1, <1>2, <1>3

\* Reconciling a period that a repair has given a base of at least what is paid.
LEMMA RebasedSound ==
  ASSUME NEW q \in Record, NEW rate \in Nat, NEW day \in Int, q.base > 0, q.amount = q.base + q.penalty, q.penalty >= 0,
         NEW paid \in Nat, paid <= q.base
  PROVE  Sound(Row(q, paid, rate, day), rate, day)
<1> DEFINE pen == Penalty(q, paid, rate, day)
           pc == Percent(q.base, rate)
           r == Row(q, paid, rate, day)
<1>1. q.base \in Nat /\ q.penalty \in Int /\ q.amount \in Int /\ q.due \in Int
  BY DEF Record
<1>2. Base(q) = q.base
  BY BaseOf
<1>3. pc \in Nat
  BY <1>1, PercentNat
<1>4. pen = IF paid >= q.amount /\ q.amount > 0 THEN q.penalty
            ELSE IF q.due < day /\ paid < q.amount THEN pc ELSE 0
  BY <1>2 DEF Penalty
<1>5. r.base = q.base /\ r.penalty = pen /\ r.amount = q.base + pen /\ r.paid = paid /\ r.due = q.due
  BY <1>2 DEF Row
<1> HIDE DEF pen, pc, r
<1>6. pen \in {0, pc} /\ (pen # 0 => q.due < day) /\ paid <= q.base + pen
  BY <1>1, <1>3, <1>4
<1>7. Sound(r, rate, day)
  BY <1>1, <1>5, <1>6 DEF Sound, PreSound, pc
<1> QED
  BY <1>7 DEF r

\* The commands and the passing days keep the invariant.
LEMMA RepairSaveKeeps ==
  ASSUME Typed, RegularInv, Regular, RepairSave, edited' = FALSE
  PROVE  RegularInv'
<1> DEFINE R == RepairedRows
           rate == debt.penaltyRate
<1>1. /\ repair # NoRepair /\ Reconcile(debt, R, payments) /\ repair' = NoRepair
      /\ terms' = terms /\ today' = today /\ stage' = stage
  BY DEF RepairSave, RepairedRows
<1>2. \A n \in DOMAIN repair : /\ periods[n].paid = repair[n].paid /\ periods[n].penalty = repair[n].penalty
                               /\ ~(periods[n].paid > repair[n].base)
  BY DEF RepairSave
<1>3. /\ TermsTyped /\ LedgerTyped /\ periods \in Seq(Record) /\ DOMAIN periods = 1..Len(periods) /\ debt \in DebtRow
      /\ IsFiniteSet(payments) /\ (\A p \in payments : p.amount \in Nat) /\ today \in Nat /\ rate \in Nat
  BY LedgerFacts
<1>4. Multi /\ \A n \in DOMAIN repair : n \in DOMAIN periods /\ repair[n].base \in Int /\ repair[n].penalty \in Int
  <2>1. RepairTyped
    BY DEF Typed
  <2> QED
    BY <1>1, <1>3, <2>1 DEF RepairTyped
<1>5. /\ Shaped([n \in DOMAIN periods |-> IF n \in DOMAIN repair THEN repair[n].base ELSE periods[n].base], Len(periods))
      /\ \A n \in DOMAIN repair : repair[n].base > 0
  BY <1>1, <1>4 DEF RegularInv, MultiInv, RepairAims
<1>6. R \in Seq(Record) /\ Len(R) = Len(periods) /\ DOMAIN R = DOMAIN periods
  BY <1>1, RepairedRowsType
<1>7. ASSUME NEW n \in DOMAIN periods
      PROVE  /\ Base(R[n]) = IF n \in DOMAIN repair THEN repair[n].base ELSE periods[n].base
             /\ Sound(Row(R[n], PaidOn(n, payments), rate, today), rate, today)
  <2>1. /\ PreSound(periods[n], rate, today) /\ PaidOn(n, payments) <= periods[n].amount
        /\ PaidOn(n, payments) = periods[n].paid
    BY NowSound
  <2>2. periods[n] \in Record /\ periods[n].paid \in Nat
    BY <1>3, RowFields
  <2>3. CASE n \in DOMAIN repair
    <3>1. R[n] = Rebased(periods[n], repair[n].base, repair[n].penalty)
      BY <2>3 DEF RepairedRows, Rebased
    <3> HIDE DEF R
    <3>q. PICK q : q = R[n]
      OBVIOUS
    <3>2. /\ q \in Record /\ q.base = repair[n].base /\ q.amount = repair[n].base + repair[n].penalty
          /\ q.penalty = periods[n].penalty
      BY <1>4, <2>2, <2>3, <3>1, <3>q, RebasedType
    <3>3. repair[n].base > 0 /\ periods[n].penalty = repair[n].penalty /\ periods[n].paid <= repair[n].base
      BY <1>2, <1>4, <1>5, <2>2, <2>3
    <3>4. periods[n].penalty >= 0
      <4>1. periods[n].base \in Nat /\ rate \in Nat /\ periods[n].penalty \in {0, Percent(periods[n].base, rate)}
        BY <1>3, <2>1, <2>2 DEF PreSound, Record
      <4>2. Percent(periods[n].base, rate) \in Nat
        BY <4>1, PercentNat
      <4> QED
        BY <4>1, <4>2
    <3>5. q.base > 0 /\ q.amount = q.base + q.penalty /\ q.penalty >= 0 /\ PaidOn(n, payments) <= q.base
      BY <2>1, <3>2, <3>3, <3>4
    <3>6. Base(q) = q.base
      BY <3>2, <3>5, BaseOf
    <3>7. Sound(Row(q, PaidOn(n, payments), rate, today), rate, today)
      <4>1. PaidOn(n, payments) \in Nat /\ today \in Int
        BY <1>3, <2>1, <2>2
      <4> HIDE DEF rate
      <4> QED
        BY <1>3, <3>2, <3>5, <4>1, RebasedSound
    <3> QED
      BY <2>3, <3>2, <3>6, <3>7, <3>q
  <2>4. CASE n \notin DOMAIN repair
    <3>1. R[n] = periods[n]
      BY <2>4 DEF RepairedRows
    <3>2. Base(periods[n]) = periods[n].base
      BY <2>1, <2>2, BaseOf DEF PreSound
    <3>3. Sound(Row(periods[n], PaidOn(n, payments), rate, today), rate, today)
      <4>1. PaidOn(n, payments) \in Nat /\ today \in Int
        BY <1>3, <2>1, <2>2
      <4> HIDE DEF rate
      <4> QED
        BY <1>3, <2>1, <2>2, <4>1, SoundRow
    <3> HIDE DEF R
    <3> QED
      BY <2>4, <3>1, <3>2, <3>3
  <2> QED
    BY <2>3, <2>4
<1> HIDE DEF R
<1>8. /\ debt'.penaltyRate = rate /\ periods' \in Seq(Record) /\ Len(periods') = Len(periods)
      /\ DOMAIN periods' = DOMAIN periods
      /\ \A n \in DOMAIN periods : /\ periods'[n] = Row(R[n], PaidOn(n, payments), rate, today)
                                   /\ periods'[n].base = Base(R[n])
                                   /\ periods'[n].amount = periods'[n].base + periods'[n].penalty
  BY <1>1, <1>3, <1>6, ReconcileTyped
<1>9. \A n \in DOMAIN periods' : Sound(periods'[n], debt'.penaltyRate, today')
  BY <1>1, <1>7, <1>8
<1>10. Fresh'
  BY <1>1, <1>3, FreshRows
<1>11. Bases(periods') = [n \in DOMAIN periods |-> IF n \in DOMAIN repair THEN repair[n].base ELSE periods[n].base]
  <2>1. ASSUME NEW n \in DOMAIN periods
        PROVE  Base(periods'[n]) = IF n \in DOMAIN repair THEN repair[n].base ELSE periods[n].base
    <3>1. periods'[n] \in Record
      BY <1>8, SeqRows
    <3> QED
      BY <1>7, <1>8, <3>1, BaseOf
  <2> QED
    BY <1>8, <2>1 DEF Bases
<1>12. Shape'
  <2>1. Shaped(Bases(periods'), Len(periods))
    BY <1>5, <1>11
  <2>2. Expected' = Expected
    BY <1>1 DEF Expected
  <2> QED
    BY <1>1, <1>8, <2>1, <2>2 DEF Shape, Shaped, OldBase
<1>13. RepairAims' /\ Multi'
  BY <1>1, <1>4 DEF RepairAims, Multi
<1>14. \A c \in Clerks : stage'[c] = "idle"
  BY <1>1 DEF RegularInv
<1> QED
  BY <1>9, <1>10, <1>12, <1>13, <1>14 DEF RegularInv, MultiInv, SingleInv

LEMMA RepairReadKeeps ==
  ASSUME Typed, RegularInv, Regular, RepairRead
  PROVE  RegularInv'
<1>1. UNCHANGED <<terms, debt, periods, payments, today, ops, view, stage, edited>> /\ Multi
  BY DEF RepairRead
<1>2. RepairAims'
  BY RepairReadAims
<1>3. Fresh' /\ Shape'
  <2>1. Fresh /\ Shape
    BY <1>1 DEF RegularInv, MultiInv
  <2>2. Shape'
    BY <1>1, <2>1 DEF Shape, Shaped, OldBase, Expected
  <2>3. PICK day \in 0..today : debt = ReconciledDebt(debt, periods, payments, day)
    BY <2>1 DEF Fresh
  <2>4. ReconciledDebt(debt, periods, payments, day)' = ReconciledDebt(debt, periods, payments, day)
    BY <1>1, DebtNext
  <2>5. day \in 0..today' /\ debt' = ReconciledDebt(debt, periods, payments, day)'
    BY <1>1, <2>3, <2>4
  <2> QED
    BY <2>2, <2>5 DEF Fresh
<1>4. \A n \in DOMAIN periods' : Sound(periods'[n], debt'.penaltyRate, today')
  BY <1>1 DEF RegularInv
<1>5. \A c \in Clerks : stage'[c] = "idle"
  BY <1>1 DEF RegularInv
<1> QED
  BY <1>1, <1>2, <1>3, <1>4, <1>5 DEF RegularInv, MultiInv, SingleInv, Multi

LEMMA NextDayKeeps ==
  ASSUME Typed, RegularInv, Regular, NextDay
  PROVE  RegularInv'
<1>1. today' = today + 1 /\ UNCHANGED <<terms, debt, periods, payments, ops, view, stage, repair, edited>> /\ today \in Nat
  BY LedgerFacts DEF NextDay
<1>2. \A n \in DOMAIN periods' : Sound(periods'[n], debt'.penaltyRate, today')
  <2> SUFFICES ASSUME NEW n \in DOMAIN periods PROVE Sound(periods[n], debt.penaltyRate, today + 1)
    BY <1>1
  <2>1. Sound(periods[n], debt.penaltyRate, today)
    BY DEF RegularInv
  <2>2. periods[n].due \in Int
    BY LedgerFacts, RowFields
  <2> QED
    BY <1>1, <2>1, <2>2 DEF Sound, PreSound
<1>3. Fresh'
  <2>1. PICK day \in 0..today : debt = ReconciledDebt(debt, periods, payments, day)
    BY DEF RegularInv, Fresh
  <2>2. ReconciledDebt(debt, periods, payments, day)' = ReconciledDebt(debt, periods, payments, day)
    BY <1>1, DebtNext
  <2>3. day \in 0..today' /\ debt' = ReconciledDebt(debt, periods, payments, day)'
    BY <1>1, <2>1, <2>2
  <2> QED
    BY <2>3 DEF Fresh
<1>4. MultiInv'
  <2>1. MultiInv
    BY DEF RegularInv
  <2> QED
    BY <1>1, <2>1 DEF MultiInv, Shape, RepairAims, Shaped, OldBase, Expected, Multi
<1>5. SingleInv'
  <2>1. SingleInv
    BY DEF RegularInv
  <2> QED
    BY <1>1, <2>1 DEF SingleInv, Multi
<1>6. \A c \in Clerks : stage'[c] = "idle"
  BY <1>1 DEF RegularInv
<1> QED
  BY <1>2, <1>3, <1>4, <1>5, <1>6 DEF RegularInv

-----------------------------------------------------------------------------
(* Every step keeps the invariant.                                         *)

\* A loan in equal periods keeps their number.
LEMMA MultiLength ==
  ASSUME Typed, Multi, Next
  PROVE  Len(periods') = Len(periods)
<1>1. /\ TermsTyped /\ LedgerTyped /\ debt \in DebtRow /\ periods \in Seq(Record)
      /\ IsFiniteSet(payments) /\ (\A p \in payments : p.amount \in Nat) /\ DOMAIN periods = 1..Len(periods)
  BY LedgerFacts
<1>2. ASSUME NEW d \in DebtRow, NEW ps \in Seq(Record), NEW pays, IsFiniteSet(pays), \A p \in pays : p.amount \in Nat,
             Reconcile(d, ps, pays)
      PROVE  Len(periods') = Len(ps)
  BY <1>1, <1>2, ReconcileTyped
<1>3. ASSUME NEW a \in Amounts, NEW chosen \in SUBSET DOMAIN periods, PayBalance(a, chosen)
      PROVE  Len(periods') = Len(periods)
  <2>1. /\ ReconciledNow \in Seq(Record) /\ Len(ReconciledNow) = Len(periods) /\ DebtNow \in DebtRow
    BY <1>1, NowType
  <2>2. Reconcile(DebtNow, ReconciledNow, payments \cup Shares(a, chosen))
    BY <1>3 DEF PayBalance, Shares
  <2>3. /\ IsFiniteSet(payments \cup Shares(a, chosen))
        /\ \A p \in payments \cup Shares(a, chosen) : p.amount \in Nat
    <3>1. a \in Int
      BY TermsAssumption
    <3>2. IsFiniteSet(Shares(a, chosen)) /\ Shares(a, chosen) \subseteq Paid(ops + 1, Len(periods))
      BY <1>1, <3>1, SharesType
    <3> QED
      BY <1>1, <3>2, FS_Union DEF Paid
  <2> QED
    BY <1>2, <2>1, <2>2, <2>3
<1>4. CASE RecordPayment
  <2>1. PICK a \in Amounts : PayBalance(a, DOMAIN periods) \/ \E n \in DOMAIN periods : PayBalance(a, {n})
    BY <1>4 DEF RecordPayment, PayPrincipal, PayInterest, Settle
  <2>2. \A n \in DOMAIN periods : {n} \in SUBSET DOMAIN periods
    OBVIOUS
  <2> QED
    BY <1>3, <2>1, <2>2
<1>5. CASE \E n \in DOMAIN periods : RevertInstallment(n)
  <2>1. PICK n \in DOMAIN periods : RevertInstallment(n)
    BY <1>5
  <2>2. Reconcile(debt, periods, {p \in payments : p.number # n})
    BY <2>1 DEF RevertInstallment
  <2>3. /\ IsFiniteSet({p \in payments : p.number # n}) /\ \A p \in {p \in payments : p.number # n} : p.amount \in Nat
    BY <1>1, PaymentsLeft
  <2> QED
    BY <1>1, <1>2, <2>2, <2>3
<1>6. CASE AssessOverduePenalties \/ ReconcileReport
  BY <1>1, <1>2, <1>6 DEF AssessOverduePenalties, ReconcileReport
<1>7. CASE \E c \in Clerks : Patch(c)
  <2>1. PICK c \in Clerks : Patch(c)
    BY <1>7
  <2>2. periods' = periods \/ PatchPeriod(c)
    BY <2>1 DEF Patch, PatchRead, PatchSave, PatchStatus
  <2>3. ASSUME PatchPeriod(c) PROVE Len(periods') = Len(periods)
    <3>1. Len(periods) \in Nat /\ periods \in [1..Len(periods) -> Record]
      BY <1>1
    <3>2. DOMAIN periods' = 1..Len(periods) /\ periods' = [m \in 1..Len(periods) |-> periods'[m]]
      BY <2>3, <3>1 DEF PatchPeriod
    <3> QED
      BY <3>1, <3>2
  <2> QED
    BY <2>2, <2>3
<1>8. CASE \E n \in DOMAIN periods, base \in PhoneBases, due \in PhoneDues : EditPeriod(n, base, due)
  <2>1. PICK n \in DOMAIN periods, base \in PhoneBases, due \in PhoneDues : EditPeriod(n, base, due)
    BY <1>8
  <2> DEFINE row == [periods[n] EXCEPT !.base = base, !.amount = base, !.due = due]
  <2>2. base \in Int /\ due \in Int /\ periods[n] \in Record
    BY <1>1, SeqRows, TermsAssumption
  <2>3. row \in Record
    BY <2>2 DEF Record
  <2>4. [periods EXCEPT ![n].base = base, ![n].amount = base, ![n].due = due] = [periods EXCEPT ![n] = row]
    OBVIOUS
  <2>5. Reconcile(debt, [periods EXCEPT ![n] = row], payments)
    BY <2>1, <2>4 DEF EditPeriod
  <2> HIDE DEF row
  <2>6. [periods EXCEPT ![n] = row] \in Seq(Record) /\ Len([periods EXCEPT ![n] = row]) = Len(periods)
    BY <1>1, <2>3, ChangedRow
  <2> QED
    BY <1>1, <1>2, <2>5, <2>6
<1>9. CASE RepairRead \/ NextDay
  BY <1>9 DEF RepairRead, NextDay
<1>10. CASE RepairSave
  <2>1. repair # NoRepair /\ Reconcile(debt, RepairedRows, payments)
    BY <1>10 DEF RepairSave, RepairedRows
  <2>2. RepairedRows \in Seq(Record) /\ Len(RepairedRows) = Len(periods)
    BY <2>1, RepairedRowsType
  <2> QED
    BY <1>1, <1>2, <2>1, <2>2
<1> QED
  BY <1>4, <1>5, <1>6, <1>7, <1>8, <1>9, <1>10 DEF Next

\* Every step keeps the invariant of regular loans.
LEMMA RegularStep ==
  ASSUME Typed, RegularInv, [Next]_vars
  PROVE  RegularInv'
<1> SUFFICES ASSUME Regular' PROVE RegularInv'
  BY DEF RegularInv
<1>1. CASE UNCHANGED vars
  <2>1. UNCHANGED <<terms, debt, periods, payments, today, ops, view, stage, repair, edited>>
    BY <1>1 DEF vars
  <2>2. Regular
    BY <2>1 DEF Regular, Tiny, Expected, Multi
  <2>3. Fresh'
    <3>1. PICK day \in 0..today : debt = ReconciledDebt(debt, periods, payments, day)
      BY <2>2 DEF RegularInv, Fresh
    <3>2. ReconciledDebt(debt, periods, payments, day)' = ReconciledDebt(debt, periods, payments, day)
      BY <2>1, DebtNext
    <3>3. day \in 0..today' /\ debt' = ReconciledDebt(debt, periods, payments, day)'
      BY <2>1, <3>1, <3>2
    <3> QED
      BY <3>3 DEF Fresh
  <2>4. MultiInv'
    BY <2>1, <2>2 DEF RegularInv, MultiInv, Shape, RepairAims, Shaped, OldBase, Expected, Multi
  <2>5. SingleInv'
    BY <2>1, <2>2 DEF RegularInv, SingleInv, Multi
  <2>6. (\A c \in Clerks : stage'[c] = "idle") /\ \A n \in DOMAIN periods' : Sound(periods'[n], debt'.penaltyRate, today')
    BY <2>1, <2>2 DEF RegularInv
  <2> QED
    BY <2>3, <2>4, <2>5, <2>6 DEF RegularInv
<1>2. CASE Next
  <2>0. Multi => Len(periods') = Len(periods)
    BY <1>2, MultiLength
  <2>1. ASSUME terms' = terms, edited' = edited \/ edited' = TRUE PROVE Regular /\ edited' = FALSE
    BY <2>0, <2>1, RegularBack
  <2>2. CASE RecordPayment
    <3>1. /\ UNCHANGED <<terms, today, view, stage, repair, edited>> /\ Regular
      BY <2>1, <2>2 DEF RecordPayment
    <3>2. CASE \E a \in Amounts : PayBalance(a, DOMAIN periods)
      BY <3>1, <3>2, MultiPay
    <3>3. CASE \E a \in Amounts, n \in DOMAIN periods : PayBalance(a, {n})
      <4>1. PICK a \in Amounts, n \in DOMAIN periods : PayBalance(a, {n})
        BY <3>3
      <4>2. {n} \in SUBSET DOMAIN periods
        OBVIOUS
      <4> QED
        BY <3>1, <4>1, <4>2, MultiPay
    <3>4. CASE \E a \in Amounts : PayPrincipal(a)
      BY <3>1, <3>4, SinglePrincipal
    <3>5. CASE PayInterest
      BY <3>1, <3>5, SingleInterest
    <3>6. CASE Settle
      <4>1. ~Multi
        BY <3>6 DEF Settle
      <4> QED
        BY <3>1, <3>6, <4>1, SingleSettle
    <3> QED
      BY <2>2, <3>2, <3>3, <3>4, <3>5, <3>6 DEF RecordPayment
  <2>3. CASE \E n \in DOMAIN periods : RevertInstallment(n)
    <3>1. PICK n \in DOMAIN periods : RevertInstallment(n)
      BY <2>3
    <3>2. UNCHANGED <<terms, today, ops, view, stage, repair, edited>> /\ Regular
      BY <2>1, <3>1 DEF RevertInstallment
    <3> QED
      BY <3>1, <3>2, SingleRevert, MultiRevert
  <2>4. CASE AssessOverduePenalties \/ ReconcileReport
    <3>1. /\ UNCHANGED <<terms, today, ops, view, stage, repair, edited>> /\ Regular
          /\ Reconcile(debt, periods, payments)
      BY <2>1, <2>4 DEF AssessOverduePenalties, ReconcileReport
    <3> QED
      BY <3>1, SingleAssess, MultiAssess
  <2>5. CASE \E c \in Clerks : Patch(c)
    <3>1. PICK c \in Clerks : Patch(c)
      BY <2>5
    <3>2. CASE PatchRead(c)
      <4>1. edited' = TRUE
        BY <3>2 DEF PatchRead
      <4> QED
        BY <4>1 DEF Regular
    <3>3. CASE PatchSave(c) \/ PatchPeriod(c) \/ PatchStatus(c)
      <4>1. terms' = terms /\ edited' = edited /\ stage[c] # "idle"
        BY <3>3 DEF PatchSave, PatchPeriod, PatchStatus
      <4>2. stage[c] = "idle"
        BY <2>1, <4>1 DEF RegularInv
      <4> QED
        BY <4>1, <4>2
    <3> QED
      BY <3>1, <3>2, <3>3 DEF Patch
  <2>6. CASE \E n \in DOMAIN periods, base \in PhoneBases, due \in PhoneDues : EditPeriod(n, base, due)
    <3>1. edited' = TRUE
      BY <2>6 DEF EditPeriod
    <3> QED
      BY <3>1 DEF Regular
  <2>7. CASE RepairRead
    <3>1. terms' = terms /\ edited' = edited
      BY <2>7 DEF RepairRead
    <3> QED
      BY <2>1, <2>7, <3>1, RepairReadKeeps
  <2>8. CASE RepairSave
    <3>1. terms' = terms /\ (edited' = edited \/ edited' = TRUE)
      BY <2>8 DEF RepairSave, Typed, TermsTyped
    <3> QED
      BY <2>1, <2>8, <3>1, RepairSaveKeeps
  <2>9. CASE NextDay
    <3>1. terms' = terms /\ edited' = edited
      BY <2>9 DEF NextDay
    <3> QED
      BY <2>1, <2>9, <3>1, NextDayKeeps
  <2> QED
    BY <1>2, <2>2, <2>3, <2>4, <2>5, <2>6, <2>7, <2>8, <2>9 DEF Next
<1> QED
  BY <1>1, <1>2

-----------------------------------------------------------------------------
(* New loans.                                                              *)

\* Without payments nothing is paid.
LEMMA NothingPaidYet ==
  /\ Sum({}) = 0 /\ Principal({}) = 0 /\ \A n : PaidOn(n, {}) = 0
<1>1. Principal({}) = 0
  <2>1. {p \in {} : p.kind = "principal" /\ p.number = 0} = {}
    OBVIOUS
  <2> QED
    BY <2>1, SumOfNone DEF Principal
<1>2. ASSUME NEW n PROVE PaidOn(n, {}) = 0
  <2>1. {p \in {} : p.number = n} = {}
    OBVIOUS
  <2> QED
    BY <2>1, SumOfNone DEF PaidOn
<1> QED
  BY <1>1, <1>2, SumOfNone

\* The amounts of a new loan's periods.
NewAmounts(loanType, principal, rate, n, rounding) ==
  IF rounding = "whole" THEN LoanInstallmentTerms(loanType, principal, rate, n)
  ELSE [i \in 1..n |-> Rounded(principal + Percent(principal, rate), n)]

LoanTotal(principal, rate) == principal + Percent(principal, rate)

AmountsFit(loanType, n, rounding, amounts, E) ==
  /\ amounts \in [1..n -> Int] /\ E \in Nat
  /\ SumFunctionOnSet(amounts, 1..n) \in Nat
  /\ loanType = "multi" /\ rounding = "whole" => amounts = LastTakes(E, n, EqualBase(E, n))
  /\ loanType = "single" /\ rounding = "whole" => \A i \in 1..n : amounts[i] \in Nat
  /\ rounding = "cents" => \A i \in 1..n : amounts[i] = Rounded(E, n) /\ amounts[i] \in Nat

\* The amounts of a new loan's periods are those of the invariant.
LEMMA NewAmountsType ==
  ASSUME NEW loanType \in {"multi", "single"}, NEW principal \in Nat, NEW rate \in Nat, NEW n \in Nat \ {0},
         NEW rounding \in {"whole", "cents"}, NEW amounts, amounts = NewAmounts(loanType, principal, rate, n, rounding),
         NEW E, E = LoanTotal(principal, rate)
  PROVE  AmountsFit(loanType, n, rounding, amounts, E)
<1>0. Percent(principal, rate) \in Nat
  BY PercentNat
<1>1. E \in Nat /\ IsFiniteSet(1..n)
  <2>1. E \in Nat
    BY <1>0 DEF LoanTotal
  <2> QED
    BY <2>1, FS_Interval
<1>2. CASE rounding = "whole" /\ loanType = "multi"
  <2>1. amounts = EqualPeriodAmounts(E, n)
    BY <1>2 DEF NewAmounts, LoanInstallmentTerms, LoanTotal
  <2>2. amounts = LastTakes(E, n, EqualBase(E, n)) /\ EqualBase(E, n) \in Int /\ amounts \in [1..n -> Int]
    BY <1>1, <2>1, BaseType, EqualType
  <2>3. Total(amounts) = E
    BY <1>1, <2>2, LastTakesSum
  <2>4. Total(amounts) = SumFunctionOnSet(amounts, 1..n)
    BY <2>2 DEF Total, SumFunction
  <2> QED
    BY <1>1, <1>2, <2>2, <2>3, <2>4 DEF AmountsFit
<1>3. CASE rounding = "whole" /\ loanType = "single"
  <2>1. amounts = [i \in 1..n |-> Percent(principal, rate)]
    BY <1>3 DEF NewAmounts, LoanInstallmentTerms
  <2>2. amounts \in [1..n -> Int] /\ \A i \in 1..n : amounts[i] \in Nat
    BY <1>0, <2>1
  <2>3. SumFunctionOnSet(amounts, 1..n) \in Nat
    BY <1>1, <2>2, SumNat
  <2> QED
    BY <1>1, <1>3, <2>2, <2>3 DEF AmountsFit
<1>4. CASE rounding = "cents"
  <2>1. amounts = [i \in 1..n |-> Rounded(E, n)]
    BY <1>4 DEF NewAmounts, LoanTotal
  <2>2. Rounded(E, n) \in Nat
    BY <1>1, RoundedNat
  <2>3. amounts \in [1..n -> Int] /\ \A i \in 1..n : amounts[i] = Rounded(E, n) /\ amounts[i] \in Nat
    BY <2>1, <2>2
  <2>4. SumFunctionOnSet(amounts, 1..n) \in Nat
    BY <1>1, <2>3, SumNat
  <2> QED
    BY <1>1, <1>4, <2>3, <2>4 DEF AmountsFit
<1> QED
  BY <1>2, <1>3, <1>4

\* The rows of a new loan's periods, the last of which is due at the given date.
NewRows(amounts, n, due) ==
  [i \in 1..n |-> [base |-> amounts[i], penalty |-> 0, amount |-> amounts[i], paid |-> 0, due |-> due + i - n]]

\* The rows of a new loan's periods.
LEMMA NewPeriodsType ==
  ASSUME NEW n \in Nat \ {0}, NEW amounts \in [1..n -> Int], NEW due \in Int,
         NEW ps, ps = NewRows(amounts, n, due)
  PROVE  /\ ps \in Seq(Record) /\ Len(ps) = n /\ DOMAIN ps = 1..n
         /\ \A i \in 1..n : /\ ps[i].base = amounts[i] /\ ps[i].amount = amounts[i] /\ ps[i].penalty = 0
                            /\ ps[i].paid = 0 /\ ps[i].due = due + i - n /\ Base(ps[i]) = amounts[i]
         /\ SumOver(ps, LAMBDA p : p.amount) = SumFunctionOnSet(amounts, 1..n)
         /\ Bases(ps) = amounts
<1>1. ASSUME NEW i \in 1..n
      PROVE  /\ ps[i] \in Record
             /\ ps[i].base = amounts[i] /\ ps[i].amount = amounts[i] /\ ps[i].penalty = 0
             /\ ps[i].paid = 0 /\ ps[i].due = due + i - n /\ Base(ps[i]) = amounts[i]
  <2>1. amounts[i] \in Int /\ due + i - n \in Int
    OBVIOUS
  <2>2. ps[i] = [base |-> amounts[i], penalty |-> 0, amount |-> amounts[i], paid |-> 0, due |-> due + i - n]
    BY DEF NewRows
  <2>3. /\ ps[i] \in Record
        /\ ps[i].base = amounts[i] /\ ps[i].amount = amounts[i] /\ ps[i].penalty = 0
        /\ ps[i].paid = 0 /\ ps[i].due = due + i - n
    BY <2>1, <2>2 DEF Record
  <2>4. Base(ps[i]) = amounts[i]
    BY <2>1, <2>3 DEF Base
  <2> QED
    BY <2>3, <2>4
<1>2. ps \in [1..n -> Record]
  BY <1>1 DEF NewRows
<1>3. ps \in Seq(Record) /\ Len(ps) = n /\ DOMAIN ps = 1..n
  BY <1>2, SeqOf
<1>4. SumOver(ps, LAMBDA p : p.amount) = SumFunctionOnSet(amounts, 1..n)
  <2> DEFINE f == [i \in DOMAIN ps |-> ps[i].amount]
  <2>1. SumOver(ps, LAMBDA p : p.amount) = SumFunctionOnSet(f, 1..n)
    BY <1>3 DEF SumOver, Total, SumFunction
  <2>2. \A i \in 1..n : f[i] = amounts[i]
    BY <1>1, <1>3
  <2> HIDE DEF f
  <2> QED
    <3>1. IsFiniteSet(1..n)
      BY FS_Interval
    <3>2. SumFunctionOnSet(f, 1..n) = SumFunctionOnSet(amounts, 1..n)
      BY <2>2, <3>1, SumSame
    <3> QED
      BY <2>1, <3>2
<1>5. Bases(ps) = amounts
  BY <1>1, <1>3 DEF Bases
<1> QED
  BY <1>1, <1>3, <1>4, <1>5

\* A new loan, its terms spelled out.
Started(loanType, principal, rate, penaltyRate, n, rounding) ==
  /\ loanType = "single" => penaltyRate = 0 /\ n = 1 /\ rounding = "whole"
  /\ terms = [loanType |-> loanType, principal |-> principal, interestRate |-> rate, rounding |-> rounding]
  /\ periods = NewRows(NewAmounts(loanType, principal, rate, n, rounding), n, n)
  /\ debt = NewDebt(principal, SumOver(periods, LAMBDA p : p.amount) + (IF loanType = "single" THEN principal ELSE 0),
                    penaltyRate, n)

\* A new loan is one of the loans spelled out here.
LEMMA StartOf ==
  ASSUME Init
  PROVE  \E loanType \in {"multi", "single"}, principal \in Nat \ {0}, rate \in Nat, penaltyRate \in Nat,
            n \in Durations, rounding \in {"whole", "cents"} :
           Started(loanType, principal, rate, penaltyRate, n, rounding)
<1>1. PICK loanType \in LoanTypes, principal \in Principals, rate \in InterestRates, penaltyRate \in PenaltyRates,
           n \in Durations, rounding \in Roundings :
    /\ loanType = "single" => penaltyRate = 0 /\ n = 1 /\ rounding = "whole"
    /\ terms = [loanType |-> loanType, principal |-> principal, interestRate |-> rate, rounding |-> rounding]
    /\ periods = NewPeriods(loanType, principal, rate, n, n, rounding)
    /\ debt = NewDebt(principal, SumOver(periods, LAMBDA p : p.amount) + (IF loanType = "single" THEN principal ELSE 0),
                      penaltyRate, n)
    /\ payments = {} /\ today = 0 /\ ops = 0
    /\ view = [c \in Clerks |-> NoView]
    /\ stage = [c \in Clerks |-> "idle"]
    /\ repair = NoRepair
    /\ edited = FALSE
  BY DEF Init
<1>2. /\ loanType \in {"multi", "single"} /\ principal \in Nat \ {0} /\ rate \in Nat /\ penaltyRate \in Nat
      /\ rounding \in {"whole", "cents"}
  BY TermsAssumption
<1>3. periods = NewRows(NewAmounts(loanType, principal, rate, n, rounding), n, n)
  BY <1>1 DEF NewPeriods, NewAmounts, NewRows
<1> QED
  BY <1>1, <1>2, <1>3 DEF Started

\* A new loan has the invariant.
LEMMA InitInv == ASSUME Init PROVE Typed /\ RegularInv
<1>1a. PICK loanType \in {"multi", "single"}, principal \in Nat \ {0}, rate \in Nat, penaltyRate \in Nat,
           n \in Durations, rounding \in {"whole", "cents"} :
           Started(loanType, principal, rate, penaltyRate, n, rounding)
  BY StartOf
<1>1b. n \in Nat \ {0} /\ principal \in Nat
  BY TermsAssumption
<1>1c. PICK amounts, E, other :
         /\ amounts = NewAmounts(loanType, principal, rate, n, rounding)
         /\ E = LoanTotal(principal, rate)
         /\ other = (IF loanType = "single" THEN principal ELSE 0)
  OBVIOUS
<1>1. /\ loanType = "single" => penaltyRate = 0 /\ n = 1 /\ rounding = "whole"
      /\ terms = [loanType |-> loanType, principal |-> principal, interestRate |-> rate, rounding |-> rounding]
      /\ periods = NewRows(amounts, n, n)
      /\ debt = NewDebt(principal, SumOver(periods, LAMBDA p : p.amount) + other, penaltyRate, n)
  BY <1>1a, <1>1c DEF Started
<1>1d. other \in Nat
  BY <1>1b, <1>1c
<1>2. /\ payments = {} /\ today = 0 /\ ops = 0 /\ view = [c \in Clerks |-> NoView]
      /\ stage = [c \in Clerks |-> "idle"] /\ repair = NoRepair /\ edited = FALSE
  BY DEF Init
<1>3. terms.loanType = loanType /\ terms.principal = principal /\ terms.interestRate = rate /\ terms.rounding = rounding
  BY <1>1
<1>4. Multi = (loanType = "multi") /\ Expected = E
  BY <1>1c, <1>3 DEF Multi, Expected, LoanTotal
<1>5. /\ amounts \in [1..n -> Int] /\ E \in Nat /\ SumFunctionOnSet(amounts, 1..n) \in Nat
      /\ loanType = "multi" /\ rounding = "whole" => amounts = LastTakes(E, n, EqualBase(E, n))
      /\ loanType = "single" /\ rounding = "whole" => \A i \in 1..n : amounts[i] \in Nat
      /\ rounding = "cents" => \A i \in 1..n : amounts[i] = Rounded(E, n) /\ amounts[i] \in Nat
  <2>1. loanType \in {"multi", "single"} /\ principal \in Nat /\ rate \in Nat /\ n \in Nat \ {0}
        /\ rounding \in {"whole", "cents"}
    BY <1>1b
  <2>2. amounts = NewAmounts(loanType, principal, rate, n, rounding) /\ E = LoanTotal(principal, rate)
    BY <1>1c
  <2>3. AmountsFit(loanType, n, rounding, amounts, E)
    BY <2>1, <2>2, NewAmountsType
  <2> QED
    BY <2>3 DEF AmountsFit
<1> DEFINE total == SumFunctionOnSet(amounts, 1..n)
<1>6. /\ periods \in Seq(Record) /\ Len(periods) = n /\ DOMAIN periods = 1..n
      /\ \A i \in 1..n : /\ periods[i].base = amounts[i] /\ periods[i].amount = amounts[i] /\ periods[i].penalty = 0
                         /\ periods[i].paid = 0 /\ periods[i].due = n + i - n
      /\ SumOver(periods, LAMBDA p : p.amount) = total /\ Bases(periods) = amounts
  <2>1. n \in Int
    BY <1>1b
  <2>2. amounts \in [1..n -> Int]
    BY <1>5
  <2> QED
    BY <1>1, <1>1b, <2>1, <2>2, NewPeriodsType
<1>7. total \in Nat
  BY <1>5
<1> HIDE DEF total
<1>8. debt = [penaltyRate |-> penaltyRate, due |-> n, capital |-> principal, total |-> total + other,
              collected |-> 0, outstanding |-> total + other, status |-> CurrentStatus(total + other, n, 0)]
  BY <1>1, <1>6 DEF NewDebt
<1>9. CurrentStatus(total + other, n, 0) \in {"unpaid", "overdue", "paid"} /\ total + other \in Nat
  BY <1>1d, <1>7 DEF CurrentStatus
<1>10. /\ debt \in DebtRow /\ debt.penaltyRate = penaltyRate /\ debt.due = n /\ debt.capital = principal
       /\ debt.total = total + other /\ debt.collected = 0 /\ debt.outstanding = total + other
       /\ debt.status = CurrentStatus(total + other, n, 0)
  BY <1>1b, <1>8, <1>9 DEF DebtRow
<1>11. TermsTyped
  <2>1. terms \in [loanType : {"multi", "single"}, principal : Nat \ {0}, interestRate : Nat,
                   rounding : {"whole", "cents"}]
    BY <1>1
  <2>2. MaxToday \in Nat /\ MaxOps \in Nat /\ today = 0 /\ ops = 0
    BY <1>2, TermsAssumption
  <2>3. today \in 0..MaxToday /\ ops \in 0..MaxOps
    BY <2>2
  <2>4. edited \in BOOLEAN
    BY <1>2
  <2> QED
    BY <2>1, <2>3, <2>4 DEF TermsTyped
<1>12. LedgerTyped
  <2>1. IsFiniteSet({}) /\ Len(periods) > 0 /\ Len(periods) \in Durations
    BY <1>1b, <1>6, FS_EmptySet
  <2>2. \A i \in DOMAIN periods : /\ periods[i].amount = periods[i].base + periods[i].penalty
                                  /\ periods[i].paid = PaidOn(i, payments)
    <3> TAKE i \in DOMAIN periods
    <3>1. amounts[i] \in Int
      BY <1>5, <1>6
    <3> QED
      BY <1>2, <1>6, <3>1, NothingPaidYet
  <2> QED
    BY <1>2, <1>6, <1>10, <2>1, <2>2 DEF LedgerTyped
<1>13. SessionsTyped /\ RepairTyped
  BY <1>2 DEF SessionsTyped, RepairTyped
<1>14. Typed
  BY <1>11, <1>12, <1>13 DEF Typed
<1> SUFFICES ASSUME Regular PROVE RegularInv
  BY <1>14 DEF RegularInv
<1>15. \A i \in 1..n : amounts[i] \in Nat
  <2>1. CASE loanType = "multi" /\ rounding = "whole"
    <3>1. amounts = LastTakes(E, n, EqualBase(E, n)) /\ n \in Nat \ {0}
      BY <1>1b, <1>5, <2>1
    <3>2. EqualBase(E, n) \in Nat
      <4> HIDE DEF total
      <4> QED
        BY <1>5, <3>1, BaseType
    <3>3. E - EqualBase(E, n) * (n - 1) > 0
      BY <1>1b, <1>4, <1>6, <1>11, <2>1, LastShare DEF Regular
    <3> TAKE i \in 1..n
    <3>4. amounts[i] = IF i < n THEN EqualBase(E, n) ELSE E - EqualBase(E, n) * (n - 1)
      BY <3>1 DEF LastTakes
    <3>5. amounts[i] \in Int
      BY <1>5
    <3> QED
      BY <3>2, <3>3, <3>4, <3>5
  <2>2. CASE loanType = "single"
    BY <1>1, <1>5, <2>2
  <2>3. CASE rounding = "cents"
    BY <1>5, <2>3
  <2> QED
    BY <2>1, <2>2, <2>3
<1>16. \A i \in DOMAIN periods : Sound(periods[i], debt.penaltyRate, today)
  <2> TAKE i \in DOMAIN periods
  <2>1. amounts[i] \in Nat
    BY <1>6, <1>15
  <2> QED
    BY <1>6, <2>1 DEF Sound, PreSound
<1>17. Fresh
  <2>1. SumOver(periods, Open) = total
    <3> DEFINE f == [i \in DOMAIN periods |-> Open(periods[i])]
    <3>1. SumOver(periods, Open) = SumFunctionOnSet(f, 1..n)
      BY <1>6 DEF SumOver, Total, SumFunction
    <3>2. \A i \in 1..n : f[i] = amounts[i]
      <4> TAKE i \in 1..n
      <4>1. amounts[i] \in Nat /\ f[i] = Open(periods[i])
        BY <1>6, <1>15
      <4> QED
        BY <1>6, <4>1 DEF Open, Positive
    <3>3. IsFiniteSet(1..n)
      <4>1. n \in Nat
        BY <1>1b
      <4> QED
        BY <4>1, FS_Interval
    <3> HIDE DEF f
    <3>4. SumFunctionOnSet(f, 1..n) = total
      BY <3>2, <3>3, SumSame DEF total
    <3> QED
      BY <3>1, <3>4
  <2>2. Sum(payments) = 0 /\ Principal(payments) = 0
    BY <1>2, NothingPaidYet
  <2> DEFINE capital == IF Multi THEN debt.capital ELSE Positive(terms.principal - Principal(payments))
             open == SumOver(periods, Open)
             outstanding == IF Multi THEN open ELSE capital + open
             tot == IF Multi THEN SumOver(periods, LAMBDA p : p.amount) ELSE outstanding
             e == ReconciledDebt(debt, periods, payments, 0)
  <2>3. capital = principal
    BY <1>1b, <1>3, <1>10, <2>2 DEF Positive
  <2>4. open = total /\ (Multi => SumOver(periods, LAMBDA p : p.amount) = total)
    BY <1>6, <2>1
  <2>5. e = [debt EXCEPT !.capital = capital, !.total = tot, !.collected = Sum(payments),
                         !.outstanding = outstanding, !.status = CurrentStatus(outstanding, debt.due, 0)]
    BY DEF ReconciledDebt
  <2> HIDE DEF capital, open
  <2>5a. loanType = "single" <=> ~Multi
    BY <1>4
  <2>6. outstanding = total + other
    <3>1. CASE Multi
      <4>1. other = 0
        BY <1>1c, <2>5a, <3>1
      <4> QED
        BY <1>7, <2>4, <3>1, <4>1
    <3>2. CASE ~Multi
      <4>1. other = principal
        BY <1>1c, <2>5a, <3>2
      <4> QED
        BY <1>1b, <1>7, <2>3, <2>4, <3>2, <4>1
    <3> QED
      BY <3>1, <3>2
  <2>7. tot = total + other
    <3>1. CASE Multi
      <4>1. other = 0
        BY <1>1c, <2>5a, <3>1
      <4> QED
        BY <1>7, <2>4, <3>1, <4>1
    <3>2. CASE ~Multi
      BY <2>6, <3>2
    <3> QED
      BY <3>1, <3>2
  <2> HIDE DEF outstanding, tot, e
  <2>8. e = [debt EXCEPT !.capital = principal, !.total = total + other, !.collected = 0,
                         !.outstanding = total + other, !.status = CurrentStatus(total + other, n, 0)]
    BY <1>10, <2>2, <2>3, <2>5, <2>6, <2>7
  <2>9. e = debt
    <3>1. CurrentStatus(total + other, n, 0) = debt.status
      BY <1>10
    <3> QED
      BY <1>10, <2>8, <3>1 DEF DebtRow
  <2>10. 0 \in 0..today
    BY <1>2
  <2> QED
    BY <2>9, <2>10 DEF Fresh, e
<1>18. MultiInv
  <2> SUFFICES ASSUME Multi PROVE Shape /\ RepairAims
    BY DEF MultiInv
  <2>1. RepairAims
    BY <1>2 DEF RepairAims
  <2>2. CASE rounding = "whole"
    <3>1. Bases(periods) = LastTakes(Expected, Len(periods), EqualBase(Expected, Len(periods)))
      BY <1>4, <1>5, <1>6, <2>2
    <3> QED
      BY <2>1, <3>1 DEF Shape, Shaped
  <2>3. CASE rounding = "cents"
    <3>1. \A i \in 1..n : amounts[i] = OldBase(n)
      BY <1>4, <1>5, <2>3 DEF OldBase
    <3>2. \A i \in DOMAIN periods : periods[i].base = OldBase(Len(periods))
      BY <1>6, <3>1
    <3> QED
      BY <1>3, <2>1, <2>3, <3>2 DEF Shape
  <2> QED
    BY <2>1, <2>2, <2>3
<1>19. SingleInv
  <2> SUFFICES ASSUME ~Multi
               PROVE  /\ debt.penaltyRate = 0
                      /\ \A i \in DOMAIN periods : /\ periods[i].paid = 0 \/ periods[i].paid = periods[i].amount
                                                   /\ i < Len(periods) => periods[i].paid = periods[i].amount
                      /\ debt.due = periods[Len(periods)].due
                      /\ Principal(payments) <= terms.principal
    BY DEF SingleInv
  <2>1. n = 1 /\ penaltyRate = 0
    BY <1>1, <1>4
  <2>2. Principal(payments) <= terms.principal
    BY <1>2, <1>3, NothingPaidYet
  <2> QED
    BY <1>6, <1>10, <2>1, <2>2
<1>20. \A c \in Clerks : stage[c] = "idle"
  BY <1>2
<1> QED
  BY <1>16, <1>17, <1>18, <1>19, <1>20 DEF RegularInv

\* The inductive invariant: what is typed, and what a regular loan is like, always hold.
LEMMA AlwaysInv == Spec => [](Typed /\ RegularInv)
<1>1. Init => Typed /\ RegularInv
  BY InitInv
<1>2. Typed /\ RegularInv /\ [Next]_vars => Typed' /\ RegularInv'
  BY TypedStep, RegularStep
<1> QED
  BY <1>1, <1>2, PTL DEF Spec

-----------------------------------------------------------------------------
(* Types, open positions and repairs.                                      *)

\* The invariant implies TypeOK.
LEMMA TypedOK == ASSUME Typed, RegularInv PROVE TypeOK
<1>1. /\ TermsTyped /\ LedgerTyped /\ SessionsTyped /\ RepairTyped
      /\ debt \in DebtRow /\ periods \in Seq(Record) /\ DOMAIN periods = 1..Len(periods)
      /\ payments \subseteq Paid(ops, Len(periods)) /\ ops \in Nat /\ debt.penaltyRate \in Nat
  BY LedgerFacts DEF Typed
<1>2. ASSUME Regular, NEW n \in DOMAIN periods PROVE periods[n].base >= 0 /\ periods[n].penalty >= 0
  <2>1. Sound(periods[n], debt.penaltyRate, today)
    BY <1>2 DEF RegularInv
  <2>2. periods[n].base \in Int
    BY <1>1, RowFields
  <2>3. periods[n].base \in Nat /\ periods[n].penalty \in {0, Percent(periods[n].base, debt.penaltyRate)}
    BY <2>1, <2>2 DEF Sound, PreSound
  <2>4. Percent(periods[n].base, debt.penaltyRate) \in Nat
    BY <1>1, <2>3, PercentNat
  <2> QED
    BY <2>3, <2>4
<1>3. ASSUME NEW p \in payments
      PROVE  /\ p.op \in 1..MaxOps /\ p.number \in 0..Len(periods)
             /\ p.kind \in {"principal", "interest"} /\ p.amount > 0
  <2>1. p.op \in 1..ops /\ p.number \in 0..Len(periods) /\ p.kind \in {"principal", "interest"} /\ p.amount \in Nat \ {0}
    BY <1>1 DEF Paid
  <2>2. ops \in 0..MaxOps /\ MaxOps \in Int
    BY <1>1, TermsAssumption DEF TermsTyped
  <2> QED
    BY <2>1, <2>2
<1>4. ASSUME NEW c \in Clerks
      PROVE  /\ view[c] \in DebtRow \cup {NoView}
             /\ stage[c] \in {"idle", "save", "save due", "period", "status", "done"}
  BY <1>1 DEF SessionsTyped
<1>5. ASSUME NEW n \in DOMAIN repair
      PROVE  n \in 1..Len(periods) /\ repair[n] \in [base : Int, penalty : Int, paid : Nat]
  <2>1. repair # NoRepair
    BY DEF NoRepair
  <2> QED
    BY <1>1, <2>1 DEF RepairTyped
<1>6. /\ terms \in [loanType : {"multi", "single"}, principal : Nat \ {0}, interestRate : Nat,
                   rounding : {"whole", "cents"}]
      /\ today \in 0..MaxToday /\ ops \in 0..MaxOps /\ edited \in BOOLEAN
  BY <1>1 DEF TermsTyped
<1>7. periods \in Seq([base : Int, penalty : Int, amount : Int, paid : Nat, due : Int])
  BY <1>1 DEF Record
<1>8. Multi => Len(periods) \in Durations
  BY <1>1 DEF LedgerTyped
<1> QED
  BY <1>1, <1>2, <1>3, <1>4, <1>5, <1>6, <1>7, <1>8 DEF TypeOK

\* TypeOK always holds: every column of the debt, its periods and its payments keeps its range, with
\* base and penalty not negative for regular loans, whatever is paid, reverted, patched or repaired.
THEOREM TypeCorrect == Spec => []TypeOK
BY AlwaysInv, TypedOK, PTL

\* The invariant implies OnePosition.
LEMMA SinglePosition == ASSUME Typed, RegularInv PROVE OnePosition
<1> SUFFICES ASSUME ~Multi, ~edited
             PROVE  /\ \A n \in 1..(Len(periods) - 1) : periods[n].paid = periods[n].amount
                    /\ periods[Len(periods)].paid <= periods[Len(periods)].amount
                    /\ debt.due = periods[Len(periods)].due
  BY DEF OnePosition
<1>1. Regular
  BY DEF Regular, Tiny
<1>2. Len(periods) \in Nat /\ Len(periods) > 0 /\ DOMAIN periods = 1..Len(periods)
  BY LedgerFacts
<1>3. /\ \A n \in DOMAIN periods : n < Len(periods) => periods[n].paid = periods[n].amount
      /\ debt.due = periods[Len(periods)].due
      /\ \A n \in DOMAIN periods : Sound(periods[n], debt.penaltyRate, today)
  BY <1>1 DEF RegularInv, SingleInv
<1>4. periods[Len(periods)].paid <= periods[Len(periods)].amount
  BY <1>2, <1>3 DEF Sound
<1>5. \A n \in 1..(Len(periods) - 1) : n \in DOMAIN periods /\ n < Len(periods)
  BY <1>2
<1> QED
  BY <1>3, <1>4, <1>5

\* OnePosition always holds: record_payment and revert_installment leave a single loan with all its
\* periods paid but the last, none paid twice, and falling due with the last.
THEOREM OnePositionOpen == Spec => []OnePosition
BY AlwaysInv, SinglePosition, PTL

\* A repair that is saved over a regular loan leaves bases that add up to what is expected.
LEMMA RepairSaveAddsUp ==
  ASSUME Typed, RegularInv, Regular, RepairSave
  PROVE  Gap(periods') = 0
<1> DEFINE R == RepairedRows
           N == Len(periods)
           aim == [n \in DOMAIN periods |-> IF n \in DOMAIN repair THEN repair[n].base ELSE periods[n].base]
<1>1. repair # NoRepair /\ Reconcile(debt, R, payments)
  BY DEF RepairSave, RepairedRows
<1>2. /\ TermsTyped /\ LedgerTyped /\ periods \in Seq(Record) /\ DOMAIN periods = 1..N /\ N \in Nat \ {0}
      /\ debt \in DebtRow /\ IsFiniteSet(payments) /\ (\A p \in payments : p.amount \in Nat)
  BY LedgerFacts
<1>3. Multi /\ \A n \in DOMAIN repair : n \in DOMAIN periods /\ repair[n].base \in Int /\ repair[n].penalty \in Int
  <2>1. RepairTyped
    BY DEF Typed
  <2> QED
    BY <1>1, <1>2, <2>1 DEF RepairTyped
<1>4. Shaped(aim, N) /\ \A n \in DOMAIN repair : repair[n].base > 0
  BY <1>1, <1>3 DEF RegularInv, MultiInv, RepairAims
<1>5. R \in Seq(Record) /\ Len(R) = N /\ DOMAIN R = DOMAIN periods
  BY <1>1, RepairedRowsType
<1>6. ASSUME NEW n \in DOMAIN periods PROVE Base(R[n]) = aim[n]
  <2>1. periods[n] \in Record /\ periods[n].amount = periods[n].base + periods[n].penalty
    BY <1>2, SeqRows DEF LedgerTyped
  <2>2. CASE n \in DOMAIN repair
    <3>1. R[n] = Rebased(periods[n], repair[n].base, repair[n].penalty)
      BY <2>2 DEF RepairedRows, Rebased
    <3> HIDE DEF R
    <3>2. PICK q : q = R[n]
      OBVIOUS
    <3>3. q.base = repair[n].base
      BY <1>3, <2>1, <2>2, <3>1, <3>2, RebasedType
    <3>4. Base(q) = q.base
      BY <1>3, <1>4, <2>2, <3>3 DEF Base
    <3> QED
      BY <2>2, <3>2, <3>3, <3>4
  <2>3. CASE n \notin DOMAIN repair
    <3>1. R[n] = periods[n]
      BY <2>3 DEF RepairedRows
    <3>2. Base(periods[n]) = periods[n].base
      BY <2>1, BaseOf
    <3> HIDE DEF R
    <3> QED
      BY <2>3, <3>1, <3>2
  <2> QED
    BY <2>2, <2>3
<1> HIDE DEF R, aim
<1>7. /\ periods' \in Seq(Record) /\ DOMAIN periods' = DOMAIN periods
      /\ \A n \in DOMAIN periods : /\ periods'[n].base = Base(R[n])
                                   /\ periods'[n].amount = periods'[n].base + periods'[n].penalty
  BY <1>1, <1>2, <1>5, ReconcileTyped
<1>8. Bases(periods') = aim
  <2>1. ASSUME NEW n \in DOMAIN periods PROVE Base(periods'[n]) = aim[n]
    <3>1. periods'[n] \in Record
      BY <1>7, SeqRows
    <3> QED
      BY <1>6, <1>7, <3>1, BaseOf
  <2> QED
    BY <1>7, <2>1 DEF Bases, aim
<1>9. Total(aim) = Expected /\ Expected \in Nat
  BY <1>2, <1>4, ShapedTotal
<1> QED
  BY <1>8, <1>9 DEF Gap

\* A step that ends a repair is its saving.
LEMMA RepairStepAddsUp ==
  ASSUME Typed, RegularInv, [Next]_vars, Regular, repair # NoRepair, repair' = NoRepair
  PROVE  Gap(periods') = 0
<1>1. repair' # repair
  OBVIOUS
<1>2. RepairSave
  BY <1>1 DEF Next, vars, RecordPayment, RevertInstallment, AssessOverduePenalties, Patch, PatchRead, PatchSave,
     PatchPeriod, PatchStatus, EditPeriod, RepairRead, ReconcileReport, NextDay
<1> QED
  BY <1>2, RepairSaveAddsUp

\* RepairAddsUp holds of every step: the command's saving makes the periods add up to the principal and
\* its interest, although it worked the bases out before its transaction.
THEOREM RepairCompletes == Spec => RepairAddsUp
<1>1. (Typed /\ RegularInv) /\ [Next]_vars => [Regular /\ repair # NoRepair /\ repair' = NoRepair => Gap(periods') = 0]_vars
  BY RepairStepAddsUp
<1> QED
  BY <1>1, AlwaysInv, PTL DEF Spec, RepairAddsUp

-----------------------------------------------------------------------------
(* Paid periods keep their amounts.                                        *)

\* A paid row keeps its penalty.
LEMMA PaidRow ==
  ASSUME NEW p \in Record, p.amount = p.base + p.penalty, p.amount > 0, NEW paid \in Nat, paid >= p.amount,
         NEW rate, NEW day
  PROVE  Row(p, paid, rate, day).amount = p.amount
<1>1. Base(p) = p.base
  BY BaseOf
<1>2. Penalty(p, paid, rate, day) = p.penalty
  BY DEF Penalty
<1> QED
  BY <1>1, <1>2 DEF Row

\* A reconciliation keeps the amount of a paid row.
LEMMA PaidReconciled ==
  ASSUME NEW d, NEW ps, NEW pays, Reconcile(d, ps, pays), NEW n \in DOMAIN ps, ps[n] \in Record,
         ps[n].amount = ps[n].base + ps[n].penalty, ps[n].amount > 0,
         periods'[n].paid \in Nat, periods'[n].paid >= ps[n].amount
  PROVE  periods'[n].amount = ps[n].amount
<1>1. periods'[n] = Row(ps[n], PaidOn(n, pays), d.penaltyRate, today)
  BY DEF Reconcile, ReconciledPeriods, Row
<1>2. periods'[n].paid = PaidOn(n, pays)
  BY <1>1 DEF Row
<1> QED
  BY <1>1, <1>2, PaidRow

\* What a period is like that is paid now and after the step.
PaidThrough(n) ==
  /\ n \in DOMAIN periods /\ n \in DOMAIN periods'
  /\ periods[n].amount > 0 /\ periods[n].penalty >= 0 /\ n \notin DOMAIN repair
  /\ periods[n].paid >= periods[n].amount
  /\ periods'[n].paid >= periods[n].paid /\ periods'[n].base = periods[n].base

\* What is known of a period that is paid now and after the step.
LEMMA PaidFacts ==
  ASSUME Typed, Typed', NEW n, PaidThrough(n)
  PROVE  /\ n \in DOMAIN periods /\ periods[n] \in Record /\ ReconciledNow[n] \in Record
         /\ periods[n].amount = periods[n].base + periods[n].penalty /\ periods[n].amount > 0
         /\ ReconciledNow[n].amount = ReconciledNow[n].base + ReconciledNow[n].penalty
         /\ ReconciledNow[n].amount = periods[n].amount /\ ReconciledNow[n].paid = periods[n].paid
         /\ periods[n].base \in Int /\ periods[n].penalty \in Int /\ periods[n].amount \in Int /\ periods[n].paid \in Nat
         /\ periods'[n].paid \in Nat /\ periods'[n].paid >= periods[n].amount
<1>1. n \in DOMAIN periods /\ n \in DOMAIN periods' /\ periods[n].amount > 0 /\ periods[n].paid >= periods[n].amount
      /\ periods'[n].paid >= periods[n].paid
  BY DEF PaidThrough
<1>2. /\ TermsTyped /\ LedgerTyped /\ periods \in Seq(Record) /\ periods' \in Seq(Record)
      /\ periods[n].amount = periods[n].base + periods[n].penalty
  BY <1>1 DEF Typed, LedgerTyped
<1>3. /\ periods[n] \in Record /\ periods[n].base \in Int /\ periods[n].penalty \in Int /\ periods[n].amount \in Int
      /\ periods[n].paid \in Nat
  BY <1>1, <1>2, RowFields
<1>4. periods'[n].paid \in Nat
  <2>1. \A m \in DOMAIN periods' : periods'[m] \in Record
    BY <1>2, SeqRows
  <2> QED
    BY <1>1, <2>1 DEF Record
<1>5. /\ ReconciledNow[n] \in Record /\ ReconciledNow[n].paid = periods[n].paid
      /\ ReconciledNow[n].amount = ReconciledNow[n].base + ReconciledNow[n].penalty
      /\ ReconciledNow[n] = Row(periods[n], periods[n].paid, debt.penaltyRate, today)
  BY <1>1, <1>2, NowType
<1>6. ReconciledNow[n].amount = periods[n].amount
  BY <1>1, <1>2, <1>3, <1>5, PaidRow
<1> QED
  BY <1>1, <1>2, <1>3, <1>4, <1>5, <1>6

\* Payments, reversals and a phone's edit keep the amount of a paid period.
LEMMA PaidPayment ==
  ASSUME Typed, Typed', NEW n, PaidThrough(n), RecordPayment
  PROVE  periods'[n].amount = periods[n].amount
<1>1. /\ n \in DOMAIN periods /\ ReconciledNow[n] \in Record /\ periods[n].amount > 0 /\ periods[n].amount \in Int
      /\ ReconciledNow[n].amount = ReconciledNow[n].base + ReconciledNow[n].penalty
      /\ ReconciledNow[n].amount = periods[n].amount /\ ReconciledNow[n].paid = periods[n].paid
      /\ periods'[n].paid \in Nat /\ periods'[n].paid >= periods[n].amount
  BY PaidFacts
<1>2. /\ DOMAIN ReconciledNow = DOMAIN periods /\ ReconciledNow \in Seq(Record) /\ TermsTyped /\ LedgerTyped
      /\ Len(ReconciledNow) = Len(periods) /\ DOMAIN periods = 1..Len(periods) /\ Len(periods) \in Nat
  BY NowType, SeqRows DEF Typed, LedgerTyped
<1>3. ASSUME NEW d, NEW pays, Reconcile(d, ReconciledNow, pays)
      PROVE  periods'[n].amount = periods[n].amount
  BY <1>1, <1>2, <1>3, PaidReconciled
<1>4. CASE \E a \in Amounts : PayBalance(a, DOMAIN periods) \/ \E m \in DOMAIN periods : PayBalance(a, {m})
  BY <1>3, <1>4 DEF PayBalance
<1>5. CASE Settle
  BY <1>3, <1>5 DEF Settle
<1>6. CASE PayInterest
  <2> DEFINE next == InterestRows[InterestNumber].due + 1
             row == Period(Interest(DebtNow.capital), next)
             ps == Append(InterestRows, row)
  <2>1. PICK d, pays : Reconcile(d, ps, pays)
    BY <1>6 DEF PayInterest, InterestRows, InterestNumber
  <2>2. InterestRows[n] = ReconciledNow[n] /\ n \in 1..Len(InterestRows)
    BY <1>1, <1>2, InterestRowsType
  <2>3. InterestRows \in Seq(Record)
    BY <1>2, InterestRowsType
  <2> HIDE DEF row
  <2>4. ps[n] = ReconciledNow[n] /\ n \in DOMAIN ps
    BY <2>2, <2>3
  <2> HIDE DEF ps
  <2> QED
    BY <1>1, <2>1, <2>4, PaidReconciled
<1>7. CASE \E a \in Amounts : PayPrincipal(a)
  <2>1. PICK a \in Amounts : PayPrincipal(a)
    BY <1>7
  <2>2. PICK x, d, pays : Reconcile(d, PrincipalRows(x), pays)
    BY <2>1 DEF PayPrincipal, PrincipalRows, NewInterest
  <2>3. n \notin OpenPeriod(ReconciledNow)
    <3>1. ReconciledNow[n].paid >= ReconciledNow[n].amount
      BY <1>1 DEF PaidThrough
    <3>2. ReconciledNow[n].paid \in Int /\ ReconciledNow[n].amount \in Int
      BY <1>1 DEF Record
    <3> QED
      BY <3>1, <3>2 DEF OpenPeriod
  <2>4. n \in DOMAIN PrincipalRows(x) /\ PrincipalRows(x)[n] = ReconciledNow[n]
    BY <1>1, <1>2, <2>3 DEF PrincipalRows
  <2> QED
    BY <1>1, <2>2, <2>4, PaidReconciled
<1> QED
  BY <1>4, <1>5, <1>6, <1>7 DEF RecordPayment

LEMMA PaidRevert ==
  ASSUME Typed, Typed', NEW n, PaidThrough(n), NEW m \in DOMAIN periods, RevertInstallment(m)
  PROVE  periods'[n].amount = periods[n].amount
<1>1. /\ n \in DOMAIN periods /\ periods[n] \in Record /\ periods[n].amount > 0
      /\ periods[n].amount = periods[n].base + periods[n].penalty
      /\ periods'[n].paid \in Nat /\ periods'[n].paid >= periods[n].amount
  BY PaidFacts
<1>2. CASE Multi
  <2>1. PICK pays : Reconcile(debt, periods, pays)
    BY <1>2 DEF RevertInstallment
  <2> QED
    BY <1>1, <2>1, PaidReconciled
<1>3. CASE ~Multi
  <2> DEFINE ps == SubSeq(periods, 1, m)
  <2>1. PICK d, pays : Reconcile(d, ps, pays)
    BY <1>3 DEF RevertInstallment
  <2>2. periods \in Seq(Record)
    BY LedgerFacts
  <2>3. DOMAIN ps = 1..m /\ \A k \in 1..m : ps[k] = periods[k]
    BY <2>2, FirstRows
  <2>4. DOMAIN periods' = DOMAIN ps
    BY <2>1 DEF Reconcile, ReconciledPeriods
  <2>5. n \in DOMAIN ps /\ ps[n] = periods[n]
    BY <2>3, <2>4 DEF PaidThrough
  <2> HIDE DEF ps
  <2> QED
    BY <1>1, <2>1, <2>5, PaidReconciled
<1> QED
  BY <1>2, <1>3

\* A phone's base, when it is the period's own.
LEMMA PaidEdit ==
  ASSUME Typed, Typed', NEW n, PaidThrough(n), NEW m \in DOMAIN periods, NEW base \in PhoneBases,
         NEW due \in PhoneDues, EditPeriod(m, base, due)
  PROVE  periods'[n].amount = periods[n].amount
<1> DEFINE row == [periods[m] EXCEPT !.base = base, !.amount = base, !.due = due]
           ps == [periods EXCEPT ![m] = row]
<1>1. /\ n \in DOMAIN periods /\ periods[n] \in Record /\ periods[n].amount > 0
      /\ periods[n].amount = periods[n].base + periods[n].penalty
      /\ periods[n].base \in Int /\ periods[n].penalty \in Int /\ periods[n].amount \in Int
      /\ periods'[n].paid \in Nat /\ periods'[n].paid >= periods[n].amount
  BY PaidFacts
<1>2. Reconcile(debt, ps, payments)
  <2>1. ps = [periods EXCEPT ![m].base = base, ![m].amount = base, ![m].due = due]
    OBVIOUS
  <2> QED
    BY <2>1 DEF EditPeriod
<1> HIDE DEF row
<1>3. CASE n # m
  <2>1. n \in DOMAIN ps /\ ps[n] = periods[n]
    BY <1>1, <1>3
  <2> HIDE DEF ps
  <2> QED
    BY <1>1, <1>2, <2>1, PaidReconciled
<1>4. CASE n = m
  <2>1. n \in DOMAIN ps /\ ps[n] = row
    BY <1>1, <1>4
  <2> HIDE DEF ps
  <2>2. periods'[n] = Row(row, PaidOn(n, payments), debt.penaltyRate, today)
    BY <1>2, <2>1 DEF Reconcile, ReconciledPeriods, Row
  <2>3. periods'[n].base = Base(row) /\ periods'[n].paid = PaidOn(n, payments)
    BY <2>2 DEF Row
  <2>4. base \in Nat
    BY TermsAssumption
  <2>5. row.base = base /\ row.amount = base /\ row.penalty = periods[n].penalty
    BY <1>1, <1>4 DEF Record, row
  <2>6. Base(row) = periods[n].base /\ periods[n].penalty >= 0
    BY <2>3 DEF PaidThrough
  <2>7. base # 0
    <3> SUFFICES ASSUME base = 0 PROVE FALSE
      OBVIOUS
    <3>1. Base(row) = -periods[n].penalty
      BY <1>1, <2>5 DEF Base
    <3> QED
      BY <1>1, <2>6, <3>1
  <2>8. base = periods[n].base
    BY <2>5, <2>6, <2>7 DEF Base
  <2>9. Penalty(row, PaidOn(n, payments), debt.penaltyRate, today) = periods[n].penalty
    <3>1. PaidOn(n, payments) >= row.amount /\ row.amount > 0
      BY <1>1, <2>3, <2>4, <2>5, <2>6, <2>7, <2>8
    <3> QED
      BY <2>5, <3>1 DEF Penalty
  <2>10. periods'[n].amount = Base(row) + Penalty(row, PaidOn(n, payments), debt.penaltyRate, today)
    BY <2>2 DEF Row
  <2> QED
    BY <1>1, <2>6, <2>9, <2>10
<1> QED
  BY <1>3, <1>4

\* Every step keeps it.
LEMMA PaidStep ==
  ASSUME Typed, [Next]_vars, NEW n, PaidThrough(n)
  PROVE  periods'[n].amount = periods[n].amount
<1>0. Typed'
  BY TypedStep
<1>1. /\ n \in DOMAIN periods /\ periods[n] \in Record /\ periods[n].amount > 0
      /\ periods[n].amount = periods[n].base + periods[n].penalty
      /\ periods'[n].paid \in Nat /\ periods'[n].paid >= periods[n].amount
  BY <1>0, PaidFacts
<1>2. CASE periods' = periods
  BY <1>2
<1>3. CASE RecordPayment
  BY <1>0, <1>3, PaidPayment
<1>4. CASE \E m \in DOMAIN periods : RevertInstallment(m)
  BY <1>0, <1>4, PaidRevert
<1>5. CASE AssessOverduePenalties \/ ReconcileReport
  <2>1. Reconcile(debt, periods, payments)
    BY <1>5 DEF AssessOverduePenalties, ReconcileReport
  <2> QED
    BY <1>1, <2>1, PaidReconciled
<1>6. CASE \E c \in Clerks : PatchPeriod(c)
  <2>1. PICK c \in Clerks : periods' = [periods EXCEPT ![Len(periods)].due = view[c].due]
    BY <1>6 DEF PatchPeriod
  <2>2. CASE n = Len(periods)
    <3>1. periods'[n] = [periods[n] EXCEPT !.due = view[c].due]
      BY <1>1, <2>1, <2>2
    <3> QED
      BY <1>1, <3>1 DEF Record
  <2>3. CASE n # Len(periods)
    BY <1>1, <2>1, <2>3
  <2> QED
    BY <2>2, <2>3
<1>7. CASE \E m \in DOMAIN periods, base \in PhoneBases, due \in PhoneDues : EditPeriod(m, base, due)
  BY <1>0, <1>7, PaidEdit
<1>8. CASE RepairSave
  <2>1. Reconcile(debt, RepairedRows, payments)
    BY <1>8 DEF RepairSave, RepairedRows
  <2>2. n \in DOMAIN RepairedRows /\ RepairedRows[n] = periods[n]
    BY <1>1 DEF RepairedRows, PaidThrough
  <2> HIDE DEF RepairedRows
  <2> QED
    BY <1>1, <2>1, <2>2, PaidReconciled
<1> QED
  BY <1>2, <1>3, <1>4, <1>5, <1>6, <1>7, <1>8 DEF Next, vars, Patch, PatchRead, PatchSave, PatchStatus, RepairRead, NextDay

\* PaidPeriodsKeepAmount holds of every step: reconcile_debt keeps the amount of a period that is paid.
THEOREM PaidKeepsAmount == Spec => PaidPeriodsKeepAmount
<1> DEFINE Keeps == \A n \in DOMAIN periods \cap DOMAIN periods' :
                      /\ periods[n].amount > 0 /\ periods[n].penalty >= 0 /\ n \notin DOMAIN repair
                      /\ periods[n].paid >= periods[n].amount
                      /\ periods'[n].paid >= periods[n].paid /\ periods'[n].base = periods[n].base
                      => periods'[n].amount = periods[n].amount
<1>1. (Typed /\ RegularInv) /\ [Next]_vars => [Keeps]_vars
  BY PaidStep DEF PaidThrough
<1> QED
  BY <1>1, AlwaysInv, PTL DEF Spec, PaidPeriodsKeepAmount

-----------------------------------------------------------------------------
(* The assessment of penalties.                                            *)

\* The columns of a fresh debt row.
LEMMA FreshColumns ==
  ASSUME Typed, NEW day, debt = ReconciledDebt(debt, periods, payments, day)
  PROVE  LET open == SumOver(periods, Open)
         IN /\ debt.capital = (IF Multi THEN debt.capital ELSE Positive(terms.principal - Principal(payments)))
            /\ debt.outstanding = (IF Multi THEN open ELSE debt.capital + open)
            /\ debt.total = (IF Multi THEN SumOver(periods, LAMBDA p : p.amount) ELSE debt.outstanding)
            /\ debt.collected = Sum(payments)
            /\ debt.status = CurrentStatus(debt.outstanding, debt.due, day)
<1> DEFINE capital == IF Multi THEN debt.capital ELSE Positive(terms.principal - Principal(payments))
           open == SumOver(periods, Open)
           outstanding == IF Multi THEN open ELSE capital + open
           total == IF Multi THEN SumOver(periods, LAMBDA p : p.amount) ELSE outstanding
           collected == Sum(payments)
           status == CurrentStatus(outstanding, debt.due, day)
           e == [debt EXCEPT !.capital = capital, !.total = total, !.collected = collected,
                             !.outstanding = outstanding, !.status = status]
<1>1. debt = e
  BY DEF ReconciledDebt
<1>2. debt \in DebtRow
  BY LedgerFacts
<1> HIDE DEF capital, open, collected
<1>3. e.capital = capital /\ e.total = total /\ e.collected = collected /\ e.outstanding = outstanding
      /\ e.status = status
  <2> HIDE DEF outstanding, total, status
  <2> QED
    BY <1>2 DEF DebtRow
<1> HIDE DEF e
<1>4. /\ debt.capital = capital /\ debt.total = total /\ debt.collected = collected /\ debt.outstanding = outstanding
      /\ debt.status = status
  BY <1>1, <1>3
<1>5. debt.outstanding = (IF Multi THEN open ELSE debt.capital + open)
  BY <1>4
<1>6. debt.total = (IF Multi THEN SumOver(periods, LAMBDA p : p.amount) ELSE debt.outstanding)
  BY <1>4
<1>7. debt.status = CurrentStatus(debt.outstanding, debt.due, day)
  BY <1>4
<1> QED
  BY <1>4, <1>5, <1>6, <1>7 DEF capital, open, collected

\* A period that is open keeps the debt outstanding.
LEMMA OpenOutstanding ==
  ASSUME Typed, Fresh, NEW n \in DOMAIN periods, periods[n].paid < periods[n].amount
  PROVE  debt.outstanding > 0
<1>1. PICK day \in 0..today : debt = ReconciledDebt(debt, periods, payments, day)
  BY DEF Fresh
<1>2. periods \in Seq(Record) /\ debt \in DebtRow
  BY LedgerFacts
<1> DEFINE f == [i \in DOMAIN periods |-> Open(periods[i])]
           open == SumOver(periods, Open)
<1>3. IsFiniteSet(DOMAIN periods) /\ \A i \in DOMAIN periods : f[i] \in Nat
  <2>1. IsFiniteSet(DOMAIN periods)
    BY <1>2, SeqRows
  <2>2. ASSUME NEW i \in DOMAIN periods PROVE f[i] \in Nat
    <3>1. periods[i].paid \in Nat /\ periods[i].amount \in Int
      BY <1>2, RowFields
    <3> QED
      BY <3>1 DEF Open, Positive
  <2> QED
    BY <2>1, <2>2
<1>4. open = SumFunctionOnSet(f, DOMAIN periods)
  BY DEF SumOver, Total, SumFunction
<1>5. f[n] > 0
  <2>1. periods[n].paid \in Nat /\ periods[n].amount \in Int
    BY <1>2, RowFields
  <2> QED
    BY <2>1 DEF Open, Positive
<1> HIDE DEF f
<1>6. open \in Nat /\ f[n] <= open
  BY <1>3, <1>4, SumNat
<1>7. open > 0
  BY <1>3, <1>5, <1>6
<1>8. debt.outstanding = (IF Multi THEN open ELSE debt.capital + open)
  BY <1>1, FreshColumns
<1>9. debt.capital \in Nat
  BY <1>2 DEF DebtRow
<1> HIDE DEF open
<1> QED
  BY <1>6, <1>7, <1>8, <1>9

\* Nothing that assess_overdue_penalties passes over would change.
LEMMA SameRow ==
  ASSUME Typed, Fresh, ~Stale, NEW n \in DOMAIN periods, Sound(periods[n], debt.penaltyRate, today)
  PROVE  ReconciledNow[n] = periods[n]
<1> DEFINE p == periods[n]
           rate == debt.penaltyRate
           pc == Percent(p.base, rate)
           pen == Penalty(p, p.paid, rate, today)
<1>1. /\ TermsTyped /\ LedgerTyped /\ p \in Record /\ p.base \in Int /\ p.penalty \in Int /\ p.amount \in Int
      /\ p.paid \in Nat /\ p.due \in Int /\ today \in Int /\ rate \in Nat
  BY LedgerFacts, RowFields
<1>2. /\ p.amount = p.base + p.penalty /\ p.base >= 0 /\ p.penalty \in {0, pc} /\ (p.penalty # 0 => p.due < today)
      /\ p.paid <= p.amount
  BY DEF Sound, PreSound
<1>3. Base(p) = p.base
  BY <1>1, <1>2, BaseOf
<1>4. ReconciledNow[n] = [base |-> p.base, penalty |-> pen, amount |-> p.base + pen, paid |-> p.paid, due |-> p.due]
  <2>1. ReconciledNow[n] = Row(p, p.paid, rate, today)
    BY <1>1, NowType
  <2> QED
    BY <1>3, <2>1 DEF Row
<1>5. pen = IF p.paid >= p.amount /\ p.amount > 0 THEN p.penalty
            ELSE IF p.due < today /\ p.paid < p.amount THEN pc ELSE 0
  BY <1>3 DEF Penalty
<1>6. pc \in Nat /\ (rate = 0 => pc = 0)
  <2>1. p.base \in Nat /\ rate \in Nat
    BY <1>1, <1>2
  <2> HIDE DEF p, rate
  <2>2. Percent(p.base, rate) \in Nat
    BY <2>1, PercentNat
  <2>3. rate = 0 => Percent(p.base, rate) = 0
    BY <2>1, PercentZero
  <2> QED
    BY <2>2, <2>3
<1>7. p.paid < p.amount /\ p.penalty = 0 /\ p.due < today => rate = 0
  <2> SUFFICES ASSUME p.paid < p.amount, p.penalty = 0, p.due < today, rate > 0 PROVE FALSE
    BY <1>1
  <2>1. debt.outstanding > 0
    BY OpenOutstanding
  <2> QED
    BY <2>1 DEF Stale
<1>8. p = [base |-> p.base, penalty |-> p.penalty, amount |-> p.amount, paid |-> p.paid, due |-> p.due]
  BY <1>1 DEF Record
<1> HIDE DEF pen, pc, p, rate
<1>9. pen = p.penalty
  BY <1>1, <1>2, <1>5, <1>6, <1>7
<1>10. p.base + pen = p.amount
  BY <1>2, <1>9
<1> QED
  BY <1>4, <1>8, <1>9, <1>10 DEF p

\* The invariant implies AssessmentMissesNothing.
LEMMA NothingMissed == ASSUME Typed, RegularInv PROVE AssessmentMissesNothing
<1> SUFFICES ASSUME Regular, ~Stale PROVE periods = ReconciledNow /\ debt = DebtNow
  BY DEF AssessmentMissesNothing, AsReconciled
<1>1. Fresh /\ \A n \in DOMAIN periods : Sound(periods[n], debt.penaltyRate, today)
  BY DEF RegularInv
<1>2. /\ TermsTyped /\ LedgerTyped /\ DOMAIN periods = 1..Len(periods) /\ periods \in Seq(Record) /\ debt \in DebtRow
      /\ today \in Nat
  BY LedgerFacts
<1>3. \A n \in DOMAIN periods : ReconciledNow[n] = periods[n]
  BY <1>1, SameRow
<1>4. periods = ReconciledNow
  <2>1. ReconciledNow \in Seq(Record) /\ Len(ReconciledNow) = Len(periods)
    BY <1>2, NowType
  <2> QED
    BY <1>2, <1>3, <2>1, SeqEqual
<1>5. PICK day \in 0..today : debt = ReconciledDebt(debt, periods, payments, day)
  BY <1>1 DEF Fresh
<1>6. debt.status = CurrentStatus(debt.outstanding, debt.due, day)
  BY <1>5, FreshColumns
<1>7. CurrentStatus(debt.outstanding, debt.due, day) = CurrentStatus(debt.outstanding, debt.due, today)
  <2>1. debt.outstanding \in Nat /\ debt.due \in Int
    BY <1>2 DEF DebtRow
  <2>2. ~(debt.outstanding > 0 /\ debt.due < today /\ debt.status # "overdue")
    BY DEF Stale
  <2> QED
    BY <1>2, <1>6, <2>1, <2>2 DEF CurrentStatus
<1>8. ReconciledDebt(debt, periods, payments, today) = debt
  <2> DEFINE open == SumOver(periods, Open)
             capital == IF Multi THEN debt.capital ELSE Positive(terms.principal - Principal(payments))
             outstanding == IF Multi THEN open ELSE capital + open
             total == IF Multi THEN SumOver(periods, LAMBDA p : p.amount) ELSE outstanding
  <2>1. /\ debt.capital = capital /\ debt.outstanding = (IF Multi THEN open ELSE debt.capital + open)
        /\ debt.total = (IF Multi THEN SumOver(periods, LAMBDA p : p.amount) ELSE debt.outstanding)
        /\ debt.collected = Sum(payments)
    BY <1>5, FreshColumns
  <2>2. ReconciledDebt(debt, periods, payments, today) =
          [debt EXCEPT !.capital = capital, !.total = total, !.collected = Sum(payments),
                       !.outstanding = outstanding, !.status = CurrentStatus(outstanding, debt.due, today)]
    BY DEF ReconciledDebt
  <2> HIDE DEF capital, open
  <2>3. debt.outstanding = outstanding /\ debt.total = total
    BY <2>1
  <2> HIDE DEF outstanding, total
  <2> DEFINE status == CurrentStatus(outstanding, debt.due, today)
             collected == Sum(payments)
  <2>4. debt.status = status
    BY <1>6, <1>7, <2>3
  <2>5. debt.collected = collected
    BY <2>1
  <2>6. ReconciledDebt(debt, periods, payments, today) =
          [debt EXCEPT !.capital = capital, !.total = total, !.collected = collected,
                       !.outstanding = outstanding, !.status = status]
    BY <2>2
  <2>7. debt.capital = capital
    BY <2>1
  <2> HIDE DEF status, collected
  <2> QED
    BY <1>2, <2>3, <2>4, <2>5, <2>6, <2>7 DEF DebtRow
<1> QED
  BY <1>4, <1>8 DEF DebtNow

\* AssessmentMissesNothing always holds: the debts assess_overdue_penalties passes over are as a
\* reconciliation would leave them.
THEOREM AssessmentComplete == Spec => []AssessmentMissesNothing
BY AlwaysInv, NothingMissed, PTL

-----------------------------------------------------------------------------
(* The books balance.                                                      *)

\* The sum over the periods of what is paid of them is the sum of their payments.
LEMMA PaidTotal ==
  ASSUME Typed, NEW f, f = [n \in DOMAIN periods |-> periods[n].paid]
  PROVE  SumFunctionOnSet(f, DOMAIN periods) = Sum({p \in payments : p.number \in DOMAIN periods})
<1> DEFINE N == Len(periods)
           S == payments
           a == [p \in S |-> p.amount]
           key == [p \in S |-> p.number]
           of == [k \in 1..N |-> {p \in S : p.number = k}]
<1>1. /\ LedgerTyped /\ N \in Nat /\ DOMAIN periods = 1..N /\ IsFiniteSet(S) /\ \A p \in S : p.amount \in Nat
  BY LedgerFacts
<1>2. \A p \in S : a[p] = p.amount /\ a[p] \in Int /\ key[p] = p.number
  BY <1>1
<1>3. ASSUME NEW k \in 1..N
      PROVE  f[k] = SumFunctionOnSet(a, of[k]) /\ \A x : x \in of[k] <=> x \in S /\ key[x] = k
  <2> DEFINE T == {p \in S : p.number = k}
  <2>1. f[k] = PaidOn(k, S)
    BY <1>1 DEF LedgerTyped
  <2>2. PaidOn(k, S) = Sum(T)
    BY DEF PaidOn
  <2>3. IsFiniteSet(T) /\ \A p \in T : a[p] = p.amount
    BY <1>1, <1>2, FS_Subset
  <2>4. T = of[k] /\ \A x : x \in of[k] <=> x \in S /\ key[x] = k
    BY <1>2
  <2> HIDE DEF T, a, of
  <2>5. Sum(T) = SumFunctionOnSet(a, T)
    BY <2>3, SumAmounts
  <2> QED
    BY <2>1, <2>2, <2>4, <2>5
<1> DEFINE R == {p \in S : p.number \in 1..N}
<1>4. \A x : x \in R <=> x \in S /\ key[x] \in 1..N
  BY <1>2
<1>5. IsFiniteSet(R) /\ \A p \in R : a[p] = p.amount
  BY <1>1, <1>2, FS_Subset
<1> HIDE DEF a, key, of, R
<1>6. SumFunctionOnSet(f, 1..N) = SumFunctionOnSet(a, R)
  <2>1. IsFiniteSet(S) /\ (\A p \in S : a[p] \in Int) /\ N \in Nat
    BY <1>1, <1>2
  <2>2. \A k \in 1..N : f[k] = SumFunctionOnSet(a, of[k]) /\ \A x : x \in of[k] <=> x \in S /\ key[x] = k
    BY <1>3
  <2>3. ByKey(a, key, S, f, N, of, R)
    BY <1>4, <2>1, <2>2 DEF ByKey
  <2> QED
    BY <2>1, <2>3, SumByKey
<1>7. Sum(R) = SumFunctionOnSet(a, R)
  BY <1>5, SumAmounts
<1> QED
  BY <1>1, <1>6, <1>7 DEF R

\* The columns of the periods, added up.
LEMMA ColumnsAdd ==
  ASSUME Typed, \A n \in DOMAIN periods : periods[n].paid <= periods[n].amount
  PROVE  /\ SumOver(periods, LAMBDA p : p.amount) =
              SumOver(periods, Open) + Sum({p \in payments : p.number \in DOMAIN periods})
         /\ SumOver(periods, LAMBDA p : p.amount) = Total(Bases(periods)) + SumOver(periods, LAMBDA p : p.penalty)
         /\ Sum({p \in payments : p.number \in DOMAIN periods}) \in Nat
<1> DEFINE D == DOMAIN periods
           amount == [n \in D |-> periods[n].amount]
           open == [n \in D |-> Open(periods[n])]
           paid == [n \in D |-> periods[n].paid]
           base == Bases(periods)
           penalty == [n \in D |-> periods[n].penalty]
<1>1. /\ LedgerTyped /\ periods \in Seq(Record) /\ IsFiniteSet(D) /\ IsFiniteSet(payments)
      /\ \A p \in payments : p.amount \in Nat
  BY LedgerFacts, SeqRows
<1>2. ASSUME NEW n \in D
      PROVE  /\ open[n] \in Int /\ paid[n] \in Int /\ amount[n] = open[n] + paid[n]
             /\ base[n] \in Int /\ penalty[n] \in Int /\ amount[n] = base[n] + penalty[n]
  <2>1. /\ periods[n] \in Record /\ periods[n].base \in Int /\ periods[n].penalty \in Int /\ periods[n].amount \in Int
        /\ periods[n].paid \in Nat
    BY <1>1, RowFields
  <2>2. periods[n].amount = periods[n].base + periods[n].penalty /\ periods[n].paid <= periods[n].amount
    BY <1>1 DEF LedgerTyped
  <2>3. base[n] = periods[n].base
    BY <2>1, <2>2, BaseOf DEF Bases
  <2>4. Open(periods[n]) = periods[n].amount - periods[n].paid
    BY <2>1, <2>2 DEF Open, Positive
  <2> QED
    BY <2>1, <2>2, <2>3, <2>4
<1>3. /\ SumOver(periods, LAMBDA p : p.amount) = SumFunctionOnSet(amount, D)
      /\ SumOver(periods, Open) = SumFunctionOnSet(open, D)
      /\ SumOver(periods, LAMBDA p : p.penalty) = SumFunctionOnSet(penalty, D)
      /\ Total(base) = SumFunctionOnSet(base, D)
  BY DEF SumOver, Total, SumFunction, Bases
<1>4. SumFunctionOnSet(paid, D) = Sum({p \in payments : p.number \in D})
  BY PaidTotal
<1> HIDE DEF amount, open, paid, base, penalty
<1>5. SumFunctionOnSet(amount, D) = SumFunctionOnSet(open, D) + SumFunctionOnSet(paid, D)
  BY <1>1, <1>2, SumPlus
<1>6. SumFunctionOnSet(amount, D) = SumFunctionOnSet(base, D) + SumFunctionOnSet(penalty, D)
  BY <1>1, <1>2, SumPlus
<1>7. Sum({p \in payments : p.number \in D}) \in Nat
  <2> DEFINE R == {p \in payments : p.number \in D}
  <2>1. IsFiniteSet(R) /\ \A p \in R : p.amount \in Nat
    BY <1>1, FS_Subset
  <2> HIDE DEF R
  <2>2. Sum(R) \in Nat
    BY <2>1, SumType
  <2> QED
    BY <2>2 DEF R
<1> QED
  BY <1>3, <1>4, <1>5, <1>6, <1>7 DEF base

\* Rounding every share by itself goes astray by at most a cent per share.
LEMMA OldDrift ==
  ASSUME NEW total \in Nat, NEW n \in Nat \ {0}
  PROVE  -n <= Rounded(total, n) * n - total /\ Rounded(total, n) * n - total <= n
<1> DEFINE q == Rounded(total, n)
           a == 2 * total + n
           b == 2 * n
<1>1. a \in Int /\ b \in Nat \ {0} /\ q = a \div b
  BY DEF Rounded
<1>2. b * (a \div b) <= a /\ a < b * (a \div b) + b
  <2> HIDE DEF a, b
  <2> QED
    BY <1>1, DivLow, DivHigh
<1>3. q \in Int
  BY RoundedNat
<1>4. b * q <= a /\ a < b * q + b
  BY <1>1, <1>2
<1> HIDE DEF q
<1>5. b * q = 2 * (q * n) /\ q * n \in Int
  BY <1>3
<1>6. 2 * (q * n) <= 2 * total + n /\ 2 * total + n < 2 * (q * n) + 2 * n
  BY <1>4, <1>5
<1> DEFINE x == q * n
<1>7. x \in Int
  BY <1>5
<1> HIDE DEF x
<1>8. -n <= x - total /\ x - total <= n
  BY <1>6, <1>7 DEF x
<1> QED
  BY <1>8 DEF x, q

\* The bases of a regular loan add up to what is expected, but for the rounding of old loans.
LEMMA ShapeTotal ==
  ASSUME Typed, Shape
  PROVE  WithinRounding(Total(Bases(periods)) - Expected) /\ Total(Bases(periods)) \in Int /\ Expected \in Nat
<1>1. TermsTyped /\ LedgerTyped /\ Len(periods) \in Nat \ {0}
  BY LedgerFacts
<1>2. Expected \in Nat
  BY <1>1, ExpectedType
<1>3. CASE Shaped(Bases(periods), Len(periods))
  <2>1. Total(Bases(periods)) = Expected
    BY <1>1, <1>3, ShapedTotal
  <2> QED
    BY <1>2, <2>1 DEF WithinRounding
<1>4. CASE terms.rounding = "cents" /\ \A n \in DOMAIN periods : periods[n].base = OldBase(Len(periods))
  <2>1. Total(Bases(periods)) = OldBase(Len(periods)) * Len(periods) /\ OldBase(Len(periods)) \in Nat
    BY <1>1, <1>4, OldTotal
  <2>2. OldBase(Len(periods)) = Rounded(Expected, Len(periods))
    BY DEF OldBase
  <2>3. /\ -Len(periods) <= Total(Bases(periods)) - Expected
        /\ Total(Bases(periods)) - Expected <= Len(periods)
    BY <1>1, <1>2, <2>1, <2>2, OldDrift
  <2>4. Total(Bases(periods)) \in Int
    BY <1>1, <2>1
  <2> QED
    BY <1>2, <1>4, <2>3, <2>4 DEF WithinRounding
<1> QED
  BY <1>3, <1>4 DEF Shape

\* The invariant implies BooksBalance.
LEMMA BooksStay == ASSUME Typed, RegularInv PROVE BooksBalance
<1> SUFFICES ASSUME Regular
             PROVE  IF Multi
                    THEN LET drift == debt.total - (Expected + SumOver(periods, LAMBDA p : p.penalty))
                         IN /\ debt.collected + debt.outstanding = debt.total
                            /\ WithinRounding(drift)
                    ELSE /\ debt.capital + Principal(payments) = terms.principal
                         /\ debt.collected = Sum(payments)
  BY DEF BooksBalance
<1>1. PICK day \in 0..today : debt = ReconciledDebt(debt, periods, payments, day)
  BY DEF RegularInv, Fresh
<1> DEFINE open == SumOver(periods, Open)
           amounts == SumOver(periods, LAMBDA p : p.amount)
           penalties == SumOver(periods, LAMBDA p : p.penalty)
<1>2. /\ debt.capital = (IF Multi THEN debt.capital ELSE Positive(terms.principal - Principal(payments)))
      /\ debt.outstanding = (IF Multi THEN open ELSE debt.capital + open)
      /\ debt.total = (IF Multi THEN amounts ELSE debt.outstanding)
      /\ debt.collected = Sum(payments)
  BY <1>1, FreshColumns
<1>3. /\ TermsTyped /\ LedgerTyped /\ periods \in Seq(Record) /\ DOMAIN periods = 1..Len(periods)
      /\ IsFiniteSet(payments) /\ (\A p \in payments : p.amount \in Nat) /\ payments \subseteq Paid(ops, Len(periods))
  BY LedgerFacts
<1>4. CASE Multi
  <2>1. \A n \in DOMAIN periods : periods[n].paid <= periods[n].amount
    BY DEF RegularInv, Sound
  <2>2. {p \in payments : p.number \in DOMAIN periods} = payments
    <3> SUFFICES ASSUME NEW p \in payments PROVE p.number \in 1..Len(periods)
      BY <1>3
    <3>1. p.number > 0
      BY <1>3, <1>4 DEF LedgerTyped
    <3>2. p.number \in 0..Len(periods)
      BY <1>3 DEF Paid
    <3> QED
      BY <3>1, <3>2
  <2>3. /\ amounts = open + Sum(payments) /\ amounts = Total(Bases(periods)) + penalties /\ Sum(payments) \in Nat
    BY <2>1, <2>2, ColumnsAdd
  <2>4. WithinRounding(Total(Bases(periods)) - Expected) /\ Total(Bases(periods)) \in Int /\ Expected \in Nat
    BY <1>4, ShapeTotal DEF RegularInv, MultiInv
  <2>5. open \in Nat /\ penalties \in Int
    BY <1>3, OverType
  <2> HIDE DEF open, amounts, penalties
  <2>6. debt.collected + debt.outstanding = debt.total
    BY <1>2, <1>4, <2>3, <2>5
  <2>7. debt.total - (Expected + penalties) = Total(Bases(periods)) - Expected
    BY <1>2, <1>4, <2>3, <2>4, <2>5
  <2>8. WithinRounding(debt.total - (Expected + penalties))
    BY <2>4, <2>7
  <2> QED
    BY <1>4, <2>6, <2>8 DEF penalties
<1>5. CASE ~Multi
  <2>1. Principal(payments) <= terms.principal
    BY <1>5 DEF RegularInv, SingleInv
  <2>2. Principal(payments) \in Nat /\ terms.principal \in Nat
    BY <1>3, PrincipalType DEF TermsTyped
  <2>3. debt.capital = Positive(terms.principal - Principal(payments))
    BY <1>2, <1>5
  <2>4. debt.capital + Principal(payments) = terms.principal
    BY <2>1, <2>2, <2>3 DEF Positive
  <2> QED
    BY <1>2, <1>5, <2>4
<1> QED
  BY <1>4, <1>5

\* BooksBalance always holds: collected and outstanding are the principal, its interest and the
\* penalties, to the cent, or to a cent per period for loans made before whole units.
THEOREM BooksAlwaysBalance == Spec => []BooksBalance
BY AlwaysInv, BooksStay, PTL

-----------------------------------------------------------------------------
(* Sharing out capital and interest.                                       *)

\* What each of n steps takes of what is left.
Taking(n) == [(1..n) \X Int -> Int]

\* What is left after each of n steps that take a part of it.
Leaves(left, start, n, take) ==
  /\ DOMAIN left = 0..n /\ left[0] = start
  /\ \A i \in 1..n : left[i] = left[i - 1] - take[<<i, left[i - 1]>>]

\* Taking from what is left, step by step, is well defined.
LEMMA LeftExists ==
  ASSUME NEW n \in Nat, NEW start \in Int, NEW take \in Taking(n)
  PROVE  \E left \in [0..n -> Int] : Leaves(left, start, n, take)
<1>0. \A i \in 1..n, x \in Int : take[<<i, x>>] \in Int
  BY DEF Taking
<1> DEFINE Up(k, left) == left[0] = start /\ \A i \in 1..k : left[i] = left[i - 1] - take[<<i, left[i - 1]>>]
           G == {k \in Nat : k <= n => \E left \in [0..k -> Int] : Up(k, left)}
<1>1. 0 \in G
  <2>1. [i \in 0..0 |-> start] \in [0..0 -> Int] /\ Up(0, [i \in 0..0 |-> start])
    OBVIOUS
  <2> QED
    BY <2>1
<1>2. ASSUME NEW k \in Nat, k \in G PROVE k + 1 \in G
  <2> SUFFICES ASSUME k + 1 <= n PROVE \E left \in [0..(k + 1) -> Int] : Up(k + 1, left)
    OBVIOUS
  <2>1. PICK left \in [0..k -> Int] : Up(k, left)
    BY <1>2
  <2>2. left[k] \in Int /\ k + 1 \in 1..n
    OBVIOUS
  <2> DEFINE x == left[k] - take[<<k + 1, left[k]>>]
             new == [i \in 0..(k + 1) |-> IF i = k + 1 THEN x ELSE left[i]]
  <2>3. x \in Int
    BY <1>0, <2>2
  <2> HIDE DEF x
  <2>4. new \in [0..(k + 1) -> Int]
    BY <2>3
  <2>5. new[0] = start /\ \A i \in 0..k : new[i] = left[i]
    BY <2>1
  <2>6. new[k + 1] = x
    OBVIOUS
  <2> HIDE DEF new
  <2>7. ASSUME NEW i \in 1..(k + 1) PROVE new[i] = new[i - 1] - take[<<i, new[i - 1]>>]
    <3>1. CASE i = k + 1
      <4>1. i - 1 = k /\ new[k] = left[k]
        BY <2>5, <3>1
      <4> QED
        BY <2>6, <3>1, <4>1 DEF x
    <3>2. CASE i # k + 1
      <4>1. i \in 1..k /\ i - 1 \in 0..k /\ i \in 0..k
        BY <3>2
      <4> QED
        BY <2>1, <2>5, <4>1
    <3> QED
      BY <3>1, <3>2
  <2> QED
    BY <2>4, <2>5, <2>7
<1> HIDE DEF G
<1>3. n \in G
  BY <1>1, <1>2, UpFromZero
<1>4. PICK left \in [0..n -> Int] : Up(n, left)
  BY <1>3 DEF G
<1> QED
  BY <1>4 DEF Leaves

LeavesNumbers(left, n, take) ==
  /\ \A i \in 0..n : left[i] \in Int
  /\ \A i \in 1..n : left[i - 1] \in Int /\ left[i] = left[i - 1] - take[<<i, left[i - 1]>>]

\* What is left is a number at every step.
LEMMA LeftType ==
  ASSUME NEW n \in Nat, NEW start \in Int, NEW take \in Taking(n), NEW left, Leaves(left, start, n, take)
  PROVE  LeavesNumbers(left, n, take)
<1> DEFINE G == {k \in Nat : k <= n => left[k] \in Int}
<1>0. \A i \in 1..n, x \in Int : take[<<i, x>>] \in Int
  BY DEF Taking
<1>1. 0 \in G
  BY DEF Leaves
<1>2. ASSUME NEW k \in Nat, k \in G PROVE k + 1 \in G
  <2> SUFFICES ASSUME k + 1 <= n PROVE left[k + 1] \in Int
    OBVIOUS
  <2>1. left[k] \in Int /\ k + 1 \in 1..n /\ (k + 1) - 1 = k
    BY <1>2
  <2>2. left[k + 1] = left[k] - take[<<k + 1, left[k]>>]
    BY <2>1 DEF Leaves
  <2> QED
    BY <1>0, <2>1, <2>2
<1>3. \A i \in Nat : i \in G => (i <= n => left[i] \in Int)
  OBVIOUS
<1> HIDE DEF G
<1>4. \A i \in Nat : i \in G
  BY <1>1, <1>2, UpFromZero
<1>5. \A i \in 0..n : left[i] \in Int
  BY <1>3, <1>4
<1>6. \A i \in 1..n : i - 1 \in 0..n
  OBVIOUS
<1> QED
  BY <1>5, <1>6 DEF Leaves, LeavesNumbers

Taken(part, left, n, take) == \A i \in 1..n : part[i] = take[<<i, left[i - 1]>>]

\* What was taken is what is not left.
LEMMA TakenSum ==
  ASSUME NEW n \in Nat, NEW start \in Int, NEW take \in Taking(n), NEW left, Leaves(left, start, n, take),
         NEW part, Taken(part, left, n, take)
  PROVE  \A k \in 0..n : SumFunctionOnSet(part, 1..k) = start - left[k]
<1>1. /\ \A i \in 0..n : left[i] \in Int
      /\ \A i \in 1..n : left[i - 1] \in Int /\ left[i] = left[i - 1] - take[<<i, left[i - 1]>>]
  BY LeftType DEF LeavesNumbers
<1>2. \A i \in 1..n : part[i] \in Int /\ part[i] = left[i - 1] - left[i]
  <2> TAKE i \in 1..n
  <2>1. left[i - 1] \in Int /\ take[<<i, left[i - 1]>>] \in Int
    BY <1>1 DEF Taking
  <2>2. part[i] = take[<<i, left[i - 1]>>]
    BY DEF Taken
  <2> QED
    BY <1>1, <2>1, <2>2
<1> DEFINE G == {k \in Nat : k <= n => SumFunctionOnSet(part, 1..k) = start - left[k]}
<1>3. 0 \in G
  <2>1. 1..0 = {}
    OBVIOUS
  <2>2. SumFunctionOnSet(part, 1..0) = 0
    BY <2>1, SumEmpty
  <2>3. left[0] = start
    BY DEF Leaves
  <2> QED
    BY <2>2, <2>3
<1>4. ASSUME NEW k \in Nat, k \in G PROVE k + 1 \in G
  <2> SUFFICES ASSUME k + 1 <= n PROVE SumFunctionOnSet(part, 1..(k + 1)) = start - left[k + 1]
    OBVIOUS
  <2>1. SumFunctionOnSet(part, 1..k) = start - left[k]
    BY <1>4
  <2>2. \A i \in 1..(k + 1) : part[i] \in Int
    BY <1>2
  <2>3. SumFunctionOnSet(part, 1..(k + 1)) = SumFunctionOnSet(part, 1..k) + part[k + 1]
    BY <2>2, SumStep
  <2>4. k + 1 \in 1..n /\ (k + 1) - 1 = k /\ left[k] \in Int /\ left[k + 1] \in Int
    BY <1>1
  <2>5. part[k + 1] = left[k] - left[k + 1]
    BY <1>2, <2>4
  <2> QED
    BY <2>1, <2>3, <2>4, <2>5
<1>5. \A i \in Nat : i \in G => (i <= n => SumFunctionOnSet(part, 1..i) = start - left[i])
  OBVIOUS
<1> HIDE DEF G
<1>6. \A i \in Nat : i \in G
  BY <1>3, <1>4, UpFromZero
<1> QED
  BY <1>5, <1>6

\* What is left, when each step is known to take a part of a number.
LEMMA LeavesFrom ==
  ASSUME NEW n \in Nat, NEW start \in Int, NEW take \in Taking(n), NEW left, DOMAIN left = 0..n,
         left[0] = start, \A i \in 1..n : left[i - 1] \in Int => left[i] = left[i - 1] - take[<<i, left[i - 1]>>]
  PROVE  Leaves(left, start, n, take)
<1> DEFINE G == {k \in Nat : k <= n => left[k] \in Int}
<1>0. \A i \in 1..n, x \in Int : take[<<i, x>>] \in Int
  BY DEF Taking
<1>1. 0 \in G
  OBVIOUS
<1>2. ASSUME NEW k \in Nat, k \in G PROVE k + 1 \in G
  <2> SUFFICES ASSUME k + 1 <= n PROVE left[k + 1] \in Int
    OBVIOUS
  <2>1. left[k] \in Int /\ k + 1 \in 1..n /\ (k + 1) - 1 = k
    BY <1>2
  <2>2. left[k + 1] = left[k] - take[<<k + 1, left[k]>>]
    BY <2>1
  <2> QED
    BY <1>0, <2>1, <2>2
<1>3. \A i \in Nat : i \in G => (i <= n => left[i] \in Int)
  OBVIOUS
<1> HIDE DEF G
<1>4. \A i \in Nat : i \in G
  BY <1>1, <1>2, UpFromZero
<1>5. \A i \in 1..n : left[i - 1] \in Int
  BY <1>3, <1>4
<1> QED
  BY <1>5 DEF Leaves

\* Filling the periods with capital puts all of it into them, or as much as they hold.
LEMMA FilledSum ==
  ASSUME NEW principal \in Nat, NEW bases, NEW n \in Nat, n = Len(bases), bases \in [1..n -> Nat],
         NEW part, part = Filled(principal, bases)
  PROVE  /\ DOMAIN part = 1..n /\ \A i \in 1..n : part[i] \in Nat /\ part[i] <= bases[i]
         /\ SumFunctionOnSet(part, 1..n) = Lesser(principal, Total(bases))
<1> DEFINE take == [q \in (1..n) \X Int |-> Lesser(bases[q[1]], q[2])]
           left == CHOOSE f : f = [i \in 0..n |-> IF i = 0 THEN principal ELSE f[i - 1] - Lesser(bases[i], f[i - 1])]
<1>1. take \in Taking(n) /\ principal \in Int
  BY DEF Lesser, Taking
<1>2. \A i \in 1..n, x \in Int : take[<<i, x>>] = Lesser(bases[i], x)
  OBVIOUS
<1> HIDE DEF take
<1>3. PICK l \in [0..n -> Int] : Leaves(l, principal, n, take)
  BY <1>1, LeftExists
<1>4. l = [i \in 0..n |-> IF i = 0 THEN principal ELSE l[i - 1] - Lesser(bases[i], l[i - 1])]
  <2>1. \A i \in 1..n : i - 1 \in 0..n /\ l[i - 1] \in Int
    OBVIOUS
  <2>2. \A i \in 0..n : l[i] = IF i = 0 THEN principal ELSE l[i - 1] - Lesser(bases[i], l[i - 1])
    <3> TAKE i \in 0..n
    <3>1. CASE i = 0
      BY <1>3, <3>1 DEF Leaves
    <3>2. CASE i # 0
      <4>1. i \in 1..n /\ l[i - 1] \in Int
        BY <2>1, <3>2
      <4>2. l[i] = l[i - 1] - take[<<i, l[i - 1]>>]
        BY <1>3, <4>1 DEF Leaves
      <4> QED
        BY <1>2, <3>2, <4>1, <4>2
    <3> QED
      BY <3>1, <3>2
  <2> QED
    BY <2>2
<1>5. left = [i \in 0..n |-> IF i = 0 THEN principal ELSE left[i - 1] - Lesser(bases[i], left[i - 1])]
  BY <1>4
<1>6. part = [i \in DOMAIN bases |-> Lesser(bases[i], left[i - 1])]
  BY DEF Filled
<1> HIDE DEF left
<1>7. Leaves(left, principal, n, take)
  <2>1. DOMAIN left = 0..n /\ left[0] = principal
    BY <1>5
  <2>2. ASSUME NEW i \in 1..n, left[i - 1] \in Int PROVE left[i] = left[i - 1] - take[<<i, left[i - 1]>>]
    <3>1. left[i] = left[i - 1] - Lesser(bases[i], left[i - 1])
      BY <1>5
    <3> QED
      BY <1>2, <2>2, <3>1
  <2> QED
    BY <1>1, <2>1, <2>2, LeavesFrom
<1>8. /\ \A i \in 0..n : left[i] \in Int
      /\ \A i \in 1..n : left[i - 1] \in Int /\ left[i] = left[i - 1] - Lesser(bases[i], left[i - 1])
                         /\ part[i] = Lesser(bases[i], left[i - 1]) /\ part[i] = take[<<i, left[i - 1]>>]
  <2>1. /\ \A i \in 0..n : left[i] \in Int
        /\ \A i \in 1..n : left[i - 1] \in Int /\ left[i] = left[i - 1] - take[<<i, left[i - 1]>>]
    <3>1. LeavesNumbers(left, n, take)
      BY <1>1, <1>7, LeftType
    <3> QED
      BY <3>1 DEF LeavesNumbers
  <2>2. \A i \in 1..n : part[i] = Lesser(bases[i], left[i - 1])
    BY <1>6
  <2> QED
    BY <1>2, <2>1, <2>2
<1>9. \A k \in 0..n : SumFunctionOnSet(part, 1..k) = principal - left[k]
  <2>1. Taken(part, left, n, take)
    BY <1>8 DEF Taken
  <2> QED
    BY <1>1, <1>7, <2>1, TakenSum
<1> DEFINE due(k) == principal - SumFunctionOnSet(bases, 1..k)
           G == {k \in Nat : k <= n => SumFunctionOnSet(bases, 1..k) \in Int /\ left[k] = Positive(due(k))}
<1>10. 0 \in G
  <2>1. 1..0 = {}
    OBVIOUS
  <2>2. SumFunctionOnSet(bases, 1..0) = 0
    BY <2>1, SumEmpty
  <2>3. left[0] = principal
    BY <1>7 DEF Leaves
  <2> QED
    BY <2>2, <2>3 DEF Positive
<1>11. ASSUME NEW k \in Nat, k \in G PROVE k + 1 \in G
  <2> SUFFICES ASSUME k + 1 <= n
               PROVE  SumFunctionOnSet(bases, 1..(k + 1)) \in Int /\ left[k + 1] = Positive(due(k + 1))
    OBVIOUS
  <2>1. SumFunctionOnSet(bases, 1..k) \in Int /\ left[k] = Positive(due(k))
    BY <1>11
  <2>2. \A i \in 1..(k + 1) : bases[i] \in Int
    OBVIOUS
  <2>3. SumFunctionOnSet(bases, 1..(k + 1)) = SumFunctionOnSet(bases, 1..k) + bases[k + 1]
    BY <2>2, SumStep
  <2>4. k + 1 \in 1..n /\ (k + 1) - 1 = k
    OBVIOUS
  <2>5. left[k + 1] = left[k] - Lesser(bases[k + 1], left[k]) /\ bases[k + 1] \in Nat
    BY <1>8, <2>4
  <2> DEFINE s == SumFunctionOnSet(bases, 1..k)
             b == bases[k + 1]
  <2>6. due(k) = principal - s /\ due(k + 1) = principal - (s + b)
    BY <2>3
  <2> HIDE DEF due, s, b
  <2>7. left[k + 1] = Positive(principal - (s + b))
    <3>1. left[k] = Positive(principal - s) /\ s \in Int /\ b \in Nat /\ left[k + 1] = left[k] - Lesser(b, left[k])
      BY <2>1, <2>5, <2>6 DEF s, b
    <3> QED
      BY <3>1 DEF Positive, Lesser
  <2>8. SumFunctionOnSet(bases, 1..(k + 1)) \in Int
    BY <2>1, <2>3, <2>5
  <2> QED
    BY <2>6, <2>7, <2>8
<1>12. \A k \in Nat : k \in G => (k <= n => SumFunctionOnSet(bases, 1..k) \in Int /\ left[k] = Positive(due(k)))
  OBVIOUS
<1> HIDE DEF G, due
<1>13. \A k \in Nat : k \in G
  BY <1>10, <1>11, UpFromZero
<1>14. \A i \in 0..n : left[i] >= 0
  <2> TAKE i \in 0..n
  <2>1. SumFunctionOnSet(bases, 1..i) \in Int /\ left[i] = Positive(due(i))
    BY <1>12, <1>13
  <2> QED
    BY <2>1 DEF Positive, due
<1>15. ASSUME NEW i \in 1..n PROVE part[i] \in Nat /\ part[i] <= bases[i]
  <2>1. i - 1 \in 0..n /\ bases[i] \in Nat
    OBVIOUS
  <2>2. left[i - 1] \in Int /\ left[i - 1] >= 0 /\ part[i] = Lesser(bases[i], left[i - 1])
    BY <1>8, <1>14, <2>1
  <2> QED
    BY <2>1, <2>2 DEF Lesser
<1>16. SumFunctionOnSet(part, 1..n) = Lesser(principal, Total(bases))
  <2> DEFINE s == SumFunctionOnSet(bases, 1..n)
  <2>1. s \in Int /\ left[n] = Positive(principal - s)
    BY <1>12, <1>13 DEF due
  <2>2. SumFunctionOnSet(part, 1..n) = principal - left[n]
    BY <1>9
  <2>3. Total(bases) = s
    BY DEF Total, SumFunction
  <2> HIDE DEF s
  <2> QED
    BY <2>1, <2>2, <2>3 DEF Positive, Lesser
<1> QED
  BY <1>6, <1>15, <1>16

\* What share_out gives period i of n when x is left and its share is s[i].
SharePart(s, n, i, x) == IF i = n THEN x ELSE Positive(Lesser(s[i], x))
SharesLeft(left, interest, s, n) ==
  /\ DOMAIN left = 0..n /\ left[0] = interest
  /\ \A i \in 1..n : left[i] = left[i - 1] - SharePart(s, n, i, left[i - 1])

\* What share_out gives a period is a number.
LEMMA SharePartType ==
  ASSUME NEW n \in Nat \ {0}, NEW s \in [1..n -> Int]
  PROVE  \E take \in Taking(n) : \A i \in 1..n, x \in Int : take[<<i, x>>] = SharePart(s, n, i, x)
<1> DEFINE take == [q \in (1..n) \X Int |-> SharePart(s, n, q[1], q[2])]
<1>1. \A i \in 1..n, x \in Int : SharePart(s, n, i, x) \in Int
  BY DEF SharePart, Positive, Lesser
<1>2. take \in Taking(n)
  BY <1>1 DEF Taking
<1>3. \A i \in 1..n, x \in Int : take[<<i, x>>] = SharePart(s, n, i, x)
  OBVIOUS
<1> QED
  BY <1>2, <1>3

\* The shares are well defined.
LEMMA SharesExist ==
  ASSUME NEW n \in Nat \ {0}, NEW interest \in Int, NEW s \in [1..n -> Int]
  PROVE  \E left \in [0..n -> Int] : SharesLeft(left, interest, s, n)
<1>1. PICK take \in Taking(n) : \A i \in 1..n, x \in Int : take[<<i, x>>] = SharePart(s, n, i, x)
  BY SharePartType
<1>2. n \in Nat
  OBVIOUS
<1>3. PICK left \in [0..n -> Int] : Leaves(left, interest, n, take)
  BY <1>2, LeftExists
<1>4. ASSUME NEW i \in 1..n PROVE left[i] = left[i - 1] - SharePart(s, n, i, left[i - 1])
  <2>1. i - 1 \in 0..n
    OBVIOUS
  <2>2. left[i - 1] \in Int
    BY <2>1
  <2> QED
    BY <1>1, <1>3, <2>2 DEF Leaves
<1> QED
  BY <1>3, <1>4 DEF SharesLeft, Leaves

\* The shares of n periods.
ShareParts(s, n, left) == [i \in 1..n |-> SharePart(s, n, i, left[i - 1])]

\* The shares add up to the interest.
LEMMA SharesAdd ==
  ASSUME NEW n \in Nat \ {0}, NEW interest \in Int, NEW s \in [1..n -> Int], NEW left,
         SharesLeft(left, interest, s, n), NEW part, part = ShareParts(s, n, left)
  PROVE  part \in [1..n -> Int] /\ SumFunctionOnSet(part, 1..n) = interest
<1>1. PICK take \in Taking(n) : \A i \in 1..n, x \in Int : take[<<i, x>>] = SharePart(s, n, i, x)
  BY SharePartType
<1>2. n \in Nat
  OBVIOUS
<1>3. Leaves(left, interest, n, take)
  <2>1. DOMAIN left = 0..n /\ left[0] = interest
    BY DEF SharesLeft
  <2>2. ASSUME NEW i \in 1..n, left[i - 1] \in Int PROVE left[i] = left[i - 1] - take[<<i, left[i - 1]>>]
    BY <1>1, <2>2 DEF SharesLeft
  <2> QED
    BY <1>2, <2>1, <2>2, LeavesFrom
<1>4. LeavesNumbers(left, n, take)
  BY <1>2, <1>3, LeftType
<1>5. ASSUME NEW i \in 1..n
      PROVE  part[i] \in Int /\ part[i] = take[<<i, left[i - 1]>>] /\ left[i - 1] \in Int
             /\ left[i] = left[i - 1] - take[<<i, left[i - 1]>>]
  <2>1. left[i - 1] \in Int /\ left[i] = left[i - 1] - take[<<i, left[i - 1]>>]
    BY <1>4 DEF LeavesNumbers
  <2>2. part[i] = take[<<i, left[i - 1]>>]
    BY <1>1, <2>1 DEF ShareParts
  <2>3. take[<<i, left[i - 1]>>] \in Int
    BY <2>1 DEF Taking
  <2> QED
    BY <2>1, <2>2, <2>3
<1>6. Taken(part, left, n, take)
  BY <1>5 DEF Taken
<1>7. \A k \in 0..n : SumFunctionOnSet(part, 1..k) = interest - left[k]
  BY <1>2, <1>3, <1>6, TakenSum
<1>8. left[n] = 0
  <2>1. n \in 1..n
    OBVIOUS
  <2>2. left[n - 1] \in Int /\ left[n] = left[n - 1] - take[<<n, left[n - 1]>>]
    BY <1>5, <2>1
  <2>3. take[<<n, left[n - 1]>>] = left[n - 1]
    BY <1>1, <2>1, <2>2 DEF SharePart
  <2> QED
    BY <2>2, <2>3
<1>9. part \in [1..n -> Int]
  BY <1>5 DEF ShareParts
<1>10. SumFunctionOnSet(part, 1..n) = interest
  <2>1. n \in 0..n
    OBVIOUS
  <2> QED
    BY <1>7, <1>8, <2>1
<1> QED
  BY <1>9, <1>10

\* Shares in whole units add up to the interest.
LEMMA WholeShares ==
  ASSUME NEW principal \in Int, NEW bases, NEW n \in Nat \ {0}, n = Len(bases), bases \in [1..n -> Nat],
         Total(bases) \in Nat \ {0}, NEW part, part = ShareOut(principal, bases, WholeShare)
  PROVE  part \in [1..n -> Int] /\ SumFunctionOnSet(part, 1..n) = Total(bases) - principal
<1> DEFINE total == Total(bases)
           interest == total - principal
           s == [i \in 1..n |-> WholeShare(interest, bases[i], total)]
           left == CHOOSE f : f = [i \in 0..n |->
                     IF i = 0 THEN interest
                     ELSE f[i - 1] - (IF i = n THEN f[i - 1]
                                      ELSE Positive(Lesser(WholeShare(interest, bases[i], total), f[i - 1])))]
<1>1. part = [i \in 1..n |-> IF i = n THEN left[i - 1]
                             ELSE Positive(Lesser(WholeShare(interest, bases[i], total), left[i - 1]))]
  BY DEF ShareOut
<1>2. interest \in Int /\ total \in Nat \ {0}
  OBVIOUS
<1>3. s \in [1..n -> Int] /\ \A i \in 1..n : s[i] = WholeShare(interest, bases[i], total)
  <2> HIDE DEF total, interest
  <2>1. ASSUME NEW i \in 1..n PROVE WholeShare(interest, bases[i], total) \in Int
    <3> DEFINE x == interest * bases[i]
               d == total * Unit
    <3>1. x \in Int /\ d \in Nat \ {0} /\ Unit \in Int
      BY <1>2, UnitAssumption
    <3>2. WholeShare(interest, bases[i], total) = (x \div d) * Unit
      BY DEF WholeShare
    <3> HIDE DEF x, d
    <3>3. x \div d \in Int
      BY <3>1
    <3> QED
      BY <3>1, <3>2, <3>3
  <2> QED
    BY <2>1
<1> HIDE DEF s, interest, total
<1>4. PICK l \in [0..n -> Int] : SharesLeft(l, interest, s, n)
  BY <1>2, <1>3, SharesExist
<1>5. \A i \in 1..n : \A x : SharePart(s, n, i, x) = IF i = n THEN x ELSE Positive(Lesser(WholeShare(interest, bases[i], total), x))
  BY <1>3 DEF SharePart
<1>6. l = [i \in 0..n |->
             IF i = 0 THEN interest
             ELSE l[i - 1] - (IF i = n THEN l[i - 1]
                              ELSE Positive(Lesser(WholeShare(interest, bases[i], total), l[i - 1])))]
  <2> DEFINE value(i) == IF i = 0 THEN interest
                         ELSE l[i - 1] - (IF i = n THEN l[i - 1]
                                          ELSE Positive(Lesser(WholeShare(interest, bases[i], total), l[i - 1])))
  <2>1. ASSUME NEW i \in 0..n PROVE l[i] = value(i)
    <3>1. CASE i = 0
      BY <1>4, <3>1 DEF SharesLeft
    <3>2. CASE i # 0
      <4>1. i \in 1..n
        BY <3>2
      <4>2. l[i] = l[i - 1] - SharePart(s, n, i, l[i - 1])
        BY <1>4, <4>1 DEF SharesLeft
      <4> QED
        BY <1>5, <3>2, <4>1, <4>2
    <3> QED
      BY <3>1, <3>2
  <2> HIDE DEF value
  <2>2. l = [i \in 0..n |-> value(i)]
    BY <2>1
  <2> QED
    BY <2>2 DEF value
<1>7. left = [i \in 0..n |->
                IF i = 0 THEN interest
                ELSE left[i - 1] - (IF i = n THEN left[i - 1]
                                    ELSE Positive(Lesser(WholeShare(interest, bases[i], total), left[i - 1])))]
  BY <1>6
<1> HIDE DEF left
<1>8. SharesLeft(left, interest, s, n)
  <2>1. DOMAIN left = 0..n /\ left[0] = interest
    BY <1>7
  <2>2. ASSUME NEW i \in 1..n PROVE left[i] = left[i - 1] - SharePart(s, n, i, left[i - 1])
    <3>1. i \in 0..n /\ i # 0
      OBVIOUS
    <3>2. left[i] = left[i - 1] - (IF i = n THEN left[i - 1]
                                   ELSE Positive(Lesser(WholeShare(interest, bases[i], total), left[i - 1])))
      BY <1>7, <3>1
    <3> QED
      BY <1>5, <3>2
  <2> QED
    BY <2>1, <2>2 DEF SharesLeft
<1>9. part = ShareParts(s, n, left)
  BY <1>1, <1>5 DEF ShareParts
<1>10. part \in [1..n -> Int] /\ SumFunctionOnSet(part, 1..n) = interest
  <2>1. s \in [1..n -> Int] /\ interest \in Int
    BY <1>2, <1>3
  <2>2. part \in [1..n -> Int]
    BY <1>8, <1>9, <2>1, SharesAdd
  <2>3. SumFunctionOnSet(part, 1..n) = interest
    BY <1>8, <1>9, <2>1, SharesAdd
  <2> QED
    BY <2>2, <2>3
<1> QED
  BY <1>10 DEF interest, total

\* Shares in cents add up to the interest.
LEMMA CentShares ==
  ASSUME NEW principal \in Int, NEW bases, NEW n \in Nat \ {0}, n = Len(bases), bases \in [1..n -> Nat],
         Total(bases) \in Nat \ {0}, NEW part, part = ShareOut(principal, bases, CentShare)
  PROVE  part \in [1..n -> Int] /\ SumFunctionOnSet(part, 1..n) = Total(bases) - principal
<1> DEFINE total == Total(bases)
           interest == total - principal
           s == [i \in 1..n |-> CentShare(interest, bases[i], total)]
           left == CHOOSE f : f = [i \in 0..n |->
                     IF i = 0 THEN interest
                     ELSE f[i - 1] - (IF i = n THEN f[i - 1]
                                      ELSE Positive(Lesser(CentShare(interest, bases[i], total), f[i - 1])))]
<1>1. part = [i \in 1..n |-> IF i = n THEN left[i - 1]
                             ELSE Positive(Lesser(CentShare(interest, bases[i], total), left[i - 1]))]
  BY DEF ShareOut
<1>2. interest \in Int /\ total \in Nat \ {0}
  OBVIOUS
<1>3. s \in [1..n -> Int] /\ \A i \in 1..n : s[i] = CentShare(interest, bases[i], total)
  <2> HIDE DEF total, interest
  <2>1. ASSUME NEW i \in 1..n PROVE CentShare(interest, bases[i], total) \in Int
    <3> DEFINE x == interest * bases[i]
    <3>1. x \in Int /\ 2 * total \in Nat \ {0}
      BY <1>2
    <3>2. CentShare(interest, bases[i], total) = (2 * x + total) \div (2 * total)
      BY DEF CentShare, Rounded
    <3> HIDE DEF x
    <3>3. 2 * x + total \in Int
      BY <1>2, <3>1
    <3> QED
      BY <3>1, <3>2, <3>3
  <2> QED
    BY <2>1
<1> HIDE DEF s, interest, total
<1>4. PICK l \in [0..n -> Int] : SharesLeft(l, interest, s, n)
  BY <1>2, <1>3, SharesExist
<1>5. \A i \in 1..n : \A x : SharePart(s, n, i, x) = IF i = n THEN x ELSE Positive(Lesser(CentShare(interest, bases[i], total), x))
  BY <1>3 DEF SharePart
<1>6. l = [i \in 0..n |->
             IF i = 0 THEN interest
             ELSE l[i - 1] - (IF i = n THEN l[i - 1]
                              ELSE Positive(Lesser(CentShare(interest, bases[i], total), l[i - 1])))]
  <2> DEFINE value(i) == IF i = 0 THEN interest
                         ELSE l[i - 1] - (IF i = n THEN l[i - 1]
                                          ELSE Positive(Lesser(CentShare(interest, bases[i], total), l[i - 1])))
  <2>1. ASSUME NEW i \in 0..n PROVE l[i] = value(i)
    <3>1. CASE i = 0
      BY <1>4, <3>1 DEF SharesLeft
    <3>2. CASE i # 0
      <4>1. i \in 1..n
        BY <3>2
      <4>2. l[i] = l[i - 1] - SharePart(s, n, i, l[i - 1])
        BY <1>4, <4>1 DEF SharesLeft
      <4> QED
        BY <1>5, <3>2, <4>1, <4>2
    <3> QED
      BY <3>1, <3>2
  <2> HIDE DEF value
  <2>2. l = [i \in 0..n |-> value(i)]
    BY <2>1
  <2> QED
    BY <2>2 DEF value
<1>7. left = [i \in 0..n |->
                IF i = 0 THEN interest
                ELSE left[i - 1] - (IF i = n THEN left[i - 1]
                                    ELSE Positive(Lesser(CentShare(interest, bases[i], total), left[i - 1])))]
  BY <1>6
<1> HIDE DEF left
<1>8. SharesLeft(left, interest, s, n)
  <2>1. DOMAIN left = 0..n /\ left[0] = interest
    BY <1>7
  <2>2. ASSUME NEW i \in 1..n PROVE left[i] = left[i - 1] - SharePart(s, n, i, left[i - 1])
    <3>1. i \in 0..n /\ i # 0
      OBVIOUS
    <3>2. left[i] = left[i - 1] - (IF i = n THEN left[i - 1]
                                   ELSE Positive(Lesser(CentShare(interest, bases[i], total), left[i - 1])))
      BY <1>7, <3>1
    <3> QED
      BY <1>5, <3>2
  <2> QED
    BY <2>1, <2>2 DEF SharesLeft
<1>9. part = ShareParts(s, n, left)
  BY <1>1, <1>5 DEF ShareParts
<1>10. part \in [1..n -> Int] /\ SumFunctionOnSet(part, 1..n) = interest
  <2>1. s \in [1..n -> Int] /\ interest \in Int
    BY <1>2, <1>3
  <2>2. part \in [1..n -> Int]
    BY <1>8, <1>9, <2>1, SharesAdd
  <2>3. SumFunctionOnSet(part, 1..n) = interest
    BY <1>8, <1>9, <2>1, SharesAdd
  <2> QED
    BY <2>2, <2>3
<1> QED
  BY <1>10 DEF interest, total

\* What is left of the bases when interest that fits is taken out.
Rest(bases, interest, n) == [i \in 1..n |-> bases[i] - interest[i]]

\* Each part fits into its base; together they are x, or as much of it as the bases hold.
Fitted(part, x, bases, n) ==
  /\ DOMAIN part = 1..n /\ \A i \in 1..n : part[i] \in Nat /\ part[i] <= bases[i]
  /\ SumFunctionOnSet(part, 1..n) = Lesser(x, Total(bases))

\* Capital is what interest that fits leaves.
LEMMA FittingSum ==
  ASSUME NEW principal \in Nat, NEW n \in Nat \ {0}, NEW bases \in [1..n -> Nat], NEW interest \in [1..n -> Int],
         SumFunctionOnSet(interest, 1..n) = Total(bases) - principal, Fits(interest, bases),
         NEW part, part = Rest(bases, interest, n)
  PROVE  Fitted(part, principal, bases, n)
<1>1. ASSUME NEW i \in 1..n
      PROVE  /\ part[i] \in Nat /\ part[i] \in Int /\ part[i] <= bases[i] /\ bases[i] \in Int /\ interest[i] \in Int
             /\ bases[i] = part[i] + interest[i]
  <2>1. bases[i] \in Nat /\ interest[i] \in Int /\ part[i] = bases[i] - interest[i]
    BY DEF Rest
  <2>2. 0 <= interest[i] /\ interest[i] <= bases[i]
    BY DEF Fits
  <2> QED
    BY <2>1, <2>2
<1>2. DOMAIN part = 1..n
  BY DEF Rest
<1>3. IsFiniteSet(1..n)
  BY FS_Interval
<1>4. Total(bases) = SumFunctionOnSet(bases, 1..n)
  BY DEF Total, SumFunction
<1>5. SumFunctionOnSet(bases, 1..n) = SumFunctionOnSet(part, 1..n) + SumFunctionOnSet(interest, 1..n)
  BY <1>1, <1>3, SumPlus
<1>6. SumFunctionOnSet(part, 1..n) \in Int /\ SumFunctionOnSet(bases, 1..n) \in Int
  BY <1>1, <1>3, SumInt
<1>7. SumFunctionOnSet(part, 1..n) <= SumFunctionOnSet(bases, 1..n)
  BY <1>1, <1>3, SumLess
<1>8. SumFunctionOnSet(part, 1..n) = Lesser(principal, Total(bases))
  <2> DEFINE a == SumFunctionOnSet(part, 1..n)
             b == SumFunctionOnSet(bases, 1..n)
  <2>1. a \in Int /\ b \in Int /\ b = a + (b - principal) /\ a <= b
    BY <1>4, <1>5, <1>6, <1>7
  <2> HIDE DEF a, b
  <2>2. a = Lesser(principal, b)
    BY <2>1 DEF Lesser
  <2> QED
    BY <1>4, <2>2 DEF a, b
<1> QED
  BY <1>1, <1>2, <1>8 DEF Fitted

\* The capital of each period fits into it, and together it is the principal, or as much
\* of it as the periods hold.
LEMMA PortionsFit ==
  ASSUME NEW principal \in Nat, NEW n \in Nat \ {0}, NEW bases \in [1..n -> Nat],
         NEW part, part = CapitalPortions(principal, bases)
  PROVE  Fitted(part, principal, bases, n)
<1> DEFINE whole == ShareOut(principal, bases, WholeShare)
           cents == ShareOut(principal, bases, CentShare)
           total == Total(bases)
<1>1. n = Len(bases) /\ DOMAIN bases = 1..n
  BY SeqOf
<1>2. total \in Nat
  <2>1. IsFiniteSet(1..n)
    BY FS_Interval
  <2>2. total = SumFunctionOnSet(bases, 1..n)
    BY DEF Total, SumFunction
  <2> HIDE DEF total
  <2> QED
    BY <2>1, <2>2, SumNat
<1>3. part = FirstFit(principal, bases, whole, cents)
  BY DEF CapitalPortions
<1>4. total # 0 => /\ whole \in [1..n -> Int] /\ SumFunctionOnSet(whole, 1..n) = total - principal
                   /\ cents \in [1..n -> Int] /\ SumFunctionOnSet(cents, 1..n) = total - principal
  <2> SUFFICES ASSUME total # 0
               PROVE  /\ whole \in [1..n -> Int] /\ SumFunctionOnSet(whole, 1..n) = total - principal
                      /\ cents \in [1..n -> Int] /\ SumFunctionOnSet(cents, 1..n) = total - principal
    OBVIOUS
  <2>1. Total(bases) \in Nat \ {0} /\ principal \in Int
    BY <1>2
  <2>2. whole \in [1..n -> Int] /\ SumFunctionOnSet(whole, 1..n) = total - principal
    BY <1>1, <2>1, WholeShares
  <2>3. cents \in [1..n -> Int] /\ SumFunctionOnSet(cents, 1..n) = total - principal
    BY <1>1, <2>1, CentShares
  <2> QED
    BY <2>2, <2>3
<1> HIDE DEF whole, cents
<1>5. CASE total = 0
  <2>1. part = [i \in 1..n |-> 0]
    BY <1>1, <1>3, <1>5 DEF FirstFit
  <2>2. \A i \in 1..n : part[i] = 0 /\ bases[i] \in Nat
    BY <2>1
  <2>3. SumFunctionOnSet(part, 1..n) = 0
    <3>1. IsFiniteSet(1..n)
      BY FS_Interval
    <3> QED
      BY <2>2, <3>1, SumZero
  <2>4. Lesser(principal, Total(bases)) = 0
    BY <1>5 DEF Lesser
  <2> QED
    BY <2>1, <2>2, <2>3, <2>4 DEF Fitted
<1>6. CASE total # 0 /\ Fits(whole, bases)
  <2>1. part = Rest(bases, whole, n)
    BY <1>1, <1>2, <1>3, <1>6 DEF FirstFit, Rest
  <2> QED
    <3>1. whole \in [1..n -> Int] /\ SumFunctionOnSet(whole, 1..n) = Total(bases) - principal
      BY <1>4, <1>6
    <3> HIDE DEF total
    <3> QED
      BY <1>6, <2>1, <3>1, FittingSum
<1>7. CASE total # 0 /\ ~Fits(whole, bases) /\ Fits(cents, bases)
  <2>1. part = Rest(bases, cents, n)
    BY <1>1, <1>2, <1>3, <1>7 DEF FirstFit, Rest
  <2> QED
    <3>1. cents \in [1..n -> Int] /\ SumFunctionOnSet(cents, 1..n) = Total(bases) - principal
      BY <1>4, <1>7
    <3> HIDE DEF total
    <3> QED
      BY <1>7, <2>1, <3>1, FittingSum
<1>8. CASE total # 0 /\ ~Fits(whole, bases) /\ ~Fits(cents, bases)
  <2>1. part = Filled(principal, bases)
    BY <1>2, <1>3, <1>8 DEF FirstFit
  <2> QED
    BY <1>1, <2>1, FilledSum DEF Fitted
<1> QED
  BY <1>5, <1>6, <1>7, <1>8

-----------------------------------------------------------------------------
(* The schedule.                                                           *)

\* Rows of a schedule whose columns are numbers that add up.
Tabular(rows, m) ==
  /\ DOMAIN rows = 1..m
  /\ \A i \in 1..m : /\ rows[i].capital \in Int /\ rows[i].interest \in Int /\ rows[i].penalty \in Int
                     /\ rows[i].amount = rows[i].capital + rows[i].interest + rows[i].penalty

\* The totals of a schedule add up when its rows do.
LEMMA TotalsAdd ==
  ASSUME NEW m \in Nat, NEW rows, Tabular(rows, m), NEW totals, totals = AmortizationTotals(rows)
  PROVE  totals.principal + totals.interest + totals.penalty = totals.schedule
<1> DEFINE capital == [i \in 1..m |-> rows[i].capital]
           interest == [i \in 1..m |-> rows[i].interest]
           penalty == [i \in 1..m |-> rows[i].penalty]
           amount == [i \in 1..m |-> rows[i].amount]
           own == [i \in 1..m |-> rows[i].capital + rows[i].interest]
<1>1. /\ totals.principal = SumFunctionOnSet(capital, 1..m) /\ totals.interest = SumFunctionOnSet(interest, 1..m)
      /\ totals.penalty = SumFunctionOnSet(penalty, 1..m) /\ totals.schedule = SumFunctionOnSet(amount, 1..m)
  BY DEF AmortizationTotals, SumOver, Total, SumFunction, Tabular
<1>2. \A i \in 1..m : /\ capital[i] \in Int /\ interest[i] \in Int /\ penalty[i] \in Int /\ own[i] \in Int
                      /\ own[i] = capital[i] + interest[i] /\ amount[i] = own[i] + penalty[i]
  BY DEF Tabular
<1>3. IsFiniteSet(1..m)
  BY FS_Interval
<1> HIDE DEF capital, interest, penalty, amount, own
<1>4. SumFunctionOnSet(own, 1..m) = SumFunctionOnSet(capital, 1..m) + SumFunctionOnSet(interest, 1..m)
  BY <1>2, <1>3, SumPlus
<1>5. SumFunctionOnSet(amount, 1..m) = SumFunctionOnSet(own, 1..m) + SumFunctionOnSet(penalty, 1..m)
  BY <1>2, <1>3, SumPlus
<1> QED
  BY <1>1, <1>4, <1>5

\* The rows of a multi-period loan.
Split(rows, principal, ps, portions) ==
  /\ rows = [i \in DOMAIN ps |-> rows[i]]
  /\ \A i \in DOMAIN ps : /\ rows[i].capital = portions[i] /\ rows[i].interest = Base(ps[i]) - portions[i]
                          /\ rows[i].penalty = ps[i].penalty /\ rows[i].amount = ps[i].amount
                          /\ rows[i].remaining = Open(ps[i])
                          /\ rows[i].balance = principal - Total([j \in 1..i |-> portions[j]])

\* The rows of a schedule in equal periods.
LEMMA MultiSplit ==
  ASSUME NEW principal, NEW ps, NEW portions, portions = CapitalPortions(principal, Bases(ps)),
         NEW rows, rows = AmortizationRows("multi", principal, ps, 0)
  PROVE  Split(rows, principal, ps, portions)
<1>1. rows = MultiRows(principal, ps, portions)
  BY DEF AmortizationRows
<1>2. \A i \in DOMAIN ps : rows[i] = PeriodRow(ps[i], portions[i], principal - Total([j \in 1..i |-> portions[j]]))
  BY <1>1 DEF MultiRows
<1> QED
  BY <1>1, <1>2 DEF Split, MultiRows, PeriodRow

\* The bases of a regular loan.
LEMMA RegularBases ==
  ASSUME Typed, RegularInv, Regular
  PROVE  /\ Bases(periods) \in [1..Len(periods) -> Nat] /\ Len(periods) \in Nat \ {0}
         /\ DOMAIN periods = 1..Len(periods) /\ terms.principal \in Nat
         /\ \A i \in 1..Len(periods) :
              /\ Bases(periods)[i] = periods[i].base /\ Base(periods[i]) = periods[i].base
              /\ periods[i].base \in Nat /\ periods[i].penalty \in Int
              /\ periods[i].amount = periods[i].base + periods[i].penalty
<1>1. /\ LedgerTyped /\ TermsTyped /\ periods \in Seq(Record) /\ DOMAIN periods = 1..Len(periods)
      /\ Len(periods) \in Nat \ {0}
  BY LedgerFacts
<1>2. ASSUME NEW i \in 1..Len(periods)
      PROVE  /\ Bases(periods)[i] = periods[i].base /\ Base(periods[i]) = periods[i].base
             /\ periods[i].base \in Nat /\ periods[i].penalty \in Int
             /\ periods[i].amount = periods[i].base + periods[i].penalty
  <2>1. periods[i] \in Record /\ periods[i].base \in Int /\ periods[i].penalty \in Int
    BY <1>1, RowFields
  <2>2. periods[i].amount = periods[i].base + periods[i].penalty /\ periods[i].base >= 0
    BY <1>1 DEF RegularInv, Sound, PreSound
  <2>3. Base(periods[i]) = periods[i].base
    BY <2>1, <2>2, BaseOf
  <2> QED
    BY <1>1, <2>1, <2>2, <2>3 DEF Bases
<1>3. Bases(periods) \in [1..Len(periods) -> Nat]
  BY <1>1, <1>2 DEF Bases
<1> QED
  BY <1>1, <1>2, <1>3 DEF TermsTyped

\* Capital falls short of the principal by the rounding of an old loan at most.
LEMMA LessDrift ==
  ASSUME TermsTyped, NEW total \in Nat, Expected \in Nat, WithinRounding(total - Expected), Len(periods) \in Nat
  PROVE  WithinRounding(Lesser(terms.principal, total) - terms.principal)
<1> DEFINE P == terms.principal
           E == Expected
           N == Len(periods)
           interest == Percent(P, terms.interestRate)
<1>1. P \in Nat /\ E \in Nat /\ N \in Nat /\ interest \in Nat /\ E = P + interest
  <2>1. P \in Nat /\ terms.interestRate \in Nat
    BY DEF TermsTyped
  <2>2. interest \in Nat
    BY <2>1, PercentNat
  <2> QED
    BY <2>1, <2>2 DEF Expected
<1>2. total - E # 0 => terms.rounding = "cents" /\ -N <= total - E /\ total - E <= N
  BY DEF WithinRounding
<1> HIDE DEF P, E, N, interest
<1>3. CASE total >= P
  <2>1. Lesser(P, total) - P = 0
    BY <1>1, <1>3 DEF Lesser
  <2> QED
    BY <2>1 DEF WithinRounding, P
<1>4. CASE total < P
  <2>1. Lesser(P, total) - P = total - P
    BY <1>1, <1>4 DEF Lesser
  <2>2. total - E # 0 /\ -N <= total - P /\ total - P <= N
    BY <1>1, <1>2, <1>4
  <2> QED
    BY <1>2, <2>1, <2>2 DEF WithinRounding, P, N
<1> QED
  BY <1>1, <1>3, <1>4

\* The preview of a loan in equal periods has the bases a new loan is given.
LEMMA PreviewRows ==
  ASSUME Typed, Multi, NEW n \in Nat \ {0},
         NEW bases, bases = LastTakes(Expected, n, EqualBase(Expected, n)),
         NEW portions, portions = CapitalPortions(terms.principal, bases),
         NEW rows, rows = ProjectedSchedule(terms.loanType, terms.principal, terms.interestRate, n)
  PROVE  \A i \in 1..n : rows[i].capital = portions[i] /\ rows[i].interest = bases[i] - portions[i]
<1> DEFINE ps == [i \in 1..n |-> [base |-> bases[i], penalty |-> 0, amount |-> bases[i], paid |-> 0]]
<1>1. TermsTyped /\ terms.loanType = "multi"
  BY DEF Typed, Multi
<1>2. Expected \in Nat
  BY <1>1, ExpectedType
<1>3. LoanInstallmentTerms(terms.loanType, terms.principal, terms.interestRate, n) = EqualPeriodAmounts(Expected, n)
  BY <1>1 DEF LoanInstallmentTerms, Expected
<1>4. EqualPeriodAmounts(Expected, n) = bases
  BY <1>2, BaseType
<1>5. rows = AmortizationRows("multi", terms.principal, ps, 0)
  BY <1>1, <1>3, <1>4 DEF ProjectedSchedule
<1>6. \A i \in 1..n : bases[i] \in Int
  <2>1. EqualBase(Expected, n) \in Nat
    BY <1>2, BaseType
  <2> TAKE i \in 1..n
  <2>2. bases[i] = IF i < n THEN EqualBase(Expected, n) ELSE Expected - EqualBase(Expected, n) * (n - 1)
    BY DEF LastTakes
  <2>3. EqualBase(Expected, n) * (n - 1) \in Int
    BY <2>1
  <2> QED
    BY <1>2, <2>1, <2>2, <2>3
<1>7. DOMAIN ps = 1..n /\ \A i \in 1..n : Base(ps[i]) = bases[i]
  BY <1>6 DEF Base
<1>8. Bases(ps) = bases
  BY <1>7 DEF Bases, LastTakes
<1> HIDE DEF ps
<1>9. Split(rows, terms.principal, ps, portions)
  BY <1>5, <1>8, MultiSplit
<1> QED
  BY <1>7, <1>9 DEF Split

\* The schedule of a regular loan in equal periods.
LEMMA MultiSchedule ==
  ASSUME Typed, RegularInv, Regular, Multi,
         NEW portions, portions = CapitalPortions(terms.principal, Bases(periods)),
         NEW rows, rows = Schedule
  PROVE  /\ Split(rows, terms.principal, periods, portions)
         /\ Fitted(portions, terms.principal, Bases(periods), Len(periods))
<1>1. rows = AmortizationRows("multi", terms.principal, periods, 0)
  BY DEF Schedule, ScheduleForDebt, Multi
<1>2. Split(rows, terms.principal, periods, portions)
  BY <1>1, MultiSplit
<1>3. Bases(periods) \in [1..Len(periods) -> Nat] /\ Len(periods) \in Nat \ {0} /\ terms.principal \in Nat
  BY RegularBases
<1> QED
  BY <1>2, <1>3, PortionsFit

\* The schedule of a loan in equal periods.
LEMMA MultiKept ==
  ASSUME Typed, RegularInv, Regular, Multi, NEW rows, rows = Schedule, NEW totals, totals = AmortizationTotals(rows)
  PROVE  AsPreviewed(rows, Preview, totals)
<1> DEFINE N == Len(periods)
           P == terms.principal
           bases == Bases(periods)
           portions == CapitalPortions(P, bases)
<1>1. Split(rows, P, periods, portions) /\ Fitted(portions, P, bases, N)
  BY MultiSchedule
<1>2. /\ bases \in [1..N -> Nat] /\ N \in Nat \ {0} /\ DOMAIN periods = 1..N /\ P \in Nat
      /\ \A i \in 1..N : /\ bases[i] = periods[i].base /\ Base(periods[i]) = periods[i].base
                         /\ periods[i].base \in Nat /\ periods[i].penalty \in Int
                         /\ periods[i].amount = periods[i].base + periods[i].penalty
  BY RegularBases
<1>3. TermsTyped /\ LedgerTyped
  BY DEF Typed
<1> HIDE DEF portions, bases, N, P
<1>4. ASSUME NEW i \in 1..N
      PROVE  /\ rows[i].capital = portions[i] /\ rows[i].interest = bases[i] - portions[i]
             /\ rows[i].penalty = periods[i].penalty /\ rows[i].amount = periods[i].amount
             /\ rows[i].remaining = Open(periods[i])
             /\ rows[i].balance = P - Total([j \in 1..i |-> portions[j]])
             /\ portions[i] \in Nat /\ portions[i] <= bases[i] /\ bases[i] \in Nat
  BY <1>1, <1>2 DEF Split, Fitted
<1>5. DOMAIN rows = 1..N
  BY <1>1, <1>2 DEF Split
<1>6. totals.principal = SumFunctionOnSet(portions, 1..N)
  <2> DEFINE f == [i \in DOMAIN rows |-> rows[i].capital]
  <2>1. totals.principal = SumFunctionOnSet(f, 1..N)
    BY <1>5 DEF AmortizationTotals, SumOver, Total, SumFunction
  <2>2. \A i \in 1..N : f[i] = portions[i]
    BY <1>4, <1>5
  <2>3. IsFiniteSet(1..N)
    BY <1>2, FS_Interval
  <2> HIDE DEF f
  <2> QED
    BY <2>1, <2>2, <2>3, SumSame
<1>7. WithinRounding(totals.principal - P)
  <2>1. totals.principal = Lesser(P, Total(bases))
    BY <1>1, <1>6 DEF Fitted
  <2>2. Shape
    BY DEF RegularInv, MultiInv
  <2>3. WithinRounding(Total(bases) - Expected) /\ Expected \in Nat
    BY <2>2, ShapeTotal DEF bases
  <2>4. Total(bases) \in Nat
    <3>1. Total(bases) = SumFunctionOnSet(bases, 1..N)
      BY <1>2 DEF Total, SumFunction
    <3>2. IsFiniteSet(1..N)
      BY <1>2, FS_Interval
    <3> QED
      BY <1>2, <3>1, <3>2, SumNat
  <2>5. Len(periods) \in Nat
    BY <1>2 DEF N
  <2>6. WithinRounding(Lesser(terms.principal, Total(bases)) - terms.principal)
    BY <1>3, <2>3, <2>4, <2>5, LessDrift
  <2> QED
    BY <2>1, <2>6 DEF P
<1>8. totals.principal + totals.interest + totals.penalty = totals.schedule
  <2>1. \A i \in 1..N : /\ rows[i].capital \in Int /\ rows[i].interest \in Int /\ rows[i].penalty \in Int
                        /\ rows[i].amount = rows[i].capital + rows[i].interest + rows[i].penalty
    <3> TAKE i \in 1..N
    <3>1. /\ rows[i].capital = portions[i] /\ rows[i].interest = bases[i] - portions[i]
          /\ rows[i].penalty = periods[i].penalty /\ rows[i].amount = periods[i].amount
          /\ portions[i] \in Nat /\ bases[i] \in Nat
      BY <1>4
    <3>2. periods[i].penalty \in Int /\ periods[i].amount = bases[i] + periods[i].penalty
      BY <1>2
    <3> QED
      BY <3>1, <3>2
  <2>2. Tabular(rows, N) /\ N \in Nat
    BY <1>2, <1>5, <2>1 DEF Tabular
  <2> QED
    BY <2>2, TotalsAdd
<1>9. SumOver(rows, LAMBDA r : r.remaining) = debt.outstanding
  <2> DEFINE f == [i \in DOMAIN rows |-> rows[i].remaining]
             g == [i \in DOMAIN periods |-> Open(periods[i])]
  <2>1. SumOver(rows, LAMBDA r : r.remaining) = SumFunctionOnSet(f, 1..N)
    BY <1>5 DEF SumOver, Total, SumFunction
  <2>2. SumOver(periods, Open) = SumFunctionOnSet(g, 1..N)
    BY <1>2 DEF SumOver, Total, SumFunction
  <2>3. \A i \in 1..N : f[i] = g[i]
    BY <1>2, <1>4, <1>5
  <2>4. IsFiniteSet(1..N)
    BY <1>2, FS_Interval
  <2> HIDE DEF f, g
  <2>5. SumOver(rows, LAMBDA r : r.remaining) = SumOver(periods, Open)
    BY <2>1, <2>2, <2>3, <2>4, SumSame
  <2>6. PICK day \in 0..today : debt = ReconciledDebt(debt, periods, payments, day)
    BY DEF RegularInv, Fresh
  <2>7. debt.outstanding = SumOver(periods, Open)
    BY <2>6, FreshColumns
  <2> QED
    BY <2>5, <2>7
<1>10. \A i \in DOMAIN rows : rows[i].capital >= 0 /\ rows[i].interest >= 0
  <2> SUFFICES ASSUME NEW i \in 1..N PROVE rows[i].capital >= 0 /\ rows[i].interest >= 0
    BY <1>5
  <2>1. /\ rows[i].capital = portions[i] /\ rows[i].interest = bases[i] - portions[i]
        /\ portions[i] \in Nat /\ bases[i] \in Nat /\ portions[i] <= bases[i]
    BY <1>4
  <2> QED
    BY <2>1
<1>11. Len(rows) = N
  <2> DEFINE R == {rows[i] : i \in 1..N}
  <2>1. rows = [i \in 1..N |-> rows[i]]
    BY <1>1, <1>2 DEF Split
  <2>2. rows \in [1..N -> R] /\ N \in Nat
    BY <1>2, <2>1
  <2> QED
    BY <2>2, SeqOf
<1>12. rows[Len(rows)].balance = P - totals.principal
  <2> DEFINE f == [j \in 1..N |-> portions[j]]
  <2>1. N \in 1..N
    BY <1>2
  <2>2. Total(f) = SumFunctionOnSet(f, 1..N)
    BY DEF Total, SumFunction
  <2>3. \A j \in 1..N : f[j] = portions[j]
    OBVIOUS
  <2>4. IsFiniteSet(1..N)
    BY <1>2, FS_Interval
  <2>5. rows[N].balance = P - Total(f)
    BY <1>4, <2>1
  <2> HIDE DEF f
  <2>6. SumFunctionOnSet(f, 1..N) = SumFunctionOnSet(portions, 1..N)
    BY <2>3, <2>4, SumSame
  <2> QED
    BY <1>6, <1>11, <2>2, <2>5, <2>6
<1>13. Multi /\ terms.rounding = "whole" =>
         \A i \in DOMAIN periods : /\ rows[i].capital = Preview[i].capital
                                  /\ rows[i].interest = Preview[i].interest
  <2> SUFFICES ASSUME terms.rounding = "whole"
               PROVE  \A i \in 1..N : /\ rows[i].capital = Preview[i].capital
                                      /\ rows[i].interest = Preview[i].interest
    BY <1>2
  <2>1. Shape /\ terms.rounding # "cents"
    BY DEF RegularInv, MultiInv
  <2>2. bases = LastTakes(Expected, N, EqualBase(Expected, N))
    BY <2>1 DEF Shape, Shaped, bases, N
  <2>3. portions = CapitalPortions(terms.principal, bases) /\ N \in Nat \ {0}
    BY <1>2 DEF portions, P
  <2>4. Preview = ProjectedSchedule(terms.loanType, terms.principal, terms.interestRate, N)
    BY DEF Preview, N
  <2>5. \A i \in 1..N : Preview[i].capital = portions[i] /\ Preview[i].interest = bases[i] - portions[i]
    BY <2>2, <2>3, <2>4, PreviewRows
  <2> QED
    BY <1>4, <2>5
<1>14. totals.principal + totals.interest + totals.penalty = totals.schedule
  BY <1>8
<1> QED
  BY <1>7, <1>9, <1>10, <1>12, <1>13, <1>14 DEF AsPreviewed, P

ScheduleRow == [capital : Int, interest : Int, penalty : Int, amount : Int, remaining : Int, balance : Int]
InterestPart(ps, balance) == [i \in DOMAIN ps |-> PeriodRow(ps[i], 0, balance)]

\* The rows of a single loan: its interest periods and its capital.
SingleSplit(rows, principal, repaid, ps) ==
  /\ DOMAIN rows = 1..(Len(ps) + 1) /\ Len(rows) = Len(ps) + 1
  /\ \A i \in DOMAIN ps : /\ rows[i].capital = 0 /\ rows[i].interest = ps[i].base
                          /\ rows[i].penalty = ps[i].penalty /\ rows[i].amount = ps[i].amount
                          /\ rows[i].remaining = Open(ps[i]) /\ Open(ps[i]) \in Int
  /\ rows[Len(ps) + 1] = CapitalRow(principal, repaid)

\* The schedule of a single loan: its interest periods, and its capital last.
LEMMA InterestAndCapital ==
  ASSUME NEW ps \in Seq(Record), \A i \in DOMAIN ps : ps[i].amount = ps[i].base + ps[i].penalty,
         NEW principal \in Int, NEW repaid \in Int,
         NEW rows, rows = AmortizationRows("single", principal, ps, repaid)
  PROVE  SingleSplit(rows, principal, repaid, ps)
<1> DEFINE balance == principal - repaid
           part == InterestPart(ps, balance)
           last == CapitalRow(principal, repaid)
           n == Len(ps)
<1>1. rows = Append(part, last)
  BY DEF AmortizationRows, InterestPart
<1>2. n \in Nat /\ DOMAIN ps = 1..n
  OBVIOUS
<1>3. balance \in Int
  OBVIOUS
<1> HIDE DEF balance
<1>4. ASSUME NEW i \in DOMAIN ps
      PROVE  /\ part[i] \in ScheduleRow
             /\ part[i].capital = 0 /\ part[i].interest = ps[i].base
             /\ part[i].penalty = ps[i].penalty /\ part[i].amount = ps[i].amount
             /\ part[i].remaining = Open(ps[i]) /\ Open(ps[i]) \in Int
  <2>1. ps[i] \in Record /\ ps[i].base \in Int /\ ps[i].penalty \in Int /\ ps[i].amount \in Int /\ ps[i].paid \in Nat
    BY RowFields
  <2>2. Base(ps[i]) = ps[i].base
    BY <2>1, BaseOf
  <2>3. Open(ps[i]) \in Int
    BY <2>1 DEF Open, Positive
  <2>4. part[i] = [capital |-> 0, interest |-> Base(ps[i]) - 0, penalty |-> ps[i].penalty, amount |-> ps[i].amount,
                   remaining |-> Open(ps[i]), balance |-> balance]
    BY DEF InterestPart, PeriodRow
  <2>5. Base(ps[i]) - 0 = ps[i].base
    BY <2>1, <2>2
  <2> QED
    BY <1>3, <2>1, <2>3, <2>4, <2>5 DEF ScheduleRow
<1>5. last \in ScheduleRow
  BY DEF ScheduleRow, CapitalRow, Positive
<1>6. part \in [1..n -> ScheduleRow]
  BY <1>2, <1>4 DEF InterestPart
<1> HIDE DEF part, last, n
<1>7. part \in Seq(ScheduleRow) /\ Len(part) = n
  BY <1>2, <1>6, SeqOf
<1>8. /\ Len(rows) = n + 1 /\ DOMAIN rows = 1..(n + 1) /\ rows[n + 1] = last
      /\ \A i \in 1..n : rows[i] = part[i]
  BY <1>1, <1>2, <1>5, <1>7
<1>9. ASSUME NEW i \in DOMAIN ps
      PROVE  /\ rows[i].capital = 0 /\ rows[i].interest = ps[i].base
             /\ rows[i].penalty = ps[i].penalty /\ rows[i].amount = ps[i].amount
             /\ rows[i].remaining = Open(ps[i]) /\ Open(ps[i]) \in Int
  BY <1>2, <1>4, <1>8
<1> QED
  BY <1>8, <1>9 DEF SingleSplit, n, last

\* The schedule of a single loan keeps what was previewed.
LEMMA SingleKept ==
  ASSUME Typed, RegularInv, Regular, ~Multi, NEW rows, rows = Schedule, NEW totals, totals = AmortizationTotals(rows)
  PROVE  AsPreviewed(rows, Preview, totals)
<1> DEFINE N == Len(periods)
           P == terms.principal
           repaid == Positive(P - debt.capital)
           K == Principal(payments)
<1>1. /\ LedgerTyped /\ TermsTyped /\ periods \in Seq(Record) /\ debt \in DebtRow
      /\ N \in Nat \ {0} /\ DOMAIN periods = 1..N /\ P \in Nat /\ terms.loanType = "single"
      /\ IsFiniteSet(payments) /\ \A p \in payments : p.amount \in Nat
  BY LedgerFacts DEF LedgerTyped, TermsTyped, Multi
<1>2. \A i \in 1..N : /\ periods[i].base \in Nat /\ periods[i].penalty \in Int
                      /\ periods[i].amount = periods[i].base + periods[i].penalty
  BY RegularBases
<1>3. PICK day \in 0..today : debt = ReconciledDebt(debt, periods, payments, day)
  BY DEF RegularInv, Fresh
<1>4. /\ debt.capital = Positive(P - K)
      /\ debt.outstanding = debt.capital + SumOver(periods, Open)
  BY <1>3, FreshColumns
<1>5. K \in Nat /\ K <= P
  BY <1>1, PrincipalType DEF RegularInv, SingleInv
<1> HIDE DEF P, N, K
<1>6. debt.capital \in Nat /\ repaid = K /\ Positive(P - repaid) = debt.capital /\ repaid \in Int
  BY <1>1, <1>4, <1>5 DEF Positive
<1>7. rows = AmortizationRows("single", P, periods, repaid)
  BY <1>1 DEF Schedule, ScheduleForDebt, P
<1> HIDE DEF repaid
<1>8. /\ DOMAIN rows = 1..(N + 1) /\ Len(rows) = N + 1
      /\ \A i \in 1..N : /\ rows[i].capital = 0 /\ rows[i].interest = periods[i].base
                         /\ rows[i].penalty = periods[i].penalty /\ rows[i].amount = periods[i].amount
                         /\ rows[i].remaining = Open(periods[i]) /\ Open(periods[i]) \in Int
      /\ rows[N + 1] = CapitalRow(P, repaid)
  <2>1. \A i \in DOMAIN periods : periods[i].amount = periods[i].base + periods[i].penalty
    BY <1>1, <1>2
  <2>2. P \in Int /\ repaid \in Int /\ periods \in Seq(Record)
    BY <1>1, <1>6
  <2> QED
    <3>1. SingleSplit(rows, P, repaid, periods)
      BY <1>7, <2>1, <2>2, InterestAndCapital
    <3> QED
      BY <1>1, <3>1 DEF SingleSplit, N
<1>9. /\ rows[N + 1].capital = P /\ rows[N + 1].interest = 0 /\ rows[N + 1].penalty = 0
      /\ rows[N + 1].amount = P /\ rows[N + 1].remaining = debt.capital /\ rows[N + 1].balance = 0
  BY <1>6, <1>8 DEF CapitalRow
<1>10. IsFiniteSet(1..N)
  BY <1>1, FS_Interval
<1>11. totals.principal = P
  <2> DEFINE f == [i \in DOMAIN rows |-> rows[i].capital]
  <2>1. totals.principal = SumFunctionOnSet(f, 1..(N + 1))
    BY <1>8 DEF AmortizationTotals, SumOver, Total, SumFunction
  <2>2. (\A i \in 1..N : f[i] = 0) /\ f[N + 1] = P
    BY <1>1, <1>8, <1>9
  <2> HIDE DEF f
  <2>3. \A i \in 1..(N + 1) : f[i] \in Int
    <3> TAKE i \in 1..(N + 1)
    <3>1. i \in 1..N \/ i = N + 1
      BY <1>1
    <3> QED
      BY <1>1, <2>2, <3>1
  <2>4. SumFunctionOnSet(f, 1..(N + 1)) = SumFunctionOnSet(f, 1..N) + f[N + 1]
    BY <1>1, <2>3, SumStep
  <2>5. SumFunctionOnSet(f, 1..N) = 0
    BY <1>10, <2>2, SumZero
  <2> QED
    BY <1>1, <2>1, <2>2, <2>4, <2>5
<1>12. SumOver(rows, LAMBDA r : r.remaining) = debt.outstanding
  <2> DEFINE f == [i \in DOMAIN rows |-> rows[i].remaining]
             g == [i \in DOMAIN periods |-> Open(periods[i])]
  <2>1. SumOver(rows, LAMBDA r : r.remaining) = SumFunctionOnSet(f, 1..(N + 1))
    BY <1>8 DEF SumOver, Total, SumFunction
  <2>2. SumOver(periods, Open) = SumFunctionOnSet(g, 1..N)
    BY <1>1 DEF SumOver, Total, SumFunction
  <2>3. (\A i \in 1..N : f[i] = g[i] /\ f[i] \in Int) /\ f[N + 1] = debt.capital
    BY <1>1, <1>8, <1>9
  <2> HIDE DEF f, g
  <2>4. \A i \in 1..(N + 1) : f[i] \in Int
    <3> TAKE i \in 1..(N + 1)
    <3>1. i \in 1..N \/ i = N + 1
      BY <1>1
    <3>2. debt.capital \in Int
      BY <1>6
    <3> QED
      BY <2>3, <3>1, <3>2
  <2>5. SumFunctionOnSet(f, 1..(N + 1)) = SumFunctionOnSet(f, 1..N) + f[N + 1]
    BY <1>1, <2>4, SumStep
  <2>6. SumFunctionOnSet(f, 1..N) = SumFunctionOnSet(g, 1..N)
    BY <1>10, <2>3, SumSame
  <2>7. SumFunctionOnSet(f, 1..N) \in Int
    BY <1>10, <2>3, SumInt
  <2> QED
    BY <1>4, <1>6, <2>1, <2>2, <2>3, <2>5, <2>6, <2>7
<1>13. \A i \in 1..(N + 1) :
            /\ rows[i].capital \in Int /\ rows[i].interest \in Int /\ rows[i].penalty \in Int
            /\ rows[i].amount = rows[i].capital + rows[i].interest + rows[i].penalty
            /\ rows[i].capital >= 0 /\ rows[i].interest >= 0
  <2> TAKE i \in 1..(N + 1)
  <2>1. CASE i \in 1..N
    <3>1. /\ rows[i].capital = 0 /\ rows[i].interest = periods[i].base
          /\ rows[i].penalty = periods[i].penalty /\ rows[i].amount = periods[i].amount
      BY <1>8, <2>1
    <3>2. /\ periods[i].base \in Nat /\ periods[i].penalty \in Int
          /\ periods[i].amount = periods[i].base + periods[i].penalty
      BY <1>2, <2>1
    <3> QED
      BY <3>1, <3>2
  <2>2. CASE i = N + 1
    BY <1>1, <1>9, <2>2
  <2> QED
    BY <1>1, <2>1, <2>2
<1>14. totals.principal + totals.interest + totals.penalty = totals.schedule
  <2>1. Tabular(rows, N + 1) /\ N + 1 \in Nat
    BY <1>1, <1>8, <1>13 DEF Tabular
  <2> QED
    BY <2>1, TotalsAdd
<1>15. WithinRounding(totals.principal - terms.principal) /\ totals.principal - terms.principal = 0
  BY <1>1, <1>11 DEF WithinRounding, P
<1>16. \A i \in DOMAIN rows : rows[i].capital >= 0 /\ rows[i].interest >= 0
  BY <1>8, <1>13
<1>17. rows[Len(rows)].balance = terms.principal - totals.principal
  BY <1>1, <1>8, <1>9, <1>11 DEF P
<1> QED
  BY <1>12, <1>14, <1>15, <1>16, <1>17 DEF AsPreviewed

\* The invariant implies ScheduleKept.
LEMMA KeepsSchedule == ASSUME Typed, RegularInv PROVE ScheduleKept
<1> SUFFICES ASSUME Regular PROVE AsPreviewed(Schedule, Preview, AmortizationTotals(Schedule))
  BY DEF ScheduleKept
<1>1. CASE Multi
  BY <1>1, MultiKept
<1>2. CASE ~Multi
  BY <1>2, SingleKept
<1> QED
  BY <1>1, <1>2

\* ScheduleKept always holds: capital and interest of every period are never negative, add up to the
\* principal and the schedule, and are those of the preview, and what remains is what the debt row says.
THEOREM ScheduleAlwaysKept == Spec => []ScheduleKept
BY AlwaysInv, KeepsSchedule, PTL

-----------------------------------------------------------------------------
(* Products, and rounding over a common denominator.                       *)

Multiplied(S, h) == [s \in SUBSET S |-> IF s = {} THEN 1 ELSE Pick(s) * h[s \ {Pick(s)}]]
MultipliesUp(s, h) == h[s] = IF s = {} THEN 1 ELSE Pick(s) * h[s \ {Pick(s)}]

\* The product over a set is read off a function on its subsets that takes one member at a time.
LEMMA ProductUnfold ==
  ASSUME NEW S
  PROVE  Product(S) = (CHOOSE h : h = Multiplied(S, h))[S]
  BY DEF Product, FoldSet, MapThenFoldSet, Multiplied, Pick

\* The function the product is read off exists.
LEMMA ProductExists ==
  ASSUME NEW S, IsFiniteSet(S)
  PROVE  \E h : h = Multiplied(S, h)
<1> DEFINE G == {n \in Nat : \E h : DOMAIN h = Level(S, n) /\ \A s \in Level(S, n) : MultipliesUp(s, h)}
<1>1. \A s \in SUBSET S : Cardinality(s) \in Nat /\ (Cardinality(s) = 0 <=> s = {})
  BY Subsets
<1>2. \A s \in SUBSET S : s # {} => s \ {Pick(s)} \in SUBSET S /\ Cardinality(s \ {Pick(s)}) = Cardinality(s) - 1
  BY Subsets
<1>3. 0 \in G
  <2> DEFINE h == [s \in Level(S, 0) |-> 1]
  <2>1. \A s \in Level(S, 0) : s = {}
    BY <1>1 DEF Level
  <2>2. DOMAIN h = Level(S, 0) /\ \A s \in Level(S, 0) : MultipliesUp(s, h)
    BY <2>1 DEF MultipliesUp
  <2> QED
    BY <2>2
<1>4. ASSUME NEW n \in Nat, n \in G PROVE n + 1 \in G
  <2>1. PICK g : DOMAIN g = Level(S, n) /\ \A s \in Level(S, n) : MultipliesUp(s, g)
    BY <1>4
  <2> DEFINE h == [s \in Level(S, n + 1) |-> IF s \in Level(S, n) THEN g[s] ELSE Pick(s) * g[s \ {Pick(s)}]]
  <2>2. ASSUME NEW s \in Level(S, n + 1) PROVE MultipliesUp(s, h)
    <3>1. s = {} => s \in Level(S, n)
      BY <1>1 DEF Level
    <3>2. s # {} => s \ {Pick(s)} \in Level(S, n) /\ s \ {Pick(s)} \in Level(S, n + 1)
      BY <1>1, <1>2 DEF Level
    <3>3. s # {} => h[s \ {Pick(s)}] = g[s \ {Pick(s)}]
      BY <3>2
    <3>4. s \in Level(S, n) => MultipliesUp(s, g)
      BY <2>1
    <3> QED
      BY <3>1, <3>2, <3>3, <3>4 DEF MultipliesUp
  <2>3. DOMAIN h = Level(S, n + 1)
    OBVIOUS
  <2> HIDE DEF h
  <2> QED
    BY <2>2, <2>3
<1>5. Cardinality(S) \in Nat
  BY FS_CardinalityType
<1> HIDE DEF G
<1>6. Cardinality(S) \in G
  BY <1>3, <1>4, <1>5, UpFromZero
<1>7. PICK h : DOMAIN h = Level(S, Cardinality(S)) /\ \A s \in Level(S, Cardinality(S)) : MultipliesUp(s, h)
  BY <1>6 DEF G
<1>8. Level(S, Cardinality(S)) = SUBSET S
  BY Subsets DEF Level
<1> DEFINE k == [s \in SUBSET S |-> h[s]]
<1>9. ASSUME NEW s \in SUBSET S PROVE k[s] = IF s = {} THEN 1 ELSE Pick(s) * k[s \ {Pick(s)}]
  BY <1>7, <1>8, Subsets DEF MultipliesUp
<1>10. k = Multiplied(S, k)
  BY <1>9 DEF Multiplied
<1> QED
  BY <1>10

\* b goes into x.
Divides(b, x) == \E k \in Nat : x = b * k

\* A product of positive numbers is positive, and each of them goes into it.
LEMMA ProductDivides ==
  ASSUME NEW S, IsFiniteSet(S), S \subseteq Nat \ {0}
  PROVE  Product(S) \in Nat \ {0} /\ \A b \in S : Divides(b, Product(S))
<1> DEFINE H == CHOOSE h : h = Multiplied(S, h)
           Good(T) == H[T] \in Nat \ {0} /\ \A b \in T : Divides(b, H[T])
           G == {T \in SUBSET S : Good(T)}
<1>1. H = Multiplied(S, H)
  BY ProductExists
<1>2. Product(S) = H[S]
  BY ProductUnfold
<1> HIDE DEF H
<1>3. \A T \in SUBSET S : H[T] = IF T = {} THEN 1 ELSE Pick(T) * H[T \ {Pick(T)}]
  <2> TAKE T \in SUBSET S
  <2>1. Multiplied(S, H)[T] = IF T = {} THEN 1 ELSE Pick(T) * H[T \ {Pick(T)}]
    BY DEF Multiplied
  <2> QED
    BY <1>1, <2>1
<1>4. ASSUME NEW T \in SUBSET S, \A x \in T : T \ {x} \in G PROVE T \in G
  <2>1. CASE T = {}
    <3>1. H[T] = 1 /\ 1 \in Nat \ {0}
      BY <1>3, <2>1
    <3>2. Good(T)
      BY <2>1, <3>1
    <3> QED
      BY <3>2
  <2>2. CASE T # {}
    <3> DEFINE p == Pick(T)
               q == H[T \ {p}]
    <3>1. p \in T
      BY <2>2 DEF Pick
    <3>2. H[T] = p * q
      BY <1>3, <2>2
    <3>3. Good(T \ {p})
      BY <1>4, <3>1
    <3> HIDE DEF p
    <3>4. p \in Nat \ {0} /\ q \in Nat \ {0}
      BY <3>1, <3>3
    <3>5. ASSUME NEW b \in T PROVE Divides(b, H[T])
      <4>1. CASE b = p
        BY <3>2, <3>4, <4>1 DEF Divides
      <4>2. CASE b # p
        <5>1. PICK k \in Nat : q = b * k
          BY <3>3, <4>2 DEF Divides
        <5>2. b \in Nat /\ p * k \in Nat
          BY <3>4
        <5> HIDE DEF q
        <5>3. p * (b * k) = b * (p * k)
          BY <3>4, <5>2
        <5> QED
          BY <3>2, <5>1, <5>2, <5>3 DEF Divides
      <4> QED
        BY <4>1, <4>2
    <3> HIDE DEF q
    <3>6. H[T] \in Nat \ {0}
      BY <3>2, <3>4
    <3> QED
      BY <3>5, <3>6
  <2> QED
    BY <2>1, <2>2
<1>5. \A T \in SUBSET S : (\A x \in T : T \ {x} \in G) => T \in G
  BY <1>4
<1> HIDE DEF G
<1>6. S \in G
  BY <1>5, UpFromSmaller
<1> QED
  BY <1>2, <1>6 DEF G

\* A number that goes into another goes into it without a rest.
LEMMA DivExact ==
  ASSUME NEW c \in Nat, NEW b \in Nat \ {0}, Divides(b, c)
  PROVE  c \div b \in Nat /\ b * (c \div b) = c
<1>1. PICK k \in Nat : c = b * k
  BY DEF Divides
<1> DEFINE d == c \div b
<1>2. d \in Int /\ b * d <= c /\ c < b * d + b
  BY DivLow, DivHigh
<1> HIDE DEF d
<1>3. d = k
  <2>1. b * d <= b * k /\ b * k < b * d + b
    BY <1>1, <1>2
  <2>2. b * d + b = b * (d + 1)
    BY <1>2
  <2>3. CASE d > k
    <3>1. b * d = b * k + b * (d - k) /\ b * (d - k) > 0
      BY <1>2, <2>3
    <3>2. b * d \in Int /\ b * k \in Int /\ b * (d - k) \in Int
      BY <1>2
    <3> QED
      BY <2>1, <3>1, <3>2
  <2>4. CASE d < k
    <3>1. b * k = b * (d + 1) + b * (k - (d + 1)) /\ b * (k - (d + 1)) >= 0
      BY <1>2, <2>4
    <3>2. b * (d + 1) \in Int /\ b * k \in Int /\ b * (k - (d + 1)) \in Int
      BY <1>2
    <3> QED
      BY <2>1, <2>2, <3>1, <3>2
  <2> QED
    BY <1>2, <2>3, <2>4
<1> QED
  BY <1>1, <1>3 DEF d

\* Rounding a multiple of the denominator is exact, and rounding keeps the order.
LEMMA RoundedExact ==
  ASSUME NEW x \in Nat, NEW c \in Nat \ {0}
  PROVE  Rounded(c * x, c) = x
<1> DEFINE b == 2 * c
           a == 2 * (c * x) + c
           q == Rounded(c * x, c)
<1>1. a \in Nat /\ b \in Nat \ {0} /\ q = a \div b /\ c * x \in Nat
  BY DEF Rounded
<1>2. b * (a \div b) <= a /\ a < b * (a \div b) + b /\ a \div b \in Int
  <2> HIDE DEF a, b
  <2> QED
    BY <1>1, DivLow, DivHigh
<1>3. q \in Int /\ b * q <= a /\ a < b * q + b
  BY <1>1, <1>2
<1> HIDE DEF q
<1>4. b * q = 2 * (c * q) /\ c * q \in Int
  BY <1>3
<1>5. 2 * (c * q) <= 2 * (c * x) + c /\ 2 * (c * x) + c < 2 * (c * q) + 2 * c
  BY <1>3, <1>4
<1>6. CASE q > x
  <2>1. c * q = c * x + c * (q - x) /\ c * (q - x) \in Nat /\ c * (q - x) = c * (q - x - 1) + c /\ c * (q - x - 1) \in Nat
    BY <1>3, <1>6
  <2> QED
    BY <1>1, <1>4, <1>5, <2>1
<1>7. CASE q < x
  <2>1. c * x = c * q + c * (x - q) /\ c * (x - q) \in Nat /\ c * (x - q) = c * (x - q - 1) + c /\ c * (x - q - 1) \in Nat
    BY <1>3, <1>7
  <2> QED
    BY <1>1, <1>4, <1>5, <2>1
<1>8. q = x
  BY <1>3, <1>6, <1>7
<1> QED
  BY <1>8 DEF q

LEMMA RoundedOrder ==
  ASSUME NEW x \in Nat, NEW y \in Nat, x <= y, NEW c \in Nat \ {0}
  PROVE  Rounded(x, c) <= Rounded(y, c)
<1> DEFINE b == 2 * c
           p == Rounded(x, c)
           q == Rounded(y, c)
<1>1. b \in Nat \ {0} /\ p = (2 * x + c) \div b /\ q = (2 * y + c) \div b
  BY DEF Rounded
<1>2. ASSUME NEW d \in Int PROVE b * (d \div b) <= d /\ d < b * (d \div b) + b
  <2> HIDE DEF b
  <2> QED
    BY <1>1, DivLow, DivHigh
<1>3. p \in Nat /\ q \in Nat
  BY RoundedNat
<1>4. b * p <= 2 * x + c /\ 2 * y + c < b * q + b
  <2>1. 2 * x + c \in Int /\ 2 * y + c \in Int
    OBVIOUS
  <2> HIDE DEF b, p, q
  <2> QED
    BY <1>1, <1>2, <2>1
<1> HIDE DEF b, p, q
<1>5. b * p < b * q + b /\ b * p \in Int /\ b * q \in Int
  BY <1>1, <1>3, <1>4
<1>6. CASE p > q
  <2>1. b * p = b * q + b + b * (p - q - 1) /\ b * (p - q - 1) \in Nat
    BY <1>1, <1>3, <1>6
  <2> QED
    BY <1>1, <1>5, <2>1
<1> QED
  BY <1>3, <1>6 DEF p, q

\* A common factor of the terms is one of the sum.
LEMMA SumScale ==
  ASSUME NEW f, NEW h, NEW S, IsFiniteSet(S), NEW c \in Int, \A x \in S : f[x] \in Int /\ h[x] = c * f[x]
  PROVE  SumFunctionOnSet(h, S) = c * SumFunctionOnSet(f, S)
<1> DEFINE G == {T \in SUBSET S : SumFunctionOnSet(h, T) = c * SumFunctionOnSet(f, T)}
<1>1. G = {T \in SUBSET S : SumFunctionOnSet(h, T) = c * SumFunctionOnSet(f, T)}
  OBVIOUS
<1> HIDE DEF G
<1>2. {} \in G
  <2>1. SumFunctionOnSet(h, {}) = 0 /\ SumFunctionOnSet(f, {}) = 0 /\ c * 0 = 0
    BY SumEmpty
  <2> QED
    BY <1>1, <2>1
<1>3. ASSUME NEW T \in SUBSET S, NEW x \in T, T \ {x} \in G PROVE T \in G
  <2>1. IsFiniteSet(T) /\ IsFiniteSet(T \ {x})
    BY Subsets
  <2>2. f[x] \in Int /\ h[x] = c * f[x]
    OBVIOUS
  <2>3. \A y \in T : h[y] \in Int /\ f[y] \in Int
    <3> TAKE y \in T
    <3>1. f[y] \in Int /\ h[y] = c * f[y]
      OBVIOUS
    <3> QED
      BY <3>1
  <2>4. SumFunctionOnSet(f, T) = f[x] + SumFunctionOnSet(f, T \ {x}) /\ SumFunctionOnSet(f, T \ {x}) \in Int
    BY <2>1, <2>3, SumRemove, SumInt
  <2>5. SumFunctionOnSet(h, T) = h[x] + SumFunctionOnSet(h, T \ {x})
    BY <2>1, <2>3, SumRemove
  <2>6. SumFunctionOnSet(h, T \ {x}) = c * SumFunctionOnSet(f, T \ {x})
    BY <1>1, <1>3
  <2>7. \A a, b \in Int : c * (a + b) = c * a + c * b
    OBVIOUS
  <2>8. SumFunctionOnSet(h, T) = c * SumFunctionOnSet(f, T)
    BY <2>2, <2>4, <2>5, <2>6, <2>7
  <2> QED
    BY <1>1, <2>8
<1>4. \A T \in SUBSET S : \A x \in T : T \ {x} \in G => T \in G
  BY <1>3
<1>5. S \in G
  BY <1>2, <1>4, UpFromEmpty
<1> QED
  BY <1>1, <1>5

\* Natural terms: a part of the sum is not more than the sum, and the same if all others are zero.
LEMMA SumPart ==
  ASSUME NEW f, NEW S, IsFiniteSet(S), \A x \in S : f[x] \in Nat, NEW R \in SUBSET S
  PROVE  /\ IsFiniteSet(R) /\ SumFunctionOnSet(f, R) \in Nat
         /\ SumFunctionOnSet(f, R) <= SumFunctionOnSet(f, S)
         /\ (\A x \in S \ R : f[x] = 0) => SumFunctionOnSet(f, R) = SumFunctionOnSet(f, S)
<1> DEFINE Q == S \ R
<1>1. R \cup Q = S /\ R \cap Q = {} /\ Q \in SUBSET S
  OBVIOUS
<1>2. IsFiniteSet(R) /\ IsFiniteSet(Q)
  BY <1>1, FS_Subset
<1>3. SumFunctionOnSet(f, R) \in Nat /\ SumFunctionOnSet(f, Q) \in Nat
  <2>1. (\A x \in R : f[x] \in Nat) /\ \A x \in Q : f[x] \in Nat
    OBVIOUS
  <2> HIDE DEF Q
  <2> QED
    BY <1>2, <2>1, SumNat
<1>4. SumFunctionOnSet(f, S) = SumFunctionOnSet(f, R) + SumFunctionOnSet(f, Q)
  <2>1. \A x \in R \cup Q : f[x] \in Int
    OBVIOUS
  <2> HIDE DEF Q
  <2>2. SumFunctionOnSet(f, R \cup Q) = SumFunctionOnSet(f, R) + SumFunctionOnSet(f, Q)
    BY <1>1, <1>2, <2>1, SumUnion
  <2> QED
    BY <1>1, <2>2
<1>5. ASSUME \A x \in Q : f[x] = 0 PROVE SumFunctionOnSet(f, Q) = 0
  <2> HIDE DEF Q
  <2> QED
    BY <1>2, <1>5, SumZero
<1> HIDE DEF Q
<1> QED
  BY <1>2, <1>3, <1>4, <1>5 DEF Q

-----------------------------------------------------------------------------
(* Invoices, receipts and share links.                                     *)

\* A part of a base over its own denominator, and the base.
LEMMA ShareOfBase ==
  ASSUME NEW l \in Nat, NEW b \in Nat, l <= b, NEW p \in Nat, NEW s \in Nat
  PROVE  l * p * s \in Nat /\ l * p * s <= b * s * p /\ (l = b => l * p * s = b * s * p)
<1>1. l * p * s \in Nat /\ (b - l) * p * s \in Nat /\ b * s * p \in Nat
  <2>1. l * p \in Nat /\ b - l \in Nat /\ b * s \in Nat
    OBVIOUS
  <2>2. (b - l) * p \in Nat
    BY <2>1
  <2> QED
    BY <2>1, <2>2
<1>2. b * s * p = l * p * s + (b - l) * p * s
  OBVIOUS
<1>3. l = b => l * p * s = b * s * p
  OBVIOUS
<1> QED
  BY <1>1, <1>2, <1>3

\* The capital in the open part of the periods is at most their capital, and all of it when each
\* has its whole base open.
LEMMA SharesBound ==
  ASSUME NEW ps, NEW bases, NEW portions, NEW owing, IsFiniteSet(owing),
         \A i \in owing : bases[i] \in Nat \ {0} /\ portions[i] \in Nat /\ Open(ps[i]) \in Nat
  PROVE  LET x == OpenShares(ps, bases, portions, owing)
             y == SumFunctionOnSet(portions, owing)
         IN x \in Nat /\ y \in Nat /\ x <= y /\ ((\A i \in owing : Open(ps[i]) >= bases[i]) => x = y)
<1> DEFINE S == {bases[i] : i \in owing}
           c == Product(S)
           part == [i \in owing |-> Lesser(Open(ps[i]), bases[i]) * portions[i] * (c \div bases[i])]
           whole == [i \in owing |-> c * portions[i]]
           x == OpenShares(ps, bases, portions, owing)
           y == SumFunctionOnSet(portions, owing)
           sum == SumFunctionOnSet(part, owing)
<1>1. IsFiniteSet(S)
  <2> DEFINE f == [i \in owing |-> bases[i]]
  <2>1. S = {f[i] : i \in owing} /\ DOMAIN f = owing
    OBVIOUS
  <2> HIDE DEF f, S
  <2> QED
    BY <2>1, ImageFinite
<1>2. S \subseteq Nat \ {0}
  OBVIOUS
<1>3. c \in Nat \ {0} /\ \A b \in S : Divides(b, c)
  <2> HIDE DEF S
  <2> QED
    BY <1>1, <1>2, ProductDivides
<1>4. x = Rounded(sum, c)
  BY DEF OpenShares, Total, SumFunction
<1> HIDE DEF c, x
<1>5. ASSUME NEW i \in owing
      PROVE  /\ part[i] \in Nat /\ whole[i] \in Nat /\ part[i] <= whole[i] /\ whole[i] = c * portions[i]
             /\ Open(ps[i]) >= bases[i] => part[i] = whole[i]
  <2> DEFINE l == Lesser(Open(ps[i]), bases[i])
             b == bases[i]
             p == portions[i]
             s == c \div bases[i]
  <2>1. b \in Nat \ {0} /\ p \in Nat /\ l \in Nat /\ l <= b /\ (Open(ps[i]) >= b => l = b)
    BY DEF Lesser
  <2>2. s \in Nat /\ b * s = c
    <3>1. Divides(b, c)
      BY <1>3
    <3> HIDE DEF b
    <3>2. c \div b \in Nat /\ b * (c \div b) = c
      BY <1>3, <2>1, <3>1, DivExact
    <3> QED
      BY <3>2 DEF b
  <2>3. part[i] = l * p * s /\ whole[i] = c * p
    OBVIOUS
  <2> HIDE DEF l, b, p, s
  <2>4. l * p * s \in Nat /\ l * p * s <= b * s * p /\ (l = b => l * p * s = b * s * p)
    BY <2>1, <2>2, ShareOfBase
  <2>5. b * s * p = c * p /\ c * p \in Nat
    BY <1>3, <2>1, <2>2
  <2> QED
    BY <2>1, <2>3, <2>4, <2>5 DEF b, p
<1> HIDE DEF part, whole
<1>6. sum \in Nat /\ SumFunctionOnSet(whole, owing) \in Nat /\ y \in Nat
  BY <1>5, SumNat
<1>7. sum <= SumFunctionOnSet(whole, owing)
  <2>1. \A i \in owing : part[i] \in Int /\ whole[i] \in Int /\ part[i] <= whole[i]
    BY <1>5
  <2> QED
    BY <2>1, SumLess
<1>8. SumFunctionOnSet(whole, owing) = c * y
  <2>1. c \in Int /\ \A i \in owing : portions[i] \in Int /\ whole[i] = c * portions[i]
    BY <1>3, <1>5
  <2> QED
    BY <2>1, SumScale
<1>9. (\A i \in owing : Open(ps[i]) >= bases[i]) => sum = c * y
  <2> SUFFICES ASSUME \A i \in owing : Open(ps[i]) >= bases[i] PROVE sum = SumFunctionOnSet(whole, owing)
    BY <1>8
  <2>1. \A i \in owing : part[i] = whole[i]
    BY <1>5
  <2> QED
    BY <2>1, SumSame
<1> HIDE DEF sum, y
<1>10. c * y \in Nat /\ sum <= c * y /\ Rounded(c * y, c) = y
  BY <1>3, <1>6, <1>7, <1>8, RoundedExact
<1>11. Rounded(sum, c) <= Rounded(c * y, c) /\ Rounded(sum, c) \in Nat
  BY <1>3, <1>6, <1>10, RoundedOrder, RoundedNat
<1>12. x \in Nat /\ x <= y /\ ((\A i \in owing : Open(ps[i]) >= bases[i]) => x = y)
  BY <1>4, <1>9, <1>10, <1>11
<1> QED
  BY <1>6, <1>12 DEF x, y

\* The debt row as it would be after a reconciliation.
LEMMA NowColumns ==
  ASSUME Typed
  PROVE  LET open == SumOver(ReconciledNow, Open)
         IN /\ DebtNow.capital = (IF Multi THEN debt.capital ELSE Positive(terms.principal - Principal(payments)))
            /\ DebtNow.outstanding = (IF Multi THEN open ELSE DebtNow.capital + open)
<1> DEFINE open == SumOver(ReconciledNow, Open)
           capital == IF Multi THEN debt.capital ELSE Positive(terms.principal - Principal(payments))
           outstanding == IF Multi THEN open ELSE capital + open
           total == IF Multi THEN SumOver(ReconciledNow, LAMBDA p : p.amount) ELSE outstanding
           status == CurrentStatus(outstanding, debt.due, today)
           collected == Sum(payments)
<1>1. DebtNow = [debt EXCEPT !.capital = capital, !.total = total, !.collected = collected,
                             !.outstanding = outstanding, !.status = status]
  BY DEF DebtNow, ReconciledDebt
<1>2. debt \in DebtRow
  BY LedgerFacts
<1> HIDE DEF capital, open, total, status, collected
<1>3. DebtNow.capital = capital /\ DebtNow.outstanding = outstanding
  <2> HIDE DEF outstanding
  <2> QED
    BY <1>1, <1>2 DEF DebtRow
<1> QED
  BY <1>3 DEF capital, open

\* An invoice shows the debt as it would be after a reconciliation, whether or not the day has made it stale.
LEMMA InvoiceNow ==
  ASSUME Typed, RegularInv, Regular
  PROVE  /\ InvoiceFigures = Statement(terms.loanType, terms.principal, DebtNow.capital, ReconciledNow)
         /\ ~Stale => LinkFigures = InvoiceFigures
         /\ \A n \in DOMAIN periods : PeriodReceipt(n) = periods[n].paid
<1>1. ~Stale => periods = ReconciledNow /\ debt = DebtNow
  BY NothingMissed DEF AssessmentMissesNothing, AsReconciled
<1>2. \A n \in DOMAIN periods : ReconciledNow[n].paid = periods[n].paid
  BY NowType, LedgerFacts
<1> QED
  BY <1>1, <1>2 DEF InvoiceFigures, LinkFigures, PeriodReceipt

\* The rows an invoice of a regular loan in equal periods adds up.
LEMMA NowRows ==
  ASSUME Typed, RegularInv, Regular, NEW n \in DOMAIN periods
  PROVE  /\ periods[n].base \in Nat /\ periods[n].paid \in Nat /\ periods[n].amount \in Nat
         /\ ReconciledNow[n].penalty \in Nat
         /\ ReconciledNow[n].base = periods[n].base /\ Base(ReconciledNow[n]) = periods[n].base
         /\ ReconciledNow[n].paid = periods[n].paid
         /\ ReconciledNow[n].amount = periods[n].base + ReconciledNow[n].penalty
         /\ periods[n].amount <= ReconciledNow[n].amount
         /\ Open(ReconciledNow[n]) = ReconciledNow[n].amount - periods[n].paid
         /\ Open(ReconciledNow[n]) \in Nat
         /\ periods[n].paid = periods[n].amount => Open(ReconciledNow[n]) = 0 /\ Open(periods[n]) = 0
         /\ periods[n].paid = 0 =>
              Open(ReconciledNow[n]) >= periods[n].base /\ (Open(ReconciledNow[n]) > 0 <=> Open(periods[n]) > 0)
<1> DEFINE p == periods[n]
           q == ReconciledNow[n]
           rate == debt.penaltyRate
           pc == Percent(p.base, rate)
<1>1. /\ TermsTyped /\ LedgerTyped /\ rate \in Nat /\ today \in Int
  BY LedgerFacts
<1>2. /\ q = Row(p, p.paid, rate, today) /\ p \in Record /\ q \in Record /\ Base(p) = p.base
      /\ q.base = p.base /\ Base(q) = p.base /\ q.paid = p.paid /\ q.amount = q.base + q.penalty
  BY <1>1, NowType
<1>3. Sound(q, rate, today) /\ q.amount >= p.amount /\ PreSound(p, rate, today) /\ p.paid <= p.amount
  BY NowSound DEF RegularInv, Sound
<1>4. p.base \in Int /\ p.penalty \in Int /\ p.amount \in Int /\ p.paid \in Nat /\ q.penalty \in Int /\ q.amount \in Int
  <2>1. p \in Record /\ q \in Record
    BY <1>2
  <2> HIDE DEF p, q
  <2>2. p.base \in Int /\ p.penalty \in Int /\ p.amount \in Int /\ p.paid \in Nat
    BY <2>1 DEF Record
  <2>3. q.penalty \in Int /\ q.amount \in Int
    BY <2>1 DEF Record
  <2> QED
    BY <2>2, <2>3
<1>5. p.base \in Nat /\ p.amount = p.base + p.penalty /\ p.penalty \in {0, pc} /\ q.penalty \in {0, pc} /\ pc \in Nat
  <2>1. p.base >= 0 /\ p.amount = p.base + p.penalty /\ p.penalty \in {0, pc} /\ q.penalty \in {0, pc}
    BY <1>2, <1>3 DEF Sound, PreSound
  <2>2. p.base \in Nat
    BY <1>4, <2>1
  <2>3. pc \in Nat
    BY <1>1, <2>2, PercentNat
  <2> QED
    BY <2>1, <2>2, <2>3
<1>6. q.penalty = IF p.paid >= p.amount /\ p.amount > 0 THEN p.penalty
                  ELSE IF p.due < today /\ p.paid < p.amount THEN pc ELSE 0
  BY <1>2 DEF Row, Penalty
<1>7. q.paid <= q.amount
  BY <1>3 DEF Sound
<1>8. Open(q) = Positive(q.amount - q.paid) /\ Open(p) = Positive(p.amount - p.paid)
  BY DEF Open
<1> HIDE DEF p, q, rate, pc
<1>9. q.amount = p.base + q.penalty /\ q.penalty \in Nat /\ p.amount \in Nat
  BY <1>2, <1>4, <1>5
<1>10. Open(q) = q.amount - p.paid /\ Open(q) \in Nat
  BY <1>2, <1>4, <1>7, <1>8 DEF Positive
<1>11. p.paid = p.amount => Open(q) = 0 /\ Open(p) = 0
  <2> SUFFICES ASSUME p.paid = p.amount PROVE q.amount = p.amount /\ Open(p) = 0
    BY <1>4, <1>10
  <2>1. Open(p) = 0
    BY <1>4, <1>8 DEF Positive
  <2>2. CASE p.amount > 0
    BY <1>4, <1>5, <1>6, <1>9, <2>1, <2>2
  <2>3. CASE p.amount = 0
    <3>1. p.base = 0 /\ q.penalty = 0
      BY <1>4, <1>5, <1>6, <2>3
    <3> QED
      BY <1>9, <2>1, <2>3, <3>1
  <2> QED
    BY <1>9, <2>1, <2>2, <2>3
<1>12. p.paid = 0 => Open(q) >= p.base /\ (Open(q) > 0 <=> Open(p) > 0)
  <2> SUFFICES ASSUME p.paid = 0 PROVE Open(q) >= p.base /\ (Open(q) > 0 <=> Open(p) > 0)
    OBVIOUS
  <2>1. Open(q) = q.amount /\ Open(p) = p.amount
    BY <1>4, <1>9, <1>8, <1>10 DEF Positive
  <2>2. p.amount = 0 => q.amount = 0
    BY <1>4, <1>9, <1>10, <1>11, <2>1
  <2> QED
    BY <1>3, <1>4, <1>5, <1>9, <2>1, <2>2
<1> QED
  BY <1>2, <1>3, <1>4, <1>5, <1>9, <1>10, <1>11, <1>12 DEF p, q

\* The capital an invoice of a loan in equal periods asks for.
LEMMA InvoiceCapital ==
  ASSUME Typed, RegularInv, Regular, Multi,
         NEW portions, portions = CapitalPortions(terms.principal, Bases(periods)),
         NEW x, x = OpenCapital(terms.principal, ReconciledNow),
         NEW open, open = {n \in DOMAIN periods : Open(periods[n]) > 0}
  PROVE  /\ x \in Nat /\ x <= terms.principal
         /\ (\A n \in DOMAIN periods : periods[n].paid \in {0, periods[n].amount}) =>
              x = SumFunctionOnSet(portions, open) /\ x <= SumOver(ReconciledNow, Open)
<1> DEFINE N == Len(periods)
           bases == Bases(periods)
           owing == {n \in DOMAIN periods : Open(ReconciledNow[n]) > 0 /\ bases[n] > 0}
           debts == [n \in DOMAIN periods |-> Open(ReconciledNow[n])]
<1>1. /\ bases \in [1..N -> Nat] /\ N \in Nat \ {0} /\ DOMAIN periods = 1..N /\ terms.principal \in Nat
      /\ \A n \in 1..N : bases[n] = periods[n].base
  BY RegularBases
<1>2. TermsTyped /\ LedgerTyped /\ DOMAIN ReconciledNow = DOMAIN periods
  BY LedgerFacts, NowType
<1>3. \A n \in 1..N : Base(ReconciledNow[n]) = bases[n] /\ Open(ReconciledNow[n]) \in Nat /\ periods[n].base \in Nat
  BY <1>1, NowRows
<1>4. Bases(ReconciledNow) = bases
  <2>1. Bases(ReconciledNow) = [n \in 1..N |-> Base(ReconciledNow[n])]
    BY <1>1, <1>2 DEF Bases
  <2> HIDE DEF bases
  <2> QED
    BY <1>1, <1>3, <2>1
<1>5. Fitted(portions, terms.principal, bases, N)
  <2> HIDE DEF bases
  <2> QED
    BY <1>1, PortionsFit DEF bases
<1>6. x = OpenShares(ReconciledNow, bases, portions, owing)
  <2>1. {n \in DOMAIN ReconciledNow : Open(ReconciledNow[n]) > 0 /\ Base(ReconciledNow[n]) > 0} = owing
    BY <1>1, <1>2, <1>3
  <2> HIDE DEF bases, owing
  <2> QED
    BY <1>4, <2>1 DEF OpenCapital, bases
<1> HIDE DEF bases
<1>7. /\ \A n \in 1..N : portions[n] \in Nat /\ portions[n] <= bases[n]
      /\ SumFunctionOnSet(portions, 1..N) = Lesser(terms.principal, Total(bases))
  BY <1>5 DEF Fitted
<1>8. Total(bases) \in Nat /\ SumFunctionOnSet(portions, 1..N) <= terms.principal
  <2>1. Total(bases) = SumFunctionOnSet(bases, 1..N)
    BY <1>1 DEF Total, SumFunction
  <2>2. IsFiniteSet(1..N)
    BY <1>1, FS_Interval
  <2>3. Total(bases) \in Nat
    BY <1>1, <2>1, <2>2, SumNat
  <2> QED
    BY <1>1, <1>7, <2>3 DEF Lesser
<1>9. /\ owing \in SUBSET (1..N) /\ open \in SUBSET (1..N) /\ IsFiniteSet(1..N)
      /\ \A n \in owing : bases[n] \in Nat \ {0} /\ portions[n] \in Nat /\ Open(ReconciledNow[n]) \in Nat
  <2>1. owing \in SUBSET (1..N) /\ open \in SUBSET (1..N)
    BY <1>1
  <2>2. IsFiniteSet(1..N)
    BY <1>1, FS_Interval
  <2>3. ASSUME NEW n \in owing PROVE bases[n] \in Nat \ {0} /\ portions[n] \in Nat /\ Open(ReconciledNow[n]) \in Nat
    <3>1. n \in 1..N /\ bases[n] > 0
      BY <1>1
    <3>2. bases[n] \in Nat
      BY <1>1, <3>1
    <3> QED
      BY <1>3, <1>7, <3>1, <3>2
  <2> QED
    BY <2>1, <2>2, <2>3
<1>10. /\ IsFiniteSet(owing) /\ SumFunctionOnSet(portions, owing) \in Nat
       /\ SumFunctionOnSet(portions, owing) <= SumFunctionOnSet(portions, 1..N)
       /\ IsFiniteSet(open)
  <2> HIDE DEF owing
  <2> QED
    BY <1>7, <1>9, SumPart
<1>11. SumFunctionOnSet(portions, 1..N) \in Nat
  BY <1>7, <1>9, SumNat
<1>12. /\ x \in Nat /\ x <= SumFunctionOnSet(portions, owing)
       /\ (\A n \in owing : Open(ReconciledNow[n]) >= bases[n]) => x = SumFunctionOnSet(portions, owing)
  <2> DEFINE z == OpenShares(ReconciledNow, bases, portions, owing)
             y == SumFunctionOnSet(portions, owing)
  <2>1. IsFiniteSet(owing) /\ \A n \in owing : bases[n] \in Nat \ {0} /\ portions[n] \in Nat /\ Open(ReconciledNow[n]) \in Nat
    BY <1>9, <1>10
  <2> HIDE DEF owing
  <2>2. z \in Nat /\ y \in Nat /\ z <= y /\ ((\A i \in owing : Open(ReconciledNow[i]) >= bases[i]) => z = y)
    BY ONLY <2>1, SharesBound
  <2> QED
    BY <1>6, <2>2
<1>13. x <= terms.principal
  BY <1>1, <1>8, <1>10, <1>11, <1>12
<1>14. ASSUME \A n \in DOMAIN periods : periods[n].paid \in {0, periods[n].amount}
       PROVE  x = SumFunctionOnSet(portions, open) /\ x <= SumOver(ReconciledNow, Open)
  <2>1. ASSUME NEW n \in 1..N
        PROVE  /\ n \in open <=> Open(ReconciledNow[n]) > 0
               /\ n \in open => Open(ReconciledNow[n]) >= bases[n]
    <3>1. periods[n].paid = 0 \/ periods[n].paid = periods[n].amount
      BY <1>1, <1>14
    <3>2. /\ periods[n].paid = periods[n].amount => Open(ReconciledNow[n]) = 0 /\ Open(periods[n]) = 0
          /\ periods[n].paid = 0 =>
              Open(ReconciledNow[n]) >= periods[n].base /\ (Open(ReconciledNow[n]) > 0 <=> Open(periods[n]) > 0)
      BY <1>1, NowRows
    <3>3. n \in open <=> Open(periods[n]) > 0
      BY <1>1
    <3> QED
      BY <1>1, <3>1, <3>2, <3>3
  <2>2. owing \in SUBSET open /\ \A n \in open \ owing : portions[n] = 0
    <3>1. owing \in SUBSET open
      BY <1>1, <2>1
    <3>2. ASSUME NEW n \in open, n \notin owing PROVE portions[n] = 0
      <4>1. n \in 1..N /\ Open(ReconciledNow[n]) > 0
        BY <1>9, <2>1
      <4>2. ~(bases[n] > 0)
        BY <1>1, <3>2, <4>1
      <4>3. portions[n] \in Nat /\ bases[n] \in Nat /\ portions[n] <= bases[n]
        BY <1>1, <1>7, <4>1
      <4> QED
        BY <4>2, <4>3
    <3> QED
      BY <3>1, <3>2
  <2>3. SumFunctionOnSet(portions, owing) = SumFunctionOnSet(portions, open)
    <3>1. \A n \in open : portions[n] \in Nat
      BY <1>7, <1>9
    <3> HIDE DEF owing
    <3> QED
      BY <1>10, <2>2, <3>1, SumPart
  <2>4. \A n \in owing : Open(ReconciledNow[n]) >= bases[n]
    BY <1>9, <2>1, <2>2
  <2>5. x = SumFunctionOnSet(portions, open)
    <3> HIDE DEF owing
    <3> QED
      BY <1>12, <2>3, <2>4
  <2>6. SumFunctionOnSet(portions, open) <= SumFunctionOnSet(debts, open)
    <3>1. ASSUME NEW n \in open PROVE portions[n] \in Int /\ debts[n] \in Int /\ portions[n] <= debts[n]
      <4>1. n \in 1..N /\ Open(ReconciledNow[n]) >= bases[n]
        BY <1>9, <2>1
      <4>2. /\ portions[n] \in Nat /\ bases[n] \in Nat /\ portions[n] <= bases[n]
            /\ Open(ReconciledNow[n]) \in Nat /\ debts[n] = Open(ReconciledNow[n])
        BY <1>1, <1>3, <1>7, <4>1
      <4> HIDE DEF debts
      <4> QED
        BY <4>1, <4>2
    <3> HIDE DEF debts
    <3> QED
      BY <1>10, <3>1, SumLess
  <2>7. SumOver(ReconciledNow, Open) = SumFunctionOnSet(debts, 1..N)
    BY <1>1, <1>2 DEF SumOver, Total, SumFunction
  <2>8. /\ SumFunctionOnSet(debts, open) <= SumFunctionOnSet(debts, 1..N)
        /\ SumFunctionOnSet(debts, open) \in Nat /\ SumFunctionOnSet(debts, 1..N) \in Nat
    <3>1. \A n \in 1..N : debts[n] \in Nat
      BY <1>1, <1>3
    <3> HIDE DEF debts
    <3> QED
      BY <1>9, <3>1, SumPart, SumNat
  <2> HIDE DEF debts
  <2> QED
    BY <1>12, <2>5, <2>6, <2>7, <2>8
<1> QED
  BY <1>12, <1>13, <1>14

-----------------------------------------------------------------------------
(* The capital of a single loan.                                           *)

\* Payments without a period repay capital, every period's interest covers the capital that is left,
\* and a last period that is paid leaves none.
Capital(pays, ps) ==
  /\ \A p \in pays : p.number = 0 => p.kind = "principal"
  /\ \A n \in DOMAIN ps : ps[n].amount >= Interest(terms.principal - Principal(pays))
  /\ PaidOn(Len(ps), pays) = 0 \/ Principal(pays) = terms.principal
CapitalOnly ==
  Regular /\ ~Multi =>
  /\ \A p \in payments : p.number = 0 => p.kind = "principal"
  /\ \A n \in DOMAIN periods : periods[n].amount >= Interest(terms.principal - Principal(payments))
  /\ periods[Len(periods)].paid = 0 \/ Principal(payments) = terms.principal

\* Less capital bears less interest, and none bears none.
LEMMA InterestOrder ==
  ASSUME TermsTyped, NEW a \in Nat, NEW b \in Nat, a <= b
  PROVE  Interest(a) <= Interest(b) /\ Interest(0) = 0 /\ Interest(a) \in Nat
<1> DEFINE r == terms.interestRate
<1>1. r \in Nat
  BY DEF TermsTyped
<1>2. Interest(a) = Rounded(a * r, 100) /\ Interest(b) = Rounded(b * r, 100) /\ Interest(0) = Rounded(0 * r, 100)
  BY DEF Interest, Percent
<1> HIDE DEF r
<1>3. a * r \in Nat /\ b * r \in Nat /\ a * r <= b * r
  <2>1. b * r = a * r + (b - a) * r /\ (b - a) * r \in Nat /\ a * r \in Nat
    BY <1>1
  <2> QED
    BY <2>1
<1>4. Rounded(a * r, 100) <= Rounded(b * r, 100)
  BY <1>3, RoundedOrder
<1>5. 0 * r = 0 /\ Rounded(0, 100) = 0
  BY <1>1 DEF Rounded
<1>6. Interest(a) \in Nat
  BY InterestType
<1> QED
  BY <1>2, <1>4, <1>5, <1>6

\* What an operation on a single loan has to hand to the reconciliation.
LEMMA CapitalStep ==
  ASSUME TermsTyped, NEW d \in DebtRow, d.penaltyRate = 0, NEW ps \in Seq(Record), Len(ps) > 0,
         NEW pays, IsFiniteSet(pays), \A p \in pays : p.amount \in Nat,
         Reconcile(d, ps, pays), \A n \in DOMAIN ps : PreSound(ps[n], 0, today), terms' = terms,
         Capital(pays, ps)
  PROVE  CapitalOnly'
<1>1. /\ Len(periods') = Len(ps) /\ DOMAIN periods' = DOMAIN ps /\ payments' = pays
      /\ \A n \in DOMAIN ps : periods'[n].amount = ps[n].amount /\ periods'[n].paid = PaidOn(n, pays)
  BY SingleRows
<1>2. Len(ps) \in DOMAIN ps
  BY SeqRows
<1>3. \A n \in DOMAIN periods' : periods'[n].amount >= Percent(terms'.principal - Principal(payments'), terms'.interestRate)
  BY <1>1 DEF Capital, Interest
<1>4. periods'[Len(periods')].paid = 0 \/ Principal(payments') = terms'.principal
  BY <1>1, <1>2 DEF Capital
<1>5. \A p \in payments' : p.number = 0 => p.kind = "principal"
  BY <1>1 DEF Capital
<1> QED
  BY <1>3, <1>4, <1>5 DEF CapitalOnly, Interest

\* The capital that is left is what its interest is asked for.
LEMMA CapitalLeft ==
  ASSUME Typed, RegularInv, Regular, ~Multi, CapitalOnly
  PROVE  /\ TermsTyped /\ LedgerTyped /\ terms.principal \in Nat /\ Len(periods) \in DOMAIN periods
         /\ DebtNow.capital \in Nat /\ DebtNow.capital = terms.principal - Principal(payments)
         /\ Principal(payments) \in Nat
         /\ \A p \in payments : p.number = 0 => p.kind = "principal"
         /\ \A n \in DOMAIN periods : periods[n].amount >= Interest(DebtNow.capital)
         /\ periods[Len(periods)].paid = 0 \/ DebtNow.capital = 0
<1>1. /\ TermsTyped /\ LedgerTyped /\ terms.principal \in Nat /\ Len(periods) \in DOMAIN periods
  BY LedgerFacts DEF TermsTyped
<1>2. DebtNow.capital \in Nat /\ DebtNow.capital = terms.principal - Principal(payments) /\ Principal(payments) \in Nat
  BY <1>1, SingleNow
<1>3. /\ \A p \in payments : p.number = 0 => p.kind = "principal"
      /\ \A n \in DOMAIN periods : periods[n].amount >= Interest(terms.principal - Principal(payments))
      /\ periods[Len(periods)].paid = 0 \/ Principal(payments) = terms.principal
  BY DEF CapitalOnly
<1> QED
  BY <1>1, <1>2, <1>3

\* The operations on single loans, one by one, keep the capital.
LEMMA CapitalAssess ==
  ASSUME Typed, RegularInv, Regular, ~Multi, CapitalOnly, Reconcile(debt, periods, payments), terms' = terms
  PROVE  CapitalOnly'
<1>1. /\ TermsTyped /\ periods \in Seq(Record) /\ debt \in DebtRow /\ Len(periods) > 0 /\ IsFiniteSet(payments)
      /\ (\A p \in payments : p.amount \in Nat) /\ Len(periods) \in DOMAIN periods
  BY LedgerFacts
<1>2. /\ debt.penaltyRate = 0
      /\ \A n \in DOMAIN periods : PreSound(periods[n], 0, today) /\ PaidOn(n, payments) = periods[n].paid
  BY SingleNow
<1>3. Capital(payments, periods)
  BY <1>1, <1>2 DEF CapitalOnly, Capital
<1> QED
  BY <1>1, <1>2, <1>3, CapitalStep

LEMMA CapitalRevert ==
  ASSUME Typed, RegularInv, Regular, ~Multi, CapitalOnly, NEW n \in DOMAIN periods, RevertInstallment(n), terms' = terms
  PROVE  CapitalOnly'
<1> DEFINE left == {p \in payments : p.number # n}
           d == [debt EXCEPT !.due = periods[n].due]
           ps == SubSeq(periods, 1, n)
           N == Len(periods)
<1>1. Reconcile(d, ps, left)
  BY DEF RevertInstallment
<1>2. /\ TermsTyped /\ LedgerTyped /\ debt \in DebtRow /\ periods \in Seq(Record) /\ N \in Nat /\ DOMAIN periods = 1..N
      /\ debt.penaltyRate = 0
  BY LedgerFacts, SingleNow
<1>3. /\ IsFiniteSet(left) /\ (\A p \in left : p.amount \in Nat)
      /\ \A m : PaidOn(m, left) = IF m = n THEN 0 ELSE PaidOn(m, payments)
      /\ Principal(left) = Principal(payments)
  <2>1. n # 0
    BY <1>2
  <2> QED
    BY <1>2, <2>1, PaymentsLeft
<1>4. d \in DebtRow /\ d.penaltyRate = 0
  <2>1. periods[n].due \in Int
    BY <1>2, RowFields
  <2> QED
    BY <1>2, <2>1 DEF DebtRow
<1>5. /\ ps \in Seq(Record) /\ Len(ps) = n /\ DOMAIN ps = 1..n /\ \A m \in 1..n : ps[m] = periods[m] /\ m \in DOMAIN periods
  BY <1>2, FirstRows
<1>6. n > 0
  BY <1>2
<1>7. \A p \in left : p.number = 0 => p.kind = "principal"
  BY DEF CapitalOnly
<1> HIDE DEF left, d, ps
<1>8. \A m \in DOMAIN ps : PreSound(ps[m], 0, today)
  BY <1>5, SingleNow
<1>9. Capital(left, ps)
  BY <1>3, <1>5, <1>7 DEF CapitalOnly, Capital
<1> QED
  BY <1>1, <1>2, <1>3, <1>4, <1>5, <1>6, <1>8, <1>9, CapitalStep

LEMMA CapitalPrincipal ==
  ASSUME Typed, RegularInv, Regular, CapitalOnly, NEW a \in Amounts, PayPrincipal(a), terms' = terms
  PROVE  CapitalOnly'
<1> DEFINE y == Lesser(a, DebtNow.capital)
           left == DebtNow.capital - y
           x == Interest(left)
           ps == PrincipalRows(x)
           pays == Also("principal", 0, y)
           N == Len(periods)
<1>1. ~Multi /\ y > 0 /\ Reconcile(DebtNow, ps, pays)
  BY DEF PayPrincipal, PrincipalRows, NewInterest, Also
<1>2. /\ TermsTyped /\ LedgerTyped /\ terms.principal \in Nat /\ N \in DOMAIN periods
      /\ DebtNow.capital \in Nat /\ DebtNow.capital = terms.principal - Principal(payments)
      /\ Principal(payments) \in Nat
      /\ \A p \in payments : p.number = 0 => p.kind = "principal"
      /\ \A n \in DOMAIN periods : periods[n].amount >= Interest(DebtNow.capital)
      /\ periods[N].paid = 0 \/ DebtNow.capital = 0
  BY <1>1, CapitalLeft
<1>3. y \in Nat \ {0} /\ y <= DebtNow.capital
  <2>1. a \in Nat
    BY TermsAssumption
  <2> QED
    BY <1>1, <1>2, <2>1 DEF Lesser
<1> HIDE DEF y
<1>4. left \in Nat /\ left <= DebtNow.capital /\ DebtNow.capital # 0
  BY <1>2, <1>3
<1> HIDE DEF left
<1>5. x \in Nat /\ x <= Interest(DebtNow.capital)
  BY <1>2, <1>4, InterestOrder
<1>6. /\ DebtNow \in DebtRow /\ DebtNow.penaltyRate = 0 /\ DOMAIN ReconciledNow = DOMAIN periods
      /\ \A n \in DOMAIN periods : /\ ReconciledNow[n].amount = periods[n].amount /\ PaidOn(n, payments) = periods[n].paid
                                   /\ periods[n].amount \in Nat /\ ReconciledNow[n] \in Record
  BY <1>1, SingleNow
<1> HIDE DEF x
<1>7. /\ ps \in Seq(Record) /\ Len(ps) = N /\ Len(ps) > 0 /\ DOMAIN ps = 1..N
      /\ \A n \in DOMAIN ps : PreSound(ps[n], 0, today)
  BY <1>1, <1>5, PrincipalRowsSound
<1>8. \A n \in DOMAIN periods : ps[n].amount >= x
  <2> TAKE n \in DOMAIN periods
  <2>1. ps[n] = IF n \in OpenPeriod(ReconciledNow) THEN NewInterest(ReconciledNow[n], x) ELSE ReconciledNow[n]
    BY <1>6 DEF PrincipalRows
  <2>2. NewInterest(ReconciledNow[n], x).amount = x
    BY <1>6 DEF NewInterest, Record
  <2>3. ReconciledNow[n].amount >= Interest(DebtNow.capital) /\ ReconciledNow[n].amount \in Nat
    BY <1>2, <1>6
  <2>4. Interest(DebtNow.capital) \in Nat
    BY <1>2, InterestType
  <2> HIDE DEF ps
  <2> QED
    BY <1>5, <2>1, <2>2, <2>3, <2>4
<1> HIDE DEF ps
<1>9. /\ IsFiniteSet(pays) /\ (\A p \in pays : p.amount \in Nat) /\ Principal(pays) = Principal(payments) + y
      /\ \A m : PaidOn(m, pays) = PaidOn(m, payments) + (IF m = 0 THEN y ELSE 0)
      /\ \A m : PaidOn(m, payments) \in Nat
  BY <1>3, OnePayment
<1>10. \A p \in pays : p.number = 0 => p.kind = "principal"
  BY <1>2 DEF Pay, Also
<1> HIDE DEF pays
<1>11. terms.principal - Principal(pays) = left
  BY <1>2, <1>3, <1>9 DEF left
<1>12. PaidOn(N, pays) = 0
  <2>1. N # 0
    BY LedgerFacts
  <2> QED
    BY <1>2, <1>4, <1>6, <1>9, <2>1
<1>13. Capital(pays, ps)
  <2>1. DOMAIN ps = DOMAIN periods
    BY <1>7, LedgerFacts
  <2> QED
    BY <1>7, <1>8, <1>10, <1>11, <1>12, <2>1 DEF Capital, x
<1> QED
  BY <1>1, <1>2, <1>6, <1>7, <1>9, <1>13, CapitalStep

LEMMA CapitalInterest ==
  ASSUME Typed, RegularInv, Regular, CapitalOnly, PayInterest, terms' = terms
  PROVE  CapitalOnly'
<1> DEFINE x == InterestDue(ReconciledNow)
           N == Len(periods)
           L == Len(InterestRows)
           next == InterestRows[InterestNumber].due + 1
           d == [DebtNow EXCEPT !.due = next]
           i == Interest(DebtNow.capital)
           row == Period(i, next)
           ps == Append(InterestRows, row)
           pays == Also("interest", L, x)
<1>1. ~Multi /\ x > 0 /\ Reconcile(d, Append(InterestRows, row), Also("interest", InterestNumber, x))
  BY DEF PayInterest, InterestRows, InterestNumber, Also
<1>2. /\ TermsTyped /\ LedgerTyped /\ terms.principal \in Nat
      /\ DebtNow.capital \in Nat /\ DebtNow.capital = terms.principal - Principal(payments)
      /\ Principal(payments) \in Nat
      /\ \A p \in payments : p.number = 0 => p.kind = "principal"
      /\ \A n \in DOMAIN periods : periods[n].amount >= i
  BY <1>1, CapitalLeft
<1>3. /\ ops \in Nat /\ N \in Nat /\ DOMAIN periods = 1..N
  BY LedgerFacts
<1>4. x \in Nat \ {0}
  <2>1. x \in Nat
    BY <1>2, DueType
  <2> HIDE DEF x
  <2> QED
    BY <1>1, <2>1
<1>5. /\ InterestRows \in Seq(Record) /\ InterestRows[InterestNumber] \in Record
      /\ OpenPeriod(ReconciledNow) = {} => L = N + 1
      /\ OpenPeriod(ReconciledNow) # {} => L = N
      /\ \A n \in DOMAIN periods : InterestRows[n] = ReconciledNow[n]
  BY <1>2, InterestRowsType
<1>6. /\ L \in Nat /\ L > 0 /\ L >= N /\ InterestNumber = L
      /\ InterestRows[L].amount = x /\ PreSound(InterestRows[L], 0, today)
      /\ \A m \in 1..(L - 1) : PreSound(InterestRows[m], 0, today)
  BY <1>1, InterestLast
<1>7. next \in Int /\ i \in Nat
  <2>1. next \in Int
    BY <1>5 DEF Record
  <2> QED
    BY <1>2, <2>1, InterestType
<1>8. OpenPeriod(ReconciledNow) = {} => x = i
  BY DEF InterestDue
<1>9. /\ DebtNow \in DebtRow /\ DebtNow.penaltyRate = 0
      /\ \A n \in DOMAIN periods : ReconciledNow[n].amount = periods[n].amount
  BY <1>1, SingleNow
<1> HIDE DEF x, next, i
<1>10. d \in DebtRow /\ d.penaltyRate = 0
  <2>1. ASSUME NEW e \in DebtRow PROVE [e EXCEPT !.due = next] \in DebtRow
                                       /\ [e EXCEPT !.due = next].penaltyRate = e.penaltyRate
    BY <1>7 DEF DebtRow
  <2> QED
    BY <1>9, <2>1
<1>11. row \in Record /\ PreSound(row, 0, today) /\ row.amount = i
  BY <1>7, PeriodType, PeriodSound
<1> HIDE DEF row, d
<1>12. /\ ps \in Seq(Record) /\ Len(ps) = L + 1 /\ ps[L + 1] = row /\ DOMAIN ps = 1..(L + 1)
       /\ \A m \in 1..L : ps[m] = InterestRows[m]
  <2>1. DOMAIN InterestRows = 1..L
    BY <1>5
  <2>2. /\ ps \in Seq(Record) /\ Len(ps) = L + 1 /\ ps[L + 1] = row
        /\ \A m \in DOMAIN InterestRows : ps[m] = InterestRows[m]
    BY <1>5, <1>11, AppendType
  <2> HIDE DEF ps
  <2> QED
    BY <2>1, <2>2, SeqRows
<1>13. Reconcile(d, ps, pays)
  BY <1>1, <1>6
<1> HIDE DEF ps, L
<1>14. ASSUME NEW m \in DOMAIN ps PROVE PreSound(ps[m], 0, today) /\ ps[m].amount >= i
  <2>1. CASE m = L + 1
    BY <1>7, <1>11, <1>12, <2>1
  <2>2. CASE m # L + 1
    <3>1. m \in 1..L /\ ps[m] = InterestRows[m] /\ (m = L \/ m \in 1..(L - 1))
      BY <1>6, <1>12, <2>2
    <3>2. CASE m \in DOMAIN periods
      BY <1>2, <1>5, <1>6, <1>9, <3>1, <3>2
    <3>3. CASE m \notin DOMAIN periods
      <4>1. L = N \/ L = N + 1
        BY <1>5
      <4>2. m \in Nat /\ m > N
        BY <1>3, <1>6, <3>1, <3>3
      <4>3. m = L /\ L # N
        <5>1. L \in Nat /\ N \in Nat /\ m \in 1..L
          BY <1>3, <1>6, <3>1
        <5> HIDE DEF N
        <5> QED
          BY <4>1, <4>2, <5>1
      <4> QED
        BY <1>5, <1>6, <1>7, <1>8, <3>1, <4>3
    <3> QED
      BY <3>2, <3>3
  <2> QED
    BY <2>1, <2>2
<1>15. IsFiniteSet(pays) /\ (\A p \in pays : p.amount \in Nat) /\ \A p \in pays : p.number = 0 => p.kind = "principal"
  <2>1. "interest" \in {"principal", "interest"} /\ L \in Nat
    BY <1>6
  <2>2. IsFiniteSet(pays) /\ \A p \in pays : p.amount \in Nat
    BY <1>4, <2>1, OnePayment
  <2>3. Pay("interest", L, x).number = L
    BY DEF Pay
  <2> QED
    BY <1>2, <1>6, <2>2, <2>3 DEF Also
<1>16. Principal(pays) = Principal(payments) /\ PaidOn(L + 1, pays) = 0
  <2> DEFINE k == L + 1
  <2>1. "interest" \in {"principal", "interest"} /\ L \in Nat /\ x \in Nat \ {0} /\ k \in Int /\ k # L
        /\ k > Len(periods)
    BY <1>3, <1>4, <1>6
  <2>2. pays = Also("interest", L, x)
    OBVIOUS
  <2> HIDE DEF pays, k
  <2>3. /\ Principal(pays) = Principal(payments) + (IF "interest" = "principal" /\ L = 0 THEN x ELSE 0)
        /\ \A m : PaidOn(m, pays) = PaidOn(m, payments) + (IF m = L THEN x ELSE 0)
    BY <2>1, <2>2, OnePayment
  <2>4. PaidOn(k, payments) = 0
    BY <1>2, <1>3, <2>1, NothingPaid
  <2>5. Principal(pays) = Principal(payments) + 0
    BY <2>3
  <2>6. PaidOn(k, pays) = 0 + 0
    BY <2>1, <2>3, <2>4
  <2> QED
    BY <1>2, <2>5, <2>6 DEF k
<1> HIDE DEF pays
<1>17. Capital(pays, ps)
  BY <1>2, <1>12, <1>14, <1>15, <1>16 DEF Capital, i
<1>18. Len(ps) > 0
  BY <1>6, <1>12
<1> QED
  BY <1>2, <1>10, <1>12, <1>13, <1>14, <1>15, <1>17, <1>18, CapitalStep

LEMMA CapitalSettle ==
  ASSUME Typed, RegularInv, Regular, CapitalOnly, Settle, terms' = terms
  PROVE  CapitalOnly'
<1> DEFINE n == IF OpenPeriod(ReconciledNow) = {} THEN 0 ELSE Min(OpenPeriod(ReconciledNow))
           x == InterestDue(ReconciledNow)
           y == DebtNow.capital
           pays == Settled(n, x, y)
           N == Len(periods)
<1>1. ~Multi /\ Reconcile(DebtNow, ReconciledNow, pays)
  BY DEF Settle, Settled
<1>2. /\ TermsTyped /\ LedgerTyped /\ terms.principal \in Nat /\ N \in DOMAIN periods
      /\ y \in Nat /\ y = terms.principal - Principal(payments) /\ Principal(payments) \in Nat
      /\ \A p \in payments : p.number = 0 => p.kind = "principal"
      /\ \A m \in DOMAIN periods : periods[m].amount >= Interest(y)
      /\ periods[N].paid = 0 \/ y = 0
  BY <1>1, CapitalLeft
<1>3. /\ DebtNow \in DebtRow /\ DebtNow.penaltyRate = 0
      /\ ReconciledNow \in Seq(Record) /\ Len(ReconciledNow) = N /\ DOMAIN ReconciledNow = DOMAIN periods
      /\ \A m \in DOMAIN periods : /\ PreSound(ReconciledNow[m], 0, today) /\ periods[m].amount \in Nat
                                   /\ ReconciledNow[m].amount = periods[m].amount
  BY <1>1, SingleNow
<1>4. N \in Nat /\ N > 0
  BY LedgerFacts
<1>5. /\ n \in 0..N
      /\ n = 0 => OpenPeriod(ReconciledNow) = {} /\ periods[N].paid = periods[N].amount
  BY <1>1, <1>4, SingleOpen
<1>6. x \in Nat
  BY <1>2, DueType
<1>7. n = 0 => x = 0
  <2> SUFFICES ASSUME n = 0 PROVE x = 0
    OBVIOUS
  <2>1. x = Interest(y) /\ periods[N].paid = periods[N].amount
    BY <1>5 DEF InterestDue
  <2> HIDE DEF x, y
  <2>2. Interest(y) \in Nat /\ Interest(0) = 0
    BY <1>2, InterestOrder
  <2> QED
    BY <1>2, <1>3, <2>1, <2>2
<1> HIDE DEF n, x, y
<1>8. /\ IsFiniteSet(pays) /\ (\A p \in pays : p.amount \in Nat)
      /\ Principal(pays) = Principal(payments) + y
      /\ \A p \in pays : \/ p \in payments
                         \/ p.number = n /\ x > 0
                         \/ p.number = 0 /\ p.kind = "principal"
  <2>1. n \in 0..Len(periods) /\ x \in Nat /\ y \in Nat
    BY <1>2, <1>5, <1>6
  <2> QED
    BY <2>1, SettlePayments
<1> HIDE DEF pays
<1>9. Principal(pays) = terms.principal /\ terms.principal - Principal(pays) = 0
  BY <1>2, <1>8
<1>10. \A p \in pays : p.number = 0 => p.kind = "principal"
  BY <1>2, <1>6, <1>7, <1>8
<1>11. \A m \in DOMAIN ReconciledNow : ReconciledNow[m].amount >= Interest(0)
  BY <1>2, <1>3, InterestOrder
<1>12. Capital(pays, ReconciledNow)
  BY <1>9, <1>10, <1>11 DEF Capital
<1> QED
  BY <1>1, <1>2, <1>3, <1>4, <1>8, <1>12, CapitalStep

\* A new single loan has all its capital and owes the interest on it.
LEMMA CapitalInit == ASSUME Init PROVE CapitalOnly
<1> SUFFICES ASSUME ~Multi
             PROVE  /\ \A p \in payments : p.number = 0 => p.kind = "principal"
                    /\ \A n \in DOMAIN periods : periods[n].amount >= Interest(terms.principal - Principal(payments))
                    /\ periods[Len(periods)].paid = 0 \/ Principal(payments) = terms.principal
  BY DEF CapitalOnly
<1>1. PICK loanType \in {"multi", "single"}, principal \in Nat \ {0}, rate \in Nat, penaltyRate \in Nat,
           n \in Durations, rounding \in {"whole", "cents"} :
           Started(loanType, principal, rate, penaltyRate, n, rounding)
  BY StartOf
<1>2. payments = {}
  BY DEF Init
<1>3. /\ n = 1 /\ rounding = "whole" /\ loanType = "single"
      /\ terms.principal = principal /\ terms.interestRate = rate
      /\ periods = NewRows(NewAmounts(loanType, principal, rate, n, rounding), n, n)
  BY <1>1 DEF Started, Multi
<1>4. NewAmounts("single", principal, rate, 1, "whole") = [i \in 1..1 |-> Percent(principal, rate)]
  BY DEF NewAmounts, LoanInstallmentTerms
<1>5. periods = NewRows([i \in 1..1 |-> Percent(principal, rate)], 1, 1)
  BY <1>3, <1>4
<1>6. DOMAIN periods = 1..1 /\ periods[1].amount = Percent(principal, rate) /\ periods[1].paid = 0
  BY <1>5 DEF NewRows
<1>7. Len(periods) = 1
  BY <1>5 DEF NewRows
<1>8. Principal(payments) = 0 /\ Percent(principal, rate) \in Nat
  BY <1>2, NothingPaidYet, PercentNat
<1>9. Interest(terms.principal - Principal(payments)) = Percent(principal, rate)
  <2>1. terms.principal - Principal(payments) = principal
    BY <1>3, <1>8
  <2> QED
    BY <1>3, <2>1 DEF Interest
<1> QED
  BY <1>2, <1>6, <1>7, <1>8, <1>9

\* Every step keeps the capital of a regular single loan.
LEMMA CapitalKept ==
  ASSUME Typed, RegularInv, CapitalOnly, [Next]_vars
  PROVE  CapitalOnly'
<1> SUFFICES ASSUME Regular', ~Multi' PROVE CapitalOnly'
  BY DEF CapitalOnly
<1>1. ASSUME terms' = terms, edited' = edited \/ edited' = TRUE PROVE Regular /\ ~Multi
  <2>1. ~Multi
    BY <1>1 DEF Multi
  <2> QED
    BY <1>1, <2>1, RegularBack
<1>2. ASSUME UNCHANGED <<terms, periods, payments, edited>> PROVE CapitalOnly'
  BY <1>1, <1>2 DEF CapitalOnly, Interest
<1>3. CASE UNCHANGED vars
  BY <1>2, <1>3 DEF vars
<1>4. CASE RecordPayment
  <2>1. terms' = terms /\ Regular /\ ~Multi
    BY <1>1, <1>4 DEF RecordPayment
  <2>2. \/ \E a \in Amounts : PayPrincipal(a)
        \/ PayInterest
        \/ Settle
    BY <1>4, <2>1 DEF RecordPayment, PayBalance
  <2> QED
    BY <2>1, <2>2, CapitalPrincipal, CapitalInterest, CapitalSettle
<1>5. CASE \E n \in DOMAIN periods : RevertInstallment(n)
  <2>1. PICK n \in DOMAIN periods : RevertInstallment(n)
    BY <1>5
  <2>2. terms' = terms /\ Regular /\ ~Multi
    BY <1>1, <2>1 DEF RevertInstallment
  <2> QED
    BY <2>1, <2>2, CapitalRevert
<1>6. CASE AssessOverduePenalties \/ ReconcileReport
  <2>1. terms' = terms /\ Regular /\ ~Multi /\ Reconcile(debt, periods, payments)
    BY <1>1, <1>6 DEF AssessOverduePenalties, ReconcileReport
  <2> QED
    BY <2>1, CapitalAssess
<1>7. CASE \E c \in Clerks : Patch(c)
  <2>1. PICK c \in Clerks : Patch(c)
    BY <1>7
  <2>2. ~PatchRead(c)
    BY DEF PatchRead, Regular
  <2>3. terms' = terms /\ edited' = edited /\ stage[c] # "idle"
    BY <2>1, <2>2 DEF Patch, PatchSave, PatchPeriod, PatchStatus
  <2>4. stage[c] = "idle"
    BY <1>1, <2>3 DEF RegularInv
  <2> QED
    BY <2>3, <2>4
<1>8. CASE \E n \in DOMAIN periods, base \in PhoneBases, due \in PhoneDues : EditPeriod(n, base, due)
  BY <1>8 DEF EditPeriod, Regular
<1>9. CASE RepairRead \/ RepairSave
  <2>1. terms' = terms
    BY <1>9 DEF RepairRead, RepairSave
  <2>2. RepairTyped
    BY DEF Typed
  <2>3. Multi
    BY <1>9, <2>2 DEF RepairRead, RepairSave, RepairTyped
  <2> QED
    BY <2>1, <2>3 DEF Multi
<1>10. CASE NextDay
  BY <1>2, <1>10 DEF NextDay
<1> QED
  BY <1>3, <1>4, <1>5, <1>6, <1>7, <1>8, <1>9, <1>10 DEF Next

\* The inductive invariant, with the capital of single loans.
LEMMA AlwaysCapital == Spec => [](Typed /\ RegularInv /\ CapitalOnly)
<1>1. Init => Typed /\ RegularInv /\ CapitalOnly
  BY InitInv, CapitalInit
<1>2. Typed /\ RegularInv /\ CapitalOnly /\ [Next]_vars => Typed' /\ RegularInv' /\ CapitalOnly'
  BY TypedStep, RegularStep, CapitalKept
<1> QED
  BY <1>1, <1>2, PTL DEF Spec

-----------------------------------------------------------------------------
(* What the papers say.                                                    *)

\* The receipts of the periods and the capital repaid are the payments.
LEMMA ReceiptsAdd ==
  ASSUME Typed, RegularInv, CapitalOnly, Regular
  PROVE  /\ Total([n \in DOMAIN periods |-> PeriodReceipt(n)]) + Principal(payments) = Sum(payments)
         /\ Multi => Principal(payments) = 0
         /\ Total([n \in DOMAIN periods |-> periods[n].paid]) + Principal(payments) = Sum(payments)
         /\ Total([n \in DOMAIN periods |-> periods[n].paid]) \in Nat
         /\ Principal(payments) \in Nat
<1> DEFINE paid == [n \in DOMAIN periods |-> periods[n].paid]
           S == {p \in payments : p.number \in DOMAIN periods}
           R == {p \in payments : p.kind = "principal" /\ p.number = 0}
<1>1. /\ LedgerTyped /\ DOMAIN periods = 1..Len(periods) /\ Len(periods) \in Nat
      /\ IsFiniteSet(payments) /\ (\A p \in payments : p.amount \in Nat) /\ payments \subseteq Paid(ops, Len(periods))
  BY LedgerFacts
<1>2. \A p \in payments : p.number = 0 => p.kind = "principal" /\ ~Multi
  <2>1. Multi => \A p \in payments : p.number > 0
    BY <1>1 DEF LedgerTyped
  <2> QED
    BY <2>1 DEF CapitalOnly
<1>3. \A p \in payments : p.number \in 0..Len(periods)
  BY <1>1 DEF Paid
<1>4. payments = S \cup R /\ S \cap R = {} /\ (Multi => R = {})
  BY <1>1, <1>2, <1>3
<1>5. IsFiniteSet(S) /\ IsFiniteSet(R) /\ (\A p \in S \cup R : p.amount \in Nat)
  BY <1>1, FS_Subset
<1>6. Principal(payments) = Sum(R)
  BY DEF Principal
<1>7. SumFunctionOnSet(paid, DOMAIN periods) = Sum(S)
  BY PaidTotal
<1>8. [n \in DOMAIN periods |-> PeriodReceipt(n)] = paid
  BY InvoiceNow
<1>9. Total(paid) = SumFunctionOnSet(paid, DOMAIN periods)
  BY DEF Total, SumFunction
<1> HIDE DEF S, R
<1>10. Sum(payments) = Sum(S) + Sum(R)
  BY <1>4, <1>5, SumOfBoth
<1>11. Sum(S) \in Nat /\ Sum(R) \in Nat
  BY <1>4, <1>5, SumType
<1> HIDE DEF paid
<1> QED
  BY <1>4, <1>6, <1>7, <1>8, <1>9, <1>10, <1>11, SumOfNone DEF paid

\* A statement of a loan in equal periods and what was paid make up its bases and penalties.
LEMMA NowAdds ==
  ASSUME Typed, RegularInv, Regular
  PROVE  /\ SumOver(ReconciledNow, Open) + Total([n \in DOMAIN periods |-> periods[n].paid])
              = SumOver(ReconciledNow, LAMBDA p : p.base + p.penalty)
         /\ SumOver(ReconciledNow, Open) \in Nat
<1> DEFINE D == DOMAIN periods
           open == [n \in D |-> Open(ReconciledNow[n])]
           paid == [n \in D |-> periods[n].paid]
           all == [n \in D |-> ReconciledNow[n].base + ReconciledNow[n].penalty]
<1>1. DOMAIN ReconciledNow = D /\ ReconciledNow \in Seq(Record) /\ periods \in Seq(Record) /\ IsFiniteSet(D)
  BY LedgerFacts, NowType, SeqRows
<1>2. ASSUME NEW n \in D PROVE open[n] \in Int /\ paid[n] \in Int /\ all[n] = open[n] + paid[n]
  <2>1. /\ periods[n].base \in Nat /\ periods[n].paid \in Nat /\ ReconciledNow[n].penalty \in Nat
        /\ ReconciledNow[n].base = periods[n].base
        /\ ReconciledNow[n].amount = periods[n].base + ReconciledNow[n].penalty
        /\ Open(ReconciledNow[n]) = ReconciledNow[n].amount - periods[n].paid
    BY NowRows
  <2> QED
    BY <2>1
<1>3. /\ SumOver(ReconciledNow, Open) = SumFunctionOnSet(open, D) /\ Total(paid) = SumFunctionOnSet(paid, D)
      /\ SumOver(ReconciledNow, LAMBDA p : p.base + p.penalty) = SumFunctionOnSet(all, D)
  BY <1>1 DEF SumOver, Total, SumFunction
<1>4. SumOver(ReconciledNow, Open) \in Nat
  BY <1>1, OverType
<1> HIDE DEF open, paid, all
<1>5. SumFunctionOnSet(all, D) = SumFunctionOnSet(open, D) + SumFunctionOnSet(paid, D)
  BY <1>1, <1>2, SumPlus
<1> QED
  BY <1>3, <1>4, <1>5 DEF paid

\* The capital the schedule puts into the open periods.
LEMMA OpenRows ==
  ASSUME Typed, RegularInv, Regular, Multi,
         NEW open, open = {n \in DOMAIN periods : Open(periods[n]) > 0}
  PROVE  Total([n \in open |-> Schedule[n].capital]) =
           SumFunctionOnSet(CapitalPortions(terms.principal, Bases(periods)), open)
<1> DEFINE portions == CapitalPortions(terms.principal, Bases(periods))
           rows == Schedule
           f == [n \in open |-> rows[n].capital]
<1>1. Split(rows, terms.principal, periods, portions)
  BY MultiSchedule
<1>2. open \subseteq DOMAIN periods /\ IsFiniteSet(open)
  BY LedgerFacts, SeqRows, FS_Subset
<1> HIDE DEF portions, rows
<1>3. \A n \in open : f[n] = portions[n]
  BY <1>1, <1>2 DEF Split
<1>4. Total(f) = SumFunctionOnSet(f, open)
  BY DEF Total, SumFunction
<1> HIDE DEF f
<1>5. SumFunctionOnSet(f, open) = SumFunctionOnSet(portions, open)
  BY <1>2, <1>3, SumSame
<1> QED
  BY <1>4, <1>5 DEF f, portions, rows

\* The papers of a loan in equal periods agree.
LEMMA MultiPapers ==
  ASSUME Typed, RegularInv, CapitalOnly, Regular, Multi
  PROVE  PapersAgree(Schedule, InvoiceFigures, LinkFigures)
<1> DEFINE total == SumOver(ReconciledNow, Open)
           x == OpenCapital(terms.principal, ReconciledNow)
           open == {n \in DOMAIN periods : Open(periods[n]) > 0}
           receipts == Total([n \in DOMAIN periods |-> PeriodReceipt(n)])
           rows == Schedule
           invoice == InvoiceFigures
           portions == CapitalPortions(terms.principal, Bases(periods))
           shares == SumFunctionOnSet(portions, open)
<1>1. invoice = Owed(x, total) /\ (~Stale => LinkFigures = invoice)
  BY InvoiceNow DEF Statement, Multi
<1>2. receipts + Principal(payments) = Sum(payments) /\ Total([n \in DOMAIN periods |-> periods[n].paid]) = Sum(payments)
  BY ReceiptsAdd
<1>3. DebtNow.outstanding = total
  BY NowColumns
<1>4. total + Sum(payments) = SumOver(ReconciledNow, LAMBDA p : p.base + p.penalty) /\ total \in Nat
  BY <1>2, NowAdds
<1>5. /\ x \in Nat /\ x <= terms.principal
      /\ (\A n \in DOMAIN periods : periods[n].paid \in {0, periods[n].amount}) => x = shares /\ x <= total
  <2>1. portions = CapitalPortions(terms.principal, Bases(periods)) /\ x = OpenCapital(terms.principal, ReconciledNow)
        /\ open = {n \in DOMAIN periods : Open(periods[n]) > 0}
    OBVIOUS
  <2> HIDE DEF portions, x, open
  <2> QED
    BY <2>1, InvoiceCapital
<1>6. Total([n \in open |-> rows[n].capital]) = shares
  BY OpenRows
<1>7. terms.principal \in Nat
  BY LedgerFacts DEF TermsTyped
<1> HIDE DEF total, x, open, receipts, rows, portions, shares
<1>8. invoice.total = total /\ invoice.capital = Lesser(x, total)
  <2> HIDE DEF invoice
  <2> QED
    BY <1>1 DEF Owed
<1>9. /\ Lesser(x, total) <= terms.principal
      /\ (\A n \in DOMAIN periods : periods[n].paid \in {0, periods[n].amount}) => Lesser(x, total) = shares
  <2>0. x \in Nat /\ total \in Nat /\ x <= terms.principal
    BY <1>4, <1>5
  <2>1. Lesser(x, total) <= terms.principal
    BY <1>7, <2>0 DEF Lesser
  <2>2. x <= total => Lesser(x, total) = x
    BY <2>0 DEF Lesser
  <2> QED
    BY <1>5, <2>1, <2>2
<1> HIDE DEF invoice
<1>10. (\A n \in DOMAIN periods : periods[n].paid \in {0, periods[n].amount}) =>
         invoice.capital = Total([n \in open |-> rows[n].capital])
  BY <1>6, <1>8, <1>9
<1>11. PapersAgree(rows, invoice, LinkFigures)
  BY <1>1, <1>2, <1>3, <1>4, <1>8, <1>9, <1>10 DEF PapersAgree, ReceiptTotal, receipts, open
<1> QED
  BY <1>11 DEF rows, invoice

\* The papers of a single loan agree.
LEMMA SinglePapers ==
  ASSUME Typed, RegularInv, CapitalOnly, Regular, ~Multi
  PROVE  PapersAgree(Schedule, InvoiceFigures, LinkFigures)
<1> DEFINE open == SumOver(ReconciledNow, Open)
           capital == DebtNow.capital
           receipts == Total([n \in DOMAIN periods |-> PeriodReceipt(n)])
           invoice == InvoiceFigures
<1>1. invoice = Owed(Positive(capital), Positive(capital) + open) /\ (~Stale => LinkFigures = invoice)
  BY InvoiceNow DEF Statement, Multi
<1>2. receipts + Principal(payments) = Sum(payments)
  BY ReceiptsAdd
<1>3. DebtNow.outstanding = capital + open
  BY NowColumns
<1>4. open \in Nat
  BY NowAdds
<1>5. capital \in Nat /\ capital + Principal(payments) = terms.principal
  BY CapitalLeft
<1> HIDE DEF open, capital, receipts, invoice
<1>6. Positive(capital) = capital /\ Lesser(capital, capital + open) = capital
  BY <1>4, <1>5 DEF Positive, Lesser
<1>7. invoice.total = capital + open /\ invoice.capital = capital
  BY <1>1, <1>6 DEF Owed
<1>8. PapersAgree(Schedule, invoice, LinkFigures)
  BY <1>1, <1>2, <1>3, <1>5, <1>7 DEF PapersAgree, ReceiptTotal, receipts
<1> QED
  BY <1>8 DEF invoice

\* DocumentsAgree always holds: schedule, invoice, receipts and share link of a loan tell the same story,
\* whatever is paid, reverted, repaired or late, for all terms a regular loan may have.
THEOREM DocumentsAlwaysAgree == Spec => []DocumentsAgree
<1>1. Typed /\ RegularInv /\ CapitalOnly => DocumentsAgree
  BY MultiPapers, SinglePapers DEF DocumentsAgree
<1> QED
  BY <1>1, AlwaysCapital, PTL
=============================================================================
