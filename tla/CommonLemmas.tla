---------------------------- MODULE CommonLemmas ----------------------------
(***************************************************************************)
(* Of the operators that the models are built from: what the sequences of  *)
(* tasks still to do list, and what SumFunctionOnSet of the community      *)
(* modules returns, for every finite set.  The theorems about tokens,      *)
(* quota and loans rest on these.                                          *)
(*                                                                         *)
(* A sum is a fold, a recursive function that takes away an element at a   *)
(* time.  Where one would argue by induction on the set, a set for which   *)
(* the claim fails is taken that is smallest by inclusion (SmallestSet).   *)
(***************************************************************************)
EXTENDS Integers, Sequences, SequencesExt, FiniteSetTheorems, WellFoundedInduction,
        TLAPS

-----------------------------------------------------------------------------
(* Sequences *)

(* The head is listed, and everything else in the tail.                    *)
LEMMA ListHeadAndTail ==
  ASSUME NEW S, NEW s \in Seq(S), s # <<>>
  PROVE  Head(s) \in S /\ Tail(s) \in Seq(S) /\ ToSet(s) = {Head(s)} \cup ToSet(Tail(s))
<1>1. Len(s) \in Nat /\ Len(s) > 0 /\ Tail(s) \in Seq(S) /\ Len(Tail(s)) = Len(s) - 1 /\ Head(s) = s[1]
      /\ Head(s) \in S
  OBVIOUS
<1>2. \A i \in 1..(Len(s) - 1) : Tail(s)[i] = s[i + 1]
  OBVIOUS
<1>3. DOMAIN s = 1..Len(s) /\ DOMAIN Tail(s) = 1..(Len(s) - 1)
  BY <1>1
<1>4. ASSUME NEW x \in ToSet(s)
      PROVE  x \in {Head(s)} \cup ToSet(Tail(s))
  <2>1. PICK i \in 1..Len(s) : x = s[i]
    BY <1>3 DEF ToSet
  <2>2. CASE i = 1
    BY <2>1, <2>2, <1>1
  <2>3. CASE i # 1
    <3>1. i - 1 \in 1..(Len(s) - 1) /\ Tail(s)[i - 1] = s[i]
      BY <2>3, <1>1, <1>2
    <3> QED
      BY <3>1, <2>1, <1>3 DEF ToSet
  <2> QED
    BY <2>2, <2>3
<1>5. ASSUME NEW x \in ToSet(Tail(s))
      PROVE  x \in ToSet(s)
  <2>1. PICK i \in 1..(Len(s) - 1) : x = Tail(s)[i]
    BY <1>3 DEF ToSet
  <2>2. i + 1 \in 1..Len(s) /\ x = s[i + 1]
    BY <2>1, <1>1, <1>2
  <2> QED
    BY <2>2, <1>3 DEF ToSet
<1>6. Head(s) \in ToSet(s)
  BY <1>1, <1>3 DEF ToSet
<1> QED
  BY <1>1, <1>4, <1>5, <1>6

(* One element in front *)
LEMMA ListPrepended ==
  ASSUME NEW S, NEW s \in Seq(S), NEW x \in S
  PROVE  <<x>> \o s \in Seq(S) /\ ToSet(<<x>> \o s) = {x} \cup ToSet(s) /\ <<x>> \o s # <<>>
<1> DEFINE xs == <<x>> \o s
<1>1. xs \in Seq(S) /\ Len(s) \in Nat /\ Len(xs) = Len(s) + 1
  OBVIOUS
<1>2. xs[1] = x /\ \A i \in 1..Len(s) : xs[i + 1] = s[i]
  OBVIOUS
<1>3. DOMAIN s = 1..Len(s) /\ DOMAIN xs = 1..(Len(s) + 1)
  BY <1>1
<1>4. ASSUME NEW y \in ToSet(xs)
      PROVE  y \in {x} \cup ToSet(s)
  <2>1. PICK i \in 1..(Len(s) + 1) : y = xs[i]
    BY <1>3 DEF ToSet
  <2>2. CASE i = 1
    BY <2>1, <2>2, <1>2
  <2>3. CASE i # 1
    <3>1. i - 1 \in 1..Len(s) /\ xs[(i - 1) + 1] = s[i - 1] /\ (i - 1) + 1 = i
      BY <2>3, <1>1, <1>2
    <3> QED
      BY <3>1, <2>1, <1>3 DEF ToSet
  <2> QED
    BY <2>2, <2>3
<1>5. ASSUME NEW y \in ToSet(s)
      PROVE  y \in ToSet(xs)
  <2>1. PICK i \in 1..Len(s) : y = s[i]
    BY <1>3 DEF ToSet
  <2>2. i + 1 \in 1..(Len(s) + 1) /\ y = xs[i + 1]
    BY <2>1, <1>1, <1>2
  <2> QED
    BY <2>2, <1>3 DEF ToSet
<1>6. x \in ToSet(xs)
  <2>1. 1 \in 1..(Len(s) + 1)
    BY <1>1
  <2> QED
    BY <2>1, <1>2, <1>3 DEF ToSet
<1>7. xs # <<>>
  BY <1>1
<1> QED
  BY <1>1, <1>4, <1>5, <1>6, <1>7

(* One element behind *)
LEMMA ListAppended ==
  ASSUME NEW S, NEW s \in Seq(S), NEW x \in S
  PROVE  /\ Append(s, x) \in Seq(S) /\ ToSet(Append(s, x)) = ToSet(s) \cup {x}
<1> DEFINE xs == Append(s, x)
<1>1. xs \in Seq(S) /\ Len(s) \in Nat /\ Len(xs) = Len(s) + 1 /\ DOMAIN s = 1..Len(s)
      /\ DOMAIN xs = 1..(Len(s) + 1)
  OBVIOUS
<1>2. xs[Len(s) + 1] = x /\ \A i \in 1..Len(s) : xs[i] = s[i]
  OBVIOUS
<1>3. ASSUME NEW y \in ToSet(xs)
      PROVE  y \in ToSet(s) \cup {x}
  <2>1. PICK i \in 1..(Len(s) + 1) : y = xs[i]
    BY <1>1 DEF ToSet
  <2>2. CASE i = Len(s) + 1
    BY <2>1, <2>2, <1>2
  <2>3. CASE i # Len(s) + 1
    <3>1. i \in 1..Len(s)
      BY <2>3, <1>1
    <3> QED
      BY <3>1, <2>1, <1>1, <1>2 DEF ToSet
  <2> QED
    BY <2>2, <2>3
<1>4. ASSUME NEW y \in ToSet(s)
      PROVE  y \in ToSet(xs)
  <2>1. PICK i \in 1..Len(s) : y = s[i]
    BY <1>1 DEF ToSet
  <2>2. i \in 1..(Len(s) + 1) /\ y = xs[i]
    BY <2>1, <1>1, <1>2
  <2> QED
    BY <2>2, <1>1 DEF ToSet
<1>5. x \in ToSet(xs)
  <2>1. Len(s) + 1 \in 1..(Len(s) + 1)
    BY <1>1
  <2> QED
    BY <2>1, <1>1, <1>2 DEF ToSet
<1> QED
  BY <1>1, <1>3, <1>4, <1>5

(* One list behind another *)
LEMMA ListJoined ==
  ASSUME NEW S, NEW s \in Seq(S), NEW t \in Seq(S)
  PROVE  s \o t \in Seq(S) /\ ToSet(s \o t) = ToSet(s) \cup ToSet(t)
<1>1. /\ s \o t \in Seq(S) /\ Len(s \o t) = Len(s) + Len(t) /\ Len(s) \in Nat /\ Len(t) \in Nat
      /\ DOMAIN s = 1..Len(s) /\ DOMAIN t = 1..Len(t) /\ DOMAIN (s \o t) = 1..(Len(s) + Len(t))
  OBVIOUS
<1>2. /\ \A i \in 1..Len(s) : (s \o t)[i] = s[i]
      /\ \A i \in 1..Len(t) : (s \o t)[Len(s) + i] = t[i]
  OBVIOUS
<1>3. ASSUME NEW x \in ToSet(s \o t)
      PROVE  x \in ToSet(s) \cup ToSet(t)
  <2>1. PICK i \in 1..(Len(s) + Len(t)) : x = (s \o t)[i]
    BY <1>1 DEF ToSet
  <2>2. CASE i <= Len(s)
    <3>1. i \in 1..Len(s) /\ x = s[i]
      BY <1>1, <1>2, <2>1, <2>2
    <3> QED
      BY <1>1, <3>1 DEF ToSet
  <2>3. CASE i > Len(s)
    <3>1. i - Len(s) \in 1..Len(t) /\ x = t[i - Len(s)]
      <4>1. i - Len(s) \in 1..Len(t) /\ Len(s) + (i - Len(s)) = i
        BY <1>1, <2>1, <2>3
      <4> QED
        BY <1>2, <2>1, <4>1
    <3> QED
      BY <1>1, <3>1 DEF ToSet
  <2> QED
    BY <1>1, <2>1, <2>2, <2>3
<1>4. ASSUME NEW x \in ToSet(s)
      PROVE  x \in ToSet(s \o t)
  <2>1. PICK i \in 1..Len(s) : x = s[i]
    BY <1>1 DEF ToSet
  <2>2. i \in 1..(Len(s) + Len(t)) /\ x = (s \o t)[i]
    BY <1>1, <1>2, <2>1
  <2> QED
    BY <1>1, <2>2 DEF ToSet
<1>5. ASSUME NEW x \in ToSet(t)
      PROVE  x \in ToSet(s \o t)
  <2>1. PICK i \in 1..Len(t) : x = t[i]
    BY <1>1 DEF ToSet
  <2>2. Len(s) + i \in 1..(Len(s) + Len(t)) /\ x = (s \o t)[Len(s) + i]
    BY <1>1, <1>2, <2>1
  <2> QED
    BY <1>1, <2>2 DEF ToSet
<1> QED
  BY <1>1, <1>3, <1>4, <1>5

(* A finite set as a sequence has the elements of the set only.            *)
LEMMA SetListed ==
  ASSUME NEW S, IsFiniteSet(S)
  PROVE  SetToSeq(S) \in Seq(S) /\ ToSet(SetToSeq(S)) \subseteq S
<1> DEFINE n == Cardinality(S)
<1>1. n \in Nat /\ ExistsBijection(1..n, S)
  BY FS_CardinalityType
<1>2. PICK f : f \in Bijection(1..n, S)
  BY <1>1 DEF ExistsBijection
<1>3. f \in [1..n -> S] /\ IsInjective(f)
  BY <1>2 DEF Bijection, Injection
<1>4. SetToSeq(S) \in [1..n -> S]
  BY <1>3 DEF SetToSeq
<1>5. \A g \in [1..n -> S] : g \in Seq(S) /\ \A x \in ToSet(g) : x \in S
  BY <1>1 DEF ToSet
<1> QED
  BY <1>4, <1>5

-----------------------------------------------------------------------------
(* Sums *)

(* The element that a fold takes away *)
Some(s) == CHOOSE x \in s : TRUE

(* g has the sum of w over every subset of S. *)
IsTotal(w, S, g) ==
  g = [s \in SUBSET S |-> IF s = {} THEN 0 ELSE w[Some(s)] + g[s \ {Some(s)}]]

(* Of some finite sets one has no smaller one, by an element, among them.  *)
LEMMA SmallestSet ==
  ASSUME NEW S, IsFiniteSet(S), NEW bad \in SUBSET SUBSET S, bad # {}
  PROVE  \E T \in bad : \A x \in T : T \ {x} \notin bad
<1> DEFINE R == StrictSubsetOrdering(S)
<1>1. IsWellFoundedOn(R, FiniteSubsetsOf(S))
  BY FS_StrictSubsetOrderingWellFounded
<1>2. bad \subseteq FiniteSubsetsOf(S)
  BY FS_Subset DEF FiniteSubsetsOf
<1>3. \A T, U \in SUBSET S : T \subseteq U /\ T # U => <<T, U>> \in R
  BY DEF StrictSubsetOrdering
<1> HIDE DEF R
<1>4. PICK T \in bad : \A U \in bad : ~(<<U, T>> \in R)
  BY <1>1, <1>2, WFMin
<1>5. \A x \in T : T \ {x} \notin bad
  BY <1>3, <1>4
<1> QED
  BY <1>5

(* There are no two different sums of a set, ...                           *)
LEMMA TotalsAgree ==
  ASSUME NEW w, NEW S, NEW T, NEW g, NEW h, IsTotal(w, S, g), IsTotal(w, T, h),
         NEW s, s \subseteq S, s \subseteq T, IsFiniteSet(s)
  PROVE  g[s] = h[s]
<1> DEFINE bad == {u \in SUBSET s : g[u] # h[u]}
<1>1. SUFFICES ASSUME bad # {} PROVE FALSE
  OBVIOUS
<1>2. PICK u \in bad : \A x \in u : u \ {x} \notin bad
  BY <1>1, SmallestSet
<1>3. /\ g[u] = IF u = {} THEN 0 ELSE w[Some(u)] + g[u \ {Some(u)}]
      /\ h[u] = IF u = {} THEN 0 ELSE w[Some(u)] + h[u \ {Some(u)}]
  BY DEF IsTotal
<1>4. u # {} => g[u \ {Some(u)}] = h[u \ {Some(u)}]
  BY <1>2 DEF Some
<1> QED
  BY <1>3, <1>4

(* ... there is one, ...                                                   *)
LEMMA TotalExists ==
  ASSUME NEW w, NEW S, IsFiniteSet(S)
  PROVE  \E g : IsTotal(w, S, g)
<1> DEFINE bad == {T \in SUBSET S : ~\E g : IsTotal(w, T, g)}
<1>1. SUFFICES ASSUME bad # {} PROVE FALSE
  OBVIOUS
<1>2. PICK T \in bad : \A x \in T : T \ {x} \notin bad
  BY <1>1, SmallestSet
<1> DEFINE h(U) == CHOOSE g : IsTotal(w, U, g)
           rest(s) == s \ {Some(s)}
           total == [s \in SUBSET T |->
                       IF s = {} THEN 0 ELSE w[Some(s)] + h(rest(s))[rest(s)]]
<1>3. ASSUME NEW U, U \subseteq T, U # T PROVE IsTotal(w, U, h(U))
  <2>1. PICK x \in T : x \notin U
    BY <1>3
  <2>2. PICK g : IsTotal(w, T \ {x}, g)
    BY <1>2
  <2> DEFINE k == [s \in SUBSET U |-> g[s]]
  <2>3. IsTotal(w, U, k)
    <3>1. \A s \in SUBSET U : g[s] = IF s = {} THEN 0 ELSE w[Some(s)] + g[s \ {Some(s)}]
      BY <1>3, <2>1, <2>2 DEF IsTotal
    <3> QED
      BY <3>1 DEF IsTotal
  <2> QED
    BY <2>3
<1>4. ASSUME NEW s \in SUBSET T, s # {} PROVE total[rest(s)] = h(rest(s))[rest(s)]
  <2>1. rest(s) \in SUBSET T /\ rest(s) # T /\ IsFiniteSet(rest(s))
    BY <1>4, FS_Subset DEF Some
  <2> DEFINE u == rest(s)
  <2>2. IsTotal(w, u, h(u))
    BY <1>3, <2>1
  <2>3. CASE u = {}
    BY <2>1, <2>2, <2>3 DEF IsTotal
  <2>4. CASE u # {}
    <3>1. /\ rest(u) \subseteq T /\ rest(u) # T /\ rest(u) \subseteq u
          /\ IsFiniteSet(rest(u))
      BY <2>1, <2>4, FS_Subset DEF Some
    <3>2. IsTotal(w, rest(u), h(rest(u)))
      BY <1>3, <3>1
    <3>3. h(u)[rest(u)] = h(rest(u))[rest(u)]
      BY <2>2, <3>1, <3>2, TotalsAgree
    <3>4. h(u)[u] = w[Some(u)] + h(u)[rest(u)]
      BY <2>2, <2>4 DEF IsTotal
    <3>5. total[u] = w[Some(u)] + h(rest(u))[rest(u)]
      BY <2>1, <2>4
    <3> QED
      BY <3>3, <3>4, <3>5
  <2> QED
    BY <2>3, <2>4
<1>5. IsTotal(w, T, total)
  <2> HIDE DEF rest, h
  <2>1. \A s \in SUBSET T :
          total[s] = IF s = {} THEN 0 ELSE w[Some(s)] + total[rest(s)]
    BY <1>4
  <2> HIDE DEF total
  <2>2. \A s \in SUBSET T :
          total[s] = IF s = {} THEN 0 ELSE w[Some(s)] + total[s \ {Some(s)}]
    BY <2>1 DEF rest
  <2>3. total = [s \in SUBSET T |-> total[s]]
    BY DEF total
  <2> QED
    BY <2>2, <2>3 DEF IsTotal
<1> QED
  BY <1>2, <1>5

(* ... and SumFunctionOnSet returns it.                                    *)
LEMMA SumIsTotal ==
  ASSUME NEW w, NEW S, IsFiniteSet(S)
  PROVE  \E g : IsTotal(w, S, g) /\ SumFunctionOnSet(w, S) = g[S]
<1> DEFINE sum == CHOOSE g : g = [s \in SUBSET S |->
                 IF s = {} THEN 0 ELSE w[Some(s)] + g[s \ {Some(s)}]]
<1>1. SumFunctionOnSet(w, S) = sum[S]
  BY DEF SumFunctionOnSet, FoldFunctionOnSet, MapThenFoldSet, Some
<1>2. \E g : g = [s \in SUBSET S |-> IF s = {} THEN 0 ELSE w[Some(s)] + g[s \ {Some(s)}]]
  <2>1. PICK g : IsTotal(w, S, g)
    BY TotalExists
  <2>2. g = [s \in SUBSET S |-> IF s = {} THEN 0 ELSE w[Some(s)] + g[s \ {Some(s)}]]
    BY <2>1 DEF IsTotal
  <2> QED
    BY <2>2, Zenon
<1>3. sum = [s \in SUBSET S |-> IF s = {} THEN 0 ELSE w[Some(s)] + sum[s \ {Some(s)}]]
  BY <1>2, Zenon
<1>4. IsTotal(w, S, sum)
  BY <1>3 DEF IsTotal
<1> QED
  BY <1>1, <1>4

(* The sum over no elements is 0. *)
LEMMA SumOfNone ==
  ASSUME NEW w
  PROVE  SumFunctionOnSet(w, {}) = 0
<1>1. PICK g : IsTotal(w, {}, g) /\ SumFunctionOnSet(w, {}) = g[{}]
  BY SumIsTotal, FS_EmptySet
<1> QED
  BY <1>1 DEF IsTotal

(* The fold's recursion.                                                   *)
LEMMA SumUnfolded ==
  ASSUME NEW w, NEW S, IsFiniteSet(S), S # {}
  PROVE  SumFunctionOnSet(w, S)
           = w[Some(S)] + SumFunctionOnSet(w, S \ {Some(S)})
<1> DEFINE T == S \ {Some(S)}
<1>1. T \subseteq S /\ IsFiniteSet(T)
  BY FS_Subset
<1>2. PICK g : IsTotal(w, S, g) /\ SumFunctionOnSet(w, S) = g[S]
  BY SumIsTotal
<1>3. PICK h : IsTotal(w, T, h) /\ SumFunctionOnSet(w, T) = h[T]
  BY <1>1, SumIsTotal
<1>4. g[T] = h[T]
  BY <1>1, <1>2, <1>3, TotalsAgree
<1>5. g[S] = w[Some(S)] + g[T]
  BY <1>2 DEF IsTotal
<1> QED
  BY <1>2, <1>3, <1>4, <1>5

(* A sum of integers is an integer.                                        *)
LEMMA SumInt ==
  ASSUME NEW w, NEW S, IsFiniteSet(S), \A x \in S : w[x] \in Int
  PROVE  SumFunctionOnSet(w, S) \in Int
<1> DEFINE bad == {T \in SUBSET S : SumFunctionOnSet(w, T) \notin Int}
<1>1. SUFFICES ASSUME bad # {} PROVE FALSE
  OBVIOUS
<1>2. PICK T \in bad : \A x \in T : T \ {x} \notin bad
  BY <1>1, SmallestSet
<1>3. T # {}
  BY SumOfNone
<1>4. Some(T) \in T /\ IsFiniteSet(T)
  BY <1>3, FS_Subset DEF Some
<1>5. SumFunctionOnSet(w, T) = w[Some(T)] + SumFunctionOnSet(w, T \ {Some(T)})
  BY <1>3, <1>4, SumUnfolded
<1>6. SumFunctionOnSet(w, T \ {Some(T)}) \in Int
  BY <1>2, <1>4
<1> QED
  BY <1>4, <1>5, <1>6

(* Any element may be taken out first. *)
LEMMA SumSplit ==
  ASSUME NEW w, NEW S, IsFiniteSet(S), \A x \in S : w[x] \in Int, NEW x \in S
  PROVE  SumFunctionOnSet(w, S) = w[x] + SumFunctionOnSet(w, S \ {x})
<1> DEFINE bad == {T \in SUBSET S : \E y \in T :
              SumFunctionOnSet(w, T) # w[y] + SumFunctionOnSet(w, T \ {y})}
<1>1. SUFFICES ASSUME bad # {} PROVE FALSE
  OBVIOUS
<1>2. PICK T \in bad : \A y \in T : T \ {y} \notin bad
  BY <1>1, SmallestSet
<1>3. PICK y \in T : SumFunctionOnSet(w, T) # w[y] + SumFunctionOnSet(w, T \ {y})
  BY <1>2
<1> DEFINE z == Some(T)
<1>4. z \in T
  BY <1>3 DEF Some
<1> HIDE DEF z
<1>5. IsFiniteSet(T) /\ T \subseteq S
  BY FS_Subset
<1>6. SumFunctionOnSet(w, T) = w[z] + SumFunctionOnSet(w, T \ {z})
  BY <1>3, <1>5, SumUnfolded DEF z
<1>7. y # z
  BY <1>3, <1>6
<1>8. SumFunctionOnSet(w, T \ {z}) = w[y] + SumFunctionOnSet(w, (T \ {z}) \ {y})
  BY <1>2, <1>3, <1>4, <1>5, <1>7
<1>9. SumFunctionOnSet(w, T \ {y}) = w[z] + SumFunctionOnSet(w, (T \ {y}) \ {z})
  BY <1>2, <1>3, <1>4, <1>5, <1>7
<1> DEFINE less == SumFunctionOnSet(w, (T \ {y}) \ {z})
<1>10. SumFunctionOnSet(w, (T \ {z}) \ {y}) = less
  <2>1. (T \ {z}) \ {y} = (T \ {y}) \ {z}
    OBVIOUS
  <2> QED
    BY <2>1
<1>11. less \in Int
  <2>1. IsFiniteSet((T \ {y}) \ {z}) /\ \A u \in (T \ {y}) \ {z} : w[u] \in Int
    BY <1>5, FS_Subset
  <2> QED
    BY <2>1, SumInt
<1>12. w[y] \in Int /\ w[z] \in Int
  BY <1>3, <1>4, <1>5
<1>13. SumFunctionOnSet(w, T) = w[z] + (w[y] + less)
  BY <1>6, <1>8, <1>10
<1>14. SumFunctionOnSet(w, T \ {y}) = w[z] + less
  BY <1>9
<1> HIDE DEF less
<1> QED
  BY <1>3, <1>11, <1>12, <1>13, <1>14

(* Sums of functions that agree are the same. *)
LEMMA SumSame ==
  ASSUME NEW v, NEW w, NEW S, IsFiniteSet(S), \A x \in S : v[x] = w[x]
  PROVE  SumFunctionOnSet(v, S) = SumFunctionOnSet(w, S)
<1> DEFINE bad == {T \in SUBSET S : SumFunctionOnSet(v, T) # SumFunctionOnSet(w, T)}
<1>1. SUFFICES ASSUME bad # {} PROVE FALSE
  OBVIOUS
<1>2. PICK T \in bad : \A x \in T : T \ {x} \notin bad
  BY <1>1, SmallestSet
<1>3. T # {}
  BY SumOfNone
<1>4. Some(T) \in T /\ IsFiniteSet(T)
  BY <1>3, FS_Subset DEF Some
<1>5. /\ SumFunctionOnSet(v, T) = v[Some(T)] + SumFunctionOnSet(v, T \ {Some(T)})
      /\ SumFunctionOnSet(w, T) = w[Some(T)] + SumFunctionOnSet(w, T \ {Some(T)})
  BY <1>3, <1>4, SumUnfolded
<1>6. SumFunctionOnSet(v, T \ {Some(T)}) = SumFunctionOnSet(w, T \ {Some(T)})
  BY <1>2, <1>4
<1> QED
  BY <1>4, <1>5, <1>6

(* One value is changed. *)
LEMMA SumChanged ==
  ASSUME NEW v, NEW w, NEW S, IsFiniteSet(S), NEW x \in S,
         \A y \in S : v[y] \in Int /\ w[y] \in Int,
         \A y \in S \ {x} : v[y] = w[y]
  PROVE  SumFunctionOnSet(v, S) = SumFunctionOnSet(w, S) - w[x] + v[x]
<1>1. IsFiniteSet(S \ {x})
  BY FS_Subset
<1>2. SumFunctionOnSet(v, S \ {x}) = SumFunctionOnSet(w, S \ {x})
  BY <1>1, SumSame
<1>3. SumFunctionOnSet(w, S \ {x}) \in Int
  BY <1>1, SumInt
<1>4. /\ SumFunctionOnSet(v, S) = v[x] + SumFunctionOnSet(v, S \ {x})
      /\ SumFunctionOnSet(w, S) = w[x] + SumFunctionOnSet(w, S \ {x})
  BY SumSplit
<1> DEFINE a == SumFunctionOnSet(v, S \ {x})
           b == SumFunctionOnSet(w, S \ {x})
<1>5. /\ SumFunctionOnSet(v, S) = v[x] + b
      /\ SumFunctionOnSet(w, S) = w[x] + b
      /\ b \in Int /\ v[x] \in Int /\ w[x] \in Int
  BY <1>2, <1>3, <1>4
<1> HIDE DEF b
<1> QED
  BY <1>5

(* A sum of naturals over more elements is no less. *)
LEMMA SumOfSubset ==
  ASSUME NEW w, NEW S, IsFiniteSet(S), \A x \in S : w[x] \in Nat, NEW T \in SUBSET S
  PROVE  SumFunctionOnSet(w, T) <= SumFunctionOnSet(w, S)
<1> DEFINE bad == {R \in SUBSET (S \ T) :
              ~(SumFunctionOnSet(w, T) <= SumFunctionOnSet(w, T \cup R))}
<1>1. IsFiniteSet(S \ T) /\ T \cup (S \ T) = S
  BY FS_Subset
<1>2. SUFFICES ASSUME bad # {} PROVE FALSE
  BY <1>1
<1>3. PICK R \in bad : \A x \in R : R \ {x} \notin bad
  BY <1>1, <1>2, SmallestSet
<1>4. SumFunctionOnSet(w, T) \in Int
  BY SumInt, FS_Subset
<1>5. R # {}
  <2>1. T \cup {} = T
    OBVIOUS
  <2> QED
    BY <1>4, <2>1
<1>6. PICK x \in R : TRUE
  BY <1>5
<1>7. /\ (T \cup R) \ {x} = T \cup (R \ {x}) /\ T \cup R \subseteq S /\ x \in T \cup R
      /\ T \cup (R \ {x}) \subseteq S
  OBVIOUS
<1>8. IsFiniteSet(T \cup R) /\ IsFiniteSet(T \cup (R \ {x}))
  BY <1>7, FS_Subset
<1> DEFINE b == SumFunctionOnSet(w, T \cup (R \ {x}))
<1>9. SumFunctionOnSet(w, T \cup R) = w[x] + b
  <2>1. \A y \in T \cup R : w[y] \in Int
    BY <1>7
  <2>2. SumFunctionOnSet(w, T \cup R) = w[x] + SumFunctionOnSet(w, (T \cup R) \ {x})
    BY <1>7, <1>8, <2>1, SumSplit
  <2> QED
    BY <1>7, <2>2
<1>10. SumFunctionOnSet(w, T) <= b
  BY <1>3
<1>11. b \in Int /\ w[x] \in Nat
  BY <1>7, <1>8, SumInt
<1>12. SumFunctionOnSet(w, T) <= w[x] + b
  BY <1>4, <1>10, <1>11
<1> QED
  BY <1>9, <1>12

(* A sum of zeros is 0. *)
LEMMA SumOfZeros ==
  ASSUME NEW w, NEW S, IsFiniteSet(S), \A x \in S : w[x] = 0
  PROVE  SumFunctionOnSet(w, S) = 0
<1> DEFINE bad == {T \in SUBSET S : SumFunctionOnSet(w, T) # 0}
<1>1. SUFFICES ASSUME bad # {} PROVE FALSE
  OBVIOUS
<1>2. PICK T \in bad : \A x \in T : T \ {x} \notin bad
  BY <1>1, SmallestSet
<1>3. T # {}
  BY SumOfNone
<1>4. Some(T) \in T /\ IsFiniteSet(T)
  BY <1>3, FS_Subset DEF Some
<1>5. SumFunctionOnSet(w, T) = w[Some(T)] + SumFunctionOnSet(w, T \ {Some(T)})
  BY <1>3, <1>4, SumUnfolded
<1>6. SumFunctionOnSet(w, T \ {Some(T)}) = 0
  BY <1>2, <1>4
<1> QED
  BY <1>4, <1>5, <1>6

(* One element more *)
LEMMA SumAdded ==
  ASSUME NEW w, NEW S, IsFiniteSet(S), NEW x, x \notin S, w[x] \in Int,
         \A y \in S : w[y] \in Int
  PROVE  SumFunctionOnSet(w, S \cup {x}) = w[x] + SumFunctionOnSet(w, S)
<1>1. IsFiniteSet(S \cup {x})
  BY FS_AddElement
<1>2. (S \cup {x}) \ {x} = S
  OBVIOUS
<1> QED
  BY <1>1, <1>2, SumSplit

-----------------------------------------------------------------------------
(* One of a finite set is the greatest.                                    *)
LEMMA OneIsGreatest ==
  ASSUME NEW w, NEW S, IsFiniteSet(S), S # {}, \A x \in S : w[x] \in Int
  PROVE  \E m \in S : \A x \in S : w[x] <= w[m]
<1> DEFINE Greatest(T, m) == \A x \in T : w[x] <= w[m]
<1> DEFINE bad == {T \in SUBSET S : T # {} /\ ~\E m \in T : Greatest(T, m)}
<1>1. SUFFICES ASSUME bad # {} PROVE FALSE
  OBVIOUS
<1>2. PICK T \in bad : \A x \in T : T \ {x} \notin bad
  BY <1>1, SmallestSet
<1>3. PICK x \in T : TRUE
  OBVIOUS
<1>4. CASE T \ {x} = {}
  <2>1. Greatest(T, x)
    BY <1>3, <1>4
  <2> QED
    BY <1>2, <2>1
<1>5. CASE T \ {x} # {}
  <2>1. PICK m \in T \ {x} : Greatest(T \ {x}, m)
    BY <1>2, <1>5
  <2>2. w[m] \in Int /\ w[x] \in Int /\ \A y \in T : w[y] \in Int
    BY <1>2, <1>3
  <2>3. CASE w[x] <= w[m]
    <3>1. Greatest(T, m)
      BY <2>1, <2>3
    <3> QED
      BY <1>2, <3>1
  <2>4. CASE w[m] <= w[x]
    <3>1. Greatest(T, x)
      BY <2>1, <2>2, <2>4
    <3> QED
      BY <1>2, <3>1
  <2> QED
    BY <2>2, <2>3, <2>4
<1> QED
  BY <1>4, <1>5
=============================================================================
