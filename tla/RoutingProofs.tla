--------------------------- MODULE RoutingProofs ---------------------------
(***************************************************************************)
(* Proofs about Routing, for every set of agents, every set of records and *)
(* updates, every message and every strategy: first what the ordered lists *)
(* of the model are, then what the line of references of a call keeps      *)
(* while the table changes, then every step of the specification.          *)
(***************************************************************************)
EXTENDS Routing, FiniteLemmas

\* A strict total order on a set.
OrderOn(set, less) ==
  /\ \A x \in set : <<x, x>> \notin less
  /\ \A x, y, z \in set : <<x, y>> \in less /\ <<y, z>> \in less => <<x, z>> \in less
  /\ \A x, y \in set : x = y \/ <<x, y>> \in less \/ <<y, x>> \in less

\* The list has the elements of the set, each once and in their order.
Enumerates(list, set, less) ==
  /\ list \in [1..Cardinality(set) -> set]
  /\ \A i, j \in 1..Cardinality(set) : i < j => <<list[i], list[j]>> \in less
  /\ \A i, j \in 1..Cardinality(set) : list[i] = list[j] => i = j
  /\ \A x \in set : \E i \in 1..Cardinality(set) : list[i] = x

\* A finite set can be listed in its order: each element at the place that the number of
\* smaller ones gives it.
LEMMA ListExists ==
  ASSUME NEW set, NEW less, IsFiniteSet(set), OrderOn(set, less)
  PROVE  \E list \in [1..Cardinality(set) -> set] :
           \A i, j \in 1..Cardinality(set) : i < j => <<list[i], list[j]>> \in less
<1>1. PICK n \in Nat : n = Cardinality(set)
  BY FS_CardinalityType
<1> DEFINE Under(x) == {y \in set : <<y, x>> \in less}
           Place == [x \in set |-> Cardinality(Under(x)) + 1]
<1>2. ASSUME NEW x \in set
      PROVE  /\ IsFiniteSet(Under(x)) /\ Cardinality(Under(x)) \in Nat
             /\ x \notin Under(x)
  <2>1. Under(x) \subseteq set
    OBVIOUS
  <2>2. IsFiniteSet(Under(x))
    <3> HIDE DEF Under
    <3> QED BY <2>1, FS_Subset
  <2>3. Cardinality(Under(x)) \in Nat
    BY <2>2, FS_CardinalityType
  <2>4. x \notin Under(x)
    BY DEF OrderOn
  <2>5. QED BY <2>2, <2>3, <2>4
<1>3. ASSUME NEW x \in set, NEW T, IsFiniteSet(T), Under(x) \union {x} \subseteq T
      PROVE  Cardinality(Under(x)) + 1 <= Cardinality(T)
  <2> HIDE DEF Under
  <2>1. Cardinality(Under(x) \union {x}) = Cardinality(Under(x)) + 1
    BY <1>2, FS_AddElement
  <2>2. Cardinality(Under(x) \union {x}) <= Cardinality(T)
    BY <1>3, FS_Subset
  <2>3. QED BY <2>1, <2>2
<1>4. ASSUME NEW x \in set PROVE Place[x] \in 1..n
  <2>1. Under(x) \union {x} \subseteq set
    OBVIOUS
  <2>2. Cardinality(Under(x)) + 1 <= n
    <3> HIDE DEF Under
    <3> QED BY <1>1, <1>3, <2>1
  <2> HIDE DEF Under
  <2>3. QED BY <1>2, <2>2
<1>5. ASSUME NEW x \in set, NEW y \in set, <<x, y>> \in less PROVE Place[x] < Place[y]
  <2>1. Under(x) \union {x} \subseteq Under(y)
    BY <1>5 DEF OrderOn
  <2>2. Cardinality(Under(x)) + 1 <= Cardinality(Under(y))
    <3> HIDE DEF Under
    <3> QED BY <1>2, <1>3, <2>1
  <2> HIDE DEF Under
  <2>3. QED BY <1>2, <2>2
<1>6. Place \in [set -> 1..n]
  BY <1>4
<1> HIDE DEF Place
<1>7. Place \in Injection(set, 1..n)
  <2>1. ASSUME NEW x \in set, NEW y \in set, Place[x] = Place[y] PROVE x = y
    <3>1. Place[x] \in 1..n /\ Place[y] \in 1..n
      BY <1>6
    <3>2. ~(Place[x] < Place[y]) /\ ~(Place[y] < Place[x])
      BY <2>1, <3>1
    <3>3. QED BY <1>5, <3>2 DEF OrderOn
  <2>2. QED BY <1>6, <2>1 DEF Injection, IsInjective
<1>8. Place \in Surjection(set, 1..n)
  <2>1. IsFiniteSet(1..n) /\ Cardinality(1..n) = n
    BY FS_Interval
  <2>2. QED BY <1>1, <1>7, <2>1, FS_Injection
<1>9. \A i \in 1..n : \E x \in set : Place[x] = i
  BY <1>8 DEF Surjection
<1> DEFINE list == [i \in 1..n |-> CHOOSE x \in set : Place[x] = i]
<1>10. \A i \in 1..n : list[i] \in set /\ Place[list[i]] = i
  BY <1>9
<1>11. list \in [1..n -> set]
  BY <1>10
<1> HIDE DEF list
<1>12. ASSUME NEW i \in 1..n, NEW j \in 1..n, i < j PROVE <<list[i], list[j]>> \in less
  <2>1. list[i] # list[j] /\ ~(Place[list[j]] < Place[list[i]])
    BY <1>10, <1>12
  <2>2. QED BY <1>5, <1>10, <2>1 DEF OrderOn
<1>13. QED BY <1>1, <1>11, <1>12

\* InOrder is such a list.
LEMMA InOrderIs ==
  ASSUME NEW set, NEW less, IsFiniteSet(set), OrderOn(set, less)
  PROVE  Enumerates(InOrder(set, less), set, less)
<1>1. PICK n \in Nat : n = Cardinality(set)
  BY FS_CardinalityType
<1>2. PICK list : list = InOrder(set, less)
  OBVIOUS
<1>3. /\ list \in [1..n -> set]
      /\ \A i, j \in 1..n : i < j => <<list[i], list[j]>> \in less
  <2>1. \E l \in [1..n -> set] : \A i, j \in 1..n : i < j => <<l[i], l[j]>> \in less
    BY <1>1, ListExists
  <2>2. list = CHOOSE l \in [1..n -> set] : \A i, j \in 1..n : i < j => <<l[i], l[j]>> \in less
    BY <1>1, <1>2 DEF InOrder
  <2>3. QED BY <2>1, <2>2
<1>4. ASSUME NEW i \in 1..n, NEW j \in 1..n, list[i] = list[j] PROVE i = j
  <2>1. CASE i < j
    <3>1. <<list[i], list[j]>> \in less
      BY <1>3, <2>1
    <3>2. QED BY <1>3, <1>4, <3>1 DEF OrderOn
  <2>2. CASE j < i
    <3>1. <<list[j], list[i]>> \in less
      BY <1>3, <2>2
    <3>2. QED BY <1>3, <1>4, <3>1 DEF OrderOn
  <2>3. QED BY <2>1, <2>2
<1>5. \A x \in set : \E i \in 1..n : list[i] = x
  <2>1. list \in Injection(1..n, set)
    BY <1>3, <1>4 DEF Injection, IsInjective
  <2>2. Cardinality(1..n) = Cardinality(set)
    BY <1>1, FS_Interval
  <2>3. list \in Surjection(1..n, set)
    BY <2>1, <2>2, FS_Injection
  <2>4. QED BY <2>3 DEF Surjection
<1>6. QED BY <1>1, <1>2, <1>3, <1>4, <1>5 DEF Enumerates

\* The list has exactly the elements of s that are in the set, each once, as s orders them.
LEMMA ThoseAre ==
  ASSUME NEW s \in Seq(MeshAgents), IsInjective(s), NEW set
  PROVE  \E t \in Seq(MeshAgents) :
           /\ t = Those(s, set)
           /\ IsInjective(t)
           /\ \A a : (\E i \in DOMAIN t : t[i] = a) <=> a \in set /\ \E i \in DOMAIN s : s[i] = a
           /\ \A i, j \in DOMAIN t : i < j =>
                \E x, y \in DOMAIN s : x < y /\ s[x] = t[i] /\ s[y] = t[j]
<1>1. PICK n \in Nat : n = Len(s) /\ DOMAIN s = 1..n /\ s \in [1..n -> MeshAgents]
  OBVIOUS
<1>2. PICK S : S = {i \in 1..n : s[i] \in set}
  OBVIOUS
<1>3. PICK less : less = {p \in (1..n) \X (1..n) : p[1] < p[2]}
  OBVIOUS
<1>4. IsFiniteSet(S)
  <2>1. IsFiniteSet(1..n)
    BY FS_Interval
  <2>2. S \subseteq 1..n
    BY <1>2
  <2>3. QED BY <2>1, <2>2, FS_Subset
<1>5. \A x, y : <<x, y>> \in less <=> x \in 1..n /\ y \in 1..n /\ x < y
  BY <1>3
<1>6. OrderOn(S, less)
  BY <1>2, <1>5 DEF OrderOn
<1>7. PICK m \in Nat : m = Cardinality(S)
  BY <1>4, FS_CardinalityType
<1>8. PICK places \in [1..m -> S] :
        /\ places = InOrder(S, less)
        /\ \A i, j \in 1..m : i < j => <<places[i], places[j]>> \in less
        /\ \A i, j \in 1..m : places[i] = places[j] => i = j
        /\ \A x \in S : \E i \in 1..m : places[i] = x
  <2>1. Enumerates(InOrder(S, less), S, less)
    BY <1>4, <1>6, InOrderIs
  <2>2. QED BY <1>7, <2>1 DEF Enumerates
<1> DEFINE t == [i \in 1..m |-> s[places[i]]]
<1>9. t = Those(s, set)
  BY <1>1, <1>2, <1>3, <1>8 DEF Those
<1>10. \A i \in 1..m : places[i] \in 1..n /\ s[places[i]] \in set /\ t[i] = s[places[i]]
  BY <1>2, <1>8
<1>11. t \in [1..m -> MeshAgents]
  BY <1>1, <1>10
<1> HIDE DEF t
<1>12. t \in Seq(MeshAgents) /\ DOMAIN t = 1..m
  BY <1>11
<1>13. \A x, y \in 1..n : s[x] = s[y] => x = y
  BY <1>1 DEF IsInjective
<1>14. IsInjective(t)
  <2>1. ASSUME NEW i \in 1..m, NEW j \in 1..m, t[i] = t[j] PROVE i = j
    <3>1. places[i] \in 1..n /\ places[j] \in 1..n /\ s[places[i]] = s[places[j]]
      BY <1>10, <2>1
    <3>2. places[i] = places[j]
      BY <1>13, <3>1
    <3>3. QED BY <1>8, <3>2
  <2>2. QED BY <1>12, <2>1 DEF IsInjective
<1>15. ASSUME NEW a
       PROVE  (\E i \in 1..m : t[i] = a) <=> a \in set /\ \E i \in 1..n : s[i] = a
  <2>1. ASSUME NEW i \in 1..m, t[i] = a PROVE a \in set /\ \E x \in 1..n : s[x] = a
    BY <1>10, <2>1
  <2>2. ASSUME a \in set, NEW x \in 1..n, s[x] = a PROVE \E i \in 1..m : t[i] = a
    <3>1. x \in S
      BY <1>2, <2>2
    <3>2. PICK i \in 1..m : places[i] = x
      BY <1>8, <3>1
    <3>3. QED BY <1>10, <2>2, <3>2
  <2>3. QED BY <2>1, <2>2
<1>16. ASSUME NEW i \in 1..m, NEW j \in 1..m, i < j
       PROVE  \E x, y \in 1..n : x < y /\ s[x] = t[i] /\ s[y] = t[j]
  <2>1. places[i] < places[j] /\ places[i] \in 1..n /\ places[j] \in 1..n
    BY <1>5, <1>8, <1>10, <1>16
  <2>2. QED BY <1>10, <2>1
<1>17. QED BY <1>1, <1>9, <1>12, <1>14, <1>15, <1>16

\* What has been read of a list of records: agents with their keys.
Readings == [agent: MeshAgents, key: Int]

\* The ranking names the agents of the readings, each once.
NamesThem(r, keyed) ==
  /\ r \in Seq(MeshAgents) /\ Len(r) = Len(keyed) /\ IsInjective(r)
  /\ \A a : (\E i \in 1..Len(r) : r[i] = a) <=> \E i \in 1..Len(keyed) : keyed[i].agent = a

\* It has them in the order of their keys and, of equals, in that of the readings.
ByKey(r, keyed) ==
  \A i, j \in 1..Len(r) : i < j =>
    \E x, y \in 1..Len(keyed) :
      /\ r[i] = keyed[x].agent /\ r[j] = keyed[y].agent
      /\ keyed[x].key < keyed[y].key \/ (keyed[x].key = keyed[y].key /\ x < y)

\* list.sort() of readings of different agents.
LEMMA SortedIs ==
  ASSUME NEW keyed \in Seq(Readings),
         \A i, j \in 1..Len(keyed) : keyed[i].agent = keyed[j].agent => i = j
  PROVE  NamesThem(Sorted(keyed), keyed) /\ ByKey(Sorted(keyed), keyed)
<1>1. PICK n \in Nat : n = Len(keyed) /\ DOMAIN keyed = 1..n /\ keyed \in [1..n -> Readings]
  OBVIOUS
<1>2. PICK less : less = {p \in (1..n) \X (1..n) :
                            \/ keyed[p[1]].key < keyed[p[2]].key
                            \/ keyed[p[1]].key = keyed[p[2]].key /\ p[1] < p[2]}
  OBVIOUS
<1>3. \A x, y : <<x, y>> \in less <=>
        /\ x \in 1..n /\ y \in 1..n
        /\ keyed[x].key < keyed[y].key \/ (keyed[x].key = keyed[y].key /\ x < y)
  BY <1>2
<1>4. \A x \in 1..n : keyed[x].key \in Int /\ keyed[x].agent \in MeshAgents
  BY <1>1 DEF Readings
<1>5. OrderOn(1..n, less)
  <2>1. PICK k \in [1..n -> Int] : \A x \in 1..n : k[x] = keyed[x].key
    <3>1. [x \in 1..n |-> keyed[x].key] \in [1..n -> Int]
      BY <1>4
    <3>2. QED BY <3>1
  <2>2. ASSUME NEW x \in 1..n, NEW y \in 1..n
        PROVE  <<x, y>> \in less <=> k[x] < k[y] \/ (k[x] = k[y] /\ x < y)
    <3>1. k[x] = keyed[x].key /\ k[y] = keyed[y].key
      BY <2>1
    <3>2. QED BY <1>3, <3>1
  <2>3. ASSUME NEW x \in 1..n, NEW y \in 1..n
        PROVE  x = y \/ <<x, y>> \in less \/ <<y, x>> \in less
    <3>1. k[x] \in Int /\ k[y] \in Int
      OBVIOUS
    <3>2. k[x] < k[y] \/ k[y] < k[x] \/ k[x] = k[y]
      BY <3>1
    <3>3. QED BY <2>2, <3>2
  <2>4. \A x, y, z \in 1..n : <<x, y>> \in less /\ <<y, z>> \in less => <<x, z>> \in less
    BY <2>2
  <2>5. \A x \in 1..n : <<x, x>> \notin less
    BY <2>2
  <2>6. QED BY <2>3, <2>4, <2>5 DEF OrderOn
<1>6. IsFiniteSet(1..n) /\ Cardinality(1..n) = n
  BY FS_Interval
<1>7. PICK places \in [1..n -> 1..n] :
        /\ places = InOrder(1..n, less)
        /\ \A i, j \in 1..n : i < j => <<places[i], places[j]>> \in less
        /\ \A i, j \in 1..n : places[i] = places[j] => i = j
        /\ \A x \in 1..n : \E i \in 1..n : places[i] = x
  <2>1. Enumerates(InOrder(1..n, less), 1..n, less)
    BY <1>5, <1>6, InOrderIs
  <2>2. QED BY <1>6, <2>1 DEF Enumerates
<1> DEFINE r == [i \in 1..n |-> keyed[places[i]].agent]
<1>8. r = Sorted(keyed)
  <2>1. DOMAIN places = 1..n
    BY <1>7
  <2>2. less = {p \in (DOMAIN keyed) \X (DOMAIN keyed) :
                  \/ keyed[p[1]].key < keyed[p[2]].key
                  \/ keyed[p[1]].key = keyed[p[2]].key /\ p[1] < p[2]}
    BY <1>1, <1>2, Zenon
  <2>3. Sorted(keyed) = [i \in DOMAIN places |-> keyed[places[i]].agent]
    BY <1>1, <1>7, <2>2, Zenon DEF Sorted
  <2>4. QED BY <2>1, <2>3, Zenon
<1>9. \A i \in 1..n : places[i] \in 1..n /\ r[i] = keyed[places[i]].agent
  BY <1>7
<1>10. r \in [1..n -> MeshAgents]
  BY <1>4, <1>9
<1> HIDE DEF r
<1>11. r \in Seq(MeshAgents) /\ Len(r) = n /\ DOMAIN r = 1..n
  BY <1>10
<1>12. IsInjective(r)
  <2>1. ASSUME NEW i \in 1..n, NEW j \in 1..n, r[i] = r[j] PROVE i = j
    <3>1. /\ places[i] \in 1..n /\ places[j] \in 1..n
          /\ keyed[places[i]].agent = keyed[places[j]].agent
      BY <1>9, <2>1
    <3>2. places[i] = places[j]
      BY <1>1, <3>1
    <3>3. QED BY <1>7, <3>2
  <2>2. QED BY <1>11, <2>1 DEF IsInjective
<1>13. ASSUME NEW a
       PROVE  (\E i \in 1..n : r[i] = a) <=> \E i \in 1..n : keyed[i].agent = a
  <2>1. ASSUME NEW i \in 1..n, r[i] = a PROVE \E x \in 1..n : keyed[x].agent = a
    BY <1>9, <2>1
  <2>2. ASSUME NEW x \in 1..n, keyed[x].agent = a PROVE \E i \in 1..n : r[i] = a
    <3>1. PICK i \in 1..n : places[i] = x
      BY <1>7
    <3>2. QED BY <1>9, <2>2, <3>1
  <2>3. QED BY <2>1, <2>2
<1>14. NamesThem(r, keyed)
  BY <1>1, <1>11, <1>12, <1>13 DEF NamesThem
<1>15. ByKey(r, keyed)
  <2>1. ASSUME NEW i \in 1..n, NEW j \in 1..n, i < j
        PROVE  \E x, y \in 1..n :
                 /\ r[i] = keyed[x].agent /\ r[j] = keyed[y].agent
                 /\ keyed[x].key < keyed[y].key \/ (keyed[x].key = keyed[y].key /\ x < y)
    <3>1. PICK x \in 1..n, y \in 1..n : x = places[i] /\ y = places[j]
      BY <1>9
    <3>2. <<x, y>> \in less
      BY <1>7, <2>1, <3>1
    <3>3. keyed[x].key < keyed[y].key \/ (keyed[x].key = keyed[y].key /\ x < y)
      BY <1>3, <3>2
    <3>4. r[i] = keyed[x].agent /\ r[j] = keyed[y].agent
      BY <1>9, <3>1
    <3>5. QED BY <3>3, <3>4
  <2>2. Len(r) = n /\ Len(keyed) = n
    BY <1>1, <1>11
  <2>3. SUFFICES ASSUME NEW i \in 1..Len(r), NEW j \in 1..Len(r), i < j
                 PROVE  \E x, y \in 1..Len(keyed) :
                          /\ r[i] = keyed[x].agent /\ r[j] = keyed[y].agent
                          /\ \/ keyed[x].key < keyed[y].key
                             \/ keyed[x].key = keyed[y].key /\ x < y
    BY DEF ByKey
  <2>4. i \in 1..n /\ j \in 1..n
    BY <2>2
  <2>5. PICK x \in 1..n, y \in 1..n :
          /\ r[i] = keyed[x].agent /\ r[j] = keyed[y].agent
          /\ keyed[x].key < keyed[y].key \/ (keyed[x].key = keyed[y].key /\ x < y)
    BY <2>1, <2>3, <2>4
  <2>6. x \in 1..Len(keyed) /\ y \in 1..Len(keyed)
    BY <2>2
  <2>7. QED BY <2>5, <2>6
<1>16. QED BY <1>8, <1>14, <1>15

\* A rotation of a list has its elements, each once.
LEMMA RotatedIs ==
  ASSUME NEW list \in Seq(MeshAgents), IsInjective(list), NEW index \in 0..(Len(list) - 1)
  PROVE  \E r \in Seq(MeshAgents) :
           /\ r = Rotated(list, index) /\ Len(r) = Len(list) /\ IsInjective(r)
           /\ \A a : (\E i \in 1..Len(r) : r[i] = a) <=> \E i \in 1..Len(list) : list[i] = a
<1>1. PICK n \in Nat : n = Len(list) /\ n > 0 /\ index < n /\ index \in Nat
  OBVIOUS
<1>2. PICK s \in Seq(MeshAgents), t \in Seq(MeshAgents) :
        s = SubSeq(list, index + 1, n) /\ t = SubSeq(list, 1, index)
  <2>1. SubSeq(list, index + 1, n) \in Seq(MeshAgents) /\ SubSeq(list, 1, index) \in Seq(MeshAgents)
    BY <1>1
  <2>2. QED BY <2>1, Zenon
<1>3. /\ Len(s) = n - index /\ \A i \in 1..(n - index) : s[i] = list[i + index]
      /\ Len(t) = index /\ \A i \in 1..index : t[i] = list[i]
  BY <1>1, <1>2
<1>4. PICK r \in Seq(MeshAgents) : r = s \o t
  <2>1. s \o t \in Seq(MeshAgents)
    OBVIOUS
  <2>2. QED BY <2>1, Zenon
<1>5. r = Rotated(list, index)
  BY <1>1, <1>2, <1>4 DEF Rotated
<1>6. Len(r) = n
  <2>1. Len(r) = Len(s) + Len(t)
    BY <1>4
  <2>2. QED BY <1>1, <1>3, <2>1
<1>7. \A i \in 1..(n - index) : r[i] = list[i + index]
  BY <1>1, <1>3, <1>4
<1>8. \A i \in (n - index + 1)..n : r[i] = list[i + index - n]
  <2>1. SUFFICES ASSUME NEW i \in (n - index + 1)..n PROVE r[i] = list[i + index - n]
    OBVIOUS
  <2>2. r[i] = t[i - (n - index)]
    <3>1. i > Len(s) /\ i <= Len(s) + Len(t) /\ i \in Nat
      BY <1>1, <1>3
    <3>2. r[i] = t[i - Len(s)]
      BY <1>4, <3>1
    <3>3. QED BY <1>3, <3>2
  <2>3. i - (n - index) = i + index - n /\ i + index - n \in 1..index
    BY <1>1
  <2>4. QED BY <1>3, <2>2, <2>3
<1>9. \A i, j \in 1..n : list[i] = list[j] => i = j
  BY <1>1 DEF IsInjective
<1>10. ASSUME NEW i \in 1..n
       PROVE  \E x \in 1..n : /\ r[i] = list[x]
                               /\ x = IF i <= n - index THEN i + index ELSE i + index - n
  <2>1. CASE i <= n - index
    <3>1. i \in 1..(n - index) /\ i + index \in 1..n
      BY <1>1, <2>1
    <3>2. QED BY <1>7, <2>1, <3>1
  <2>2. CASE ~(i <= n - index)
    <3>1. i \in (n - index + 1)..n /\ i + index - n \in 1..n
      BY <1>1, <2>2
    <3>2. QED BY <1>8, <2>2, <3>1
  <2>3. QED BY <2>1, <2>2
<1>11. IsInjective(r)
  <2>1. ASSUME NEW i \in 1..n, NEW j \in 1..n, r[i] = r[j] PROVE i = j
    <3>1. PICK x \in 1..n : /\ r[i] = list[x]
                            /\ x = IF i <= n - index THEN i + index ELSE i + index - n
      BY <1>10
    <3>2. PICK y \in 1..n : /\ r[j] = list[y]
                            /\ y = IF j <= n - index THEN j + index ELSE j + index - n
      BY <1>10
    <3>3. x = y
      BY <1>9, <2>1, <3>1, <3>2
    <3>4. /\ n \in Int /\ index \in Int /\ index < n /\ i \in Int /\ 1 <= i /\ i <= n
          /\ j \in Int /\ 1 <= j /\ j <= n
      BY <1>1
    <3>5. CASE i <= n - index
      BY <3>1, <3>2, <3>3, <3>4, <3>5
    <3>6. CASE ~(i <= n - index)
      BY <3>1, <3>2, <3>3, <3>4, <3>6
    <3>7. QED BY <3>5, <3>6
  <2>2. QED BY <1>6, <2>1 DEF IsInjective
<1>12. ASSUME NEW a
       PROVE  (\E i \in 1..n : r[i] = a) <=> \E i \in 1..n : list[i] = a
  <2>1. ASSUME NEW i \in 1..n, r[i] = a PROVE \E x \in 1..n : list[x] = a
    BY <1>10, <2>1
  <2>2. ASSUME NEW x \in 1..n, list[x] = a PROVE \E i \in 1..n : r[i] = a
    <3>1. CASE x > index
      <4>1. x - index \in 1..(n - index) /\ x - index \in 1..n /\ x - index + index = x
        BY <1>1, <3>1
      <4>2. QED BY <1>7, <2>2, <4>1
    <3>2. CASE ~(x > index)
      <4>1. /\ x - index + n \in (n - index + 1)..n /\ x - index + n \in 1..n
            /\ x - index + n + index - n = x
        BY <1>1, <3>2
      <4>2. QED BY <1>8, <2>2, <4>1
    <3>3. QED BY <3>1, <3>2
  <2>3. QED BY <2>1, <2>2
<1>13. QED BY <1>1, <1>5, <1>6, <1>11, <1>12

\* What a part of the strategy makes of readings of different agents.
LEMMA RankingIs ==
  ASSUME NEW part, NEW keyed \in Seq(Readings), counter \in Nat,
         \A i, j \in 1..Len(keyed) : keyed[i].agent = keyed[j].agent => i = j
  PROVE  /\ NamesThem(Ranking(part, keyed), keyed)
         /\ part.name # "round_robin" => ByKey(Ranking(part, keyed), keyed)
<1>1. NamesThem(Sorted(keyed), keyed) /\ ByKey(Sorted(keyed), keyed)
  BY SortedIs
<1>2. CASE part.name = "round_robin" /\ keyed # <<>>
  <2>1. PICK list \in Seq(MeshAgents) : list = Sorted(keyed) /\ Len(list) = Len(keyed)
    BY <1>1 DEF NamesThem
  <2>2. PICK n \in Nat \ {0} : n = Len(keyed)
    BY <1>2
  <2>3. PICK index \in 0..(Len(list) - 1) : index = counter % Len(keyed)
    <3>1. counter % n \in 0..(n - 1)
      OBVIOUS
    <3>2. QED BY <2>1, <2>2, <3>1
  <2>4. PICK r \in Seq(MeshAgents) :
          /\ r = Rotated(list, index) /\ Len(r) = Len(list) /\ IsInjective(r)
          /\ \A a : (\E i \in 1..Len(r) : r[i] = a) <=> \E i \in 1..Len(list) : list[i] = a
    <3>1. IsInjective(list)
      BY <1>1, <2>1 DEF NamesThem
    <3>2. QED BY <3>1, RotatedIs
  <2>5. Ranking(part, keyed) = r
    BY <1>2, <2>1, <2>3, <2>4 DEF Ranking
  <2>6. NamesThem(r, keyed)
    BY <1>1, <2>1, <2>4 DEF NamesThem
  <2>7. QED BY <1>2, <2>5, <2>6
<1>3. CASE ~(part.name = "round_robin" /\ keyed # <<>>)
  <2>1. Ranking(part, keyed) = Sorted(keyed)
    BY <1>3 DEF Ranking
  <2>2. QED BY <1>1, <2>1
<1>4. QED BY <1>2, <1>3

-----------------------------------------------------------------------------
\* AgentRecords.
AgentRecords ==
  [capabilities: SUBSET Capabilities, cost: Int, load: Int, healthy: BOOLEAN]

\* References to them, as a call keeps them.
References == [agent: MeshAgents, live: BOOLEAN, was: AgentRecords]

\* Calls of resolve().
Calls ==
  [stage: {"idle", "receiver", "base", "list", "rank", "done"},
   message: Messages \union {[receiver |-> {}, required |-> {}, budget |-> {}]},
   part: Nat, base: Seq(MeshAgents), listed: Seq(References), kept: Seq(References),
   keyed: Seq(Readings), scores: [MeshAgents -> Nat], ranked: Seq(MeshAgents),
   missing: BOOLEAN, steady: SUBSET MeshAgents, reachable: SUBSET MeshAgents, changes: Nat]

\* The table and the call stay in their types.
RoutingTyped ==
  /\ router \in Routers
  /\ order \in Seq(MeshAgents) /\ IsInjective(order)
  /\ records \in [MeshAgents -> AgentRecords]
  /\ counter \in 0..(Turns - 1)
  /\ call \in Calls
  /\ \A a \in Range(order) : CostOk(records[a].cost) /\ LoadOk(records[a].load)
  /\ \A a \in MeshAgents \ Range(order) : records[a] = Blank

\* a comes before b in the table.
Earlier(a, b) == \E x, y \in DOMAIN order : x < y /\ order[x] = a /\ order[y] = b

\* The same references, but for those to agents that are not steady.
SameLine(new, old, steady) ==
  /\ new \in Seq(References) /\ Len(new) = Len(old)
  /\ \A i \in 1..Len(old) : /\ new[i].agent = old[i].agent
                            /\ old[i].agent \in steady => new[i] = old[i]

\* What a change of the table leaves of a call.
CallFollows ==
  /\ call' \in Calls
  /\ call'.stage = call.stage /\ call'.message = call.message /\ call'.part = call.part
  /\ call'.base = call.base /\ call'.keyed = call.keyed /\ call'.scores = call.scores
  /\ call'.ranked = call.ranked /\ call'.missing = call.missing
  /\ call.stage # "idle" =>
       /\ SameLine(call'.listed, call.listed, call'.steady)
       /\ SameLine(call'.kept, call.kept, call'.steady)
       /\ call'.steady = {a \in call.steady : a \in Range(order') /\ records'[a] = records[a]}
       /\ call'.reachable = call.reachable \union HealthyOnes(Range(order'), records')

\* What a change of the table is.
TableChanges ==
  /\ router' = router /\ counter' = counter
  /\ order' \in Seq(MeshAgents) /\ IsInjective(order')
  /\ \A a, b \in Range(order') : Earlier(a, b) => Earlier(a, b)'
  /\ records' \in [MeshAgents -> AgentRecords]
  /\ \A a \in Range(order') : CostOk(records'[a].cost) /\ LoadOk(records'[a].load)
  /\ \A a \in MeshAgents \ Range(order') : records'[a] = Blank
  /\ CallFollows

\* An empty record is a record.
LEMMA BlankType == Blank \in AgentRecords
  BY DEF Blank, AgentRecords

\* What Followed() makes of a call.
LEMMA FollowedIs ==
  ASSUME NEW c \in Calls, call' = Followed(c), order' \in Seq(MeshAgents)
  PROVE  /\ call' \in Calls
         /\ call'.stage = c.stage /\ call'.message = c.message /\ call'.part = c.part
         /\ call'.base = c.base /\ call'.keyed = c.keyed /\ call'.scores = c.scores
         /\ call'.ranked = c.ranked /\ call'.missing = c.missing
         /\ call'.listed = c.listed /\ call'.kept = c.kept
         /\ c.stage # "idle" =>
              /\ call'.steady = {a \in c.steady : a \in Range(order') /\ records'[a] = records[a]}
              /\ call'.reachable = c.reachable \union HealthyOnes(Range(order'), records')
<1>1. CASE c.stage = "idle"
  BY <1>1 DEF Followed
<1>2. CASE c.stage # "idle"
  <2>1. PICK st, re : /\ st = {a \in c.steady : a \in Range(order') /\ records'[a] = records[a]}
                      /\ re = c.reachable \union HealthyOnes(Range(order'), records')
    OBVIOUS
  <2>2. call' = [c EXCEPT !.changes = @ + 1, !.steady = st, !.reachable = re]
    BY <1>2, <2>1 DEF Followed
  <2>3. Range(order') \subseteq MeshAgents
    BY DEF Range
  <2>4. st \in SUBSET MeshAgents /\ re \in SUBSET MeshAgents
    BY <2>1, <2>3 DEF Calls, HealthyOnes
  <2>5. c.changes + 1 \in Nat
    BY DEF Calls
  <2>6. call' \in Calls
    BY <2>2, <2>4, <2>5 DEF Calls
  <2>7. QED BY <2>1, <2>2, <2>6 DEF Calls
<1>3. QED BY <1>1, <1>2

\* References that nobody touched are the same.
LEMMA SameLineOf ==
  ASSUME NEW s \in Seq(References), NEW steady PROVE SameLine(s, s, steady)
  BY DEF SameLine

\* register_agent().
LEMMA RegisterChanges ==
  ASSUME RoutingTyped, NEW a \in MeshAgents, NEW new \in NewRecords, RegisterAgent(a, new)
  PROVE  TableChanges
<1>1. /\ order' = Append(order, a) /\ a \notin Range(order) /\ call' = Followed(call)
      /\ router' = router /\ counter' = counter
      /\ LoadOk(new.load) /\ CostOk(new.cost)
  BY DEF RegisterAgent
<1>2. PICK r : /\ r = [capabilities |-> new.capabilities, cost |-> new.cost,
                       load |-> new.load, healthy |-> TRUE]
               /\ records' = [records EXCEPT ![a] = r]
  BY DEF RegisterAgent
<1>3. /\ new.capabilities \in SUBSET Capabilities /\ new.cost \in Int /\ new.load \in Int
  BY RoutingAssumption DEF FieldType
<1>4. r \in AgentRecords /\ r.cost = new.cost /\ r.load = new.load
  BY <1>2, <1>3 DEF AgentRecords
<1>5. PICK n \in Nat : n = Len(order) /\ DOMAIN order = 1..n /\ order \in [1..n -> MeshAgents]
  BY DEF RoutingTyped
<1>6. /\ order' \in Seq(MeshAgents) /\ Len(order') = n + 1 /\ DOMAIN order' = 1..(n + 1)
      /\ order'[n + 1] = a /\ \A i \in 1..n : order'[i] = order[i]
  <2>1. order \in Seq(MeshAgents)
    BY DEF RoutingTyped
  <2>2. QED BY <1>1, <1>5, <2>1
<1>7. \A i \in 1..n : order[i] # a
  BY <1>1, <1>5 DEF Range
<1>8. IsInjective(order')
  <2>1. \A i, j \in 1..n : order[i] = order[j] => i = j
    BY <1>5 DEF RoutingTyped, IsInjective
  <2>2. \A i, j \in 1..(n + 1) : order'[i] = order'[j] => i = j
    BY <1>6, <1>7, <2>1
  <2>3. QED BY <1>6, <2>2 DEF IsInjective
<1>9. Range(order') = Range(order) \union {a}
  <2>1. \A b : b \in Range(order') <=> \E i \in 1..(n + 1) : order'[i] = b
    BY <1>6 DEF Range
  <2>2. \A b : b \in Range(order) <=> \E i \in 1..n : order[i] = b
    BY <1>5 DEF Range
  <2>3. QED BY <1>6, <2>1, <2>2
<1>10. ASSUME NEW b, NEW c, Earlier(b, c) PROVE Earlier(b, c)'
  <2>1. PICK x \in 1..n, y \in 1..n : x < y /\ order[x] = b /\ order[y] = c
    BY <1>5, <1>10 DEF Earlier
  <2>2. x \in 1..(n + 1) /\ y \in 1..(n + 1)
    OBVIOUS
  <2>3. QED BY <1>6, <2>1, <2>2 DEF Earlier
<1>11. /\ records' \in [MeshAgents -> AgentRecords] /\ records'[a] = r
       /\ \A b \in MeshAgents \ {a} : records'[b] = records[b]
  BY <1>2, <1>4 DEF RoutingTyped
<1>12. /\ \A b \in Range(order') : CostOk(records'[b].cost) /\ LoadOk(records'[b].load)
       /\ \A b \in MeshAgents \ Range(order') : records'[b] = Blank
  <2>1. Range(order) \subseteq MeshAgents
    BY <1>5 DEF Range
  <2>2. QED BY <1>1, <1>4, <1>9, <1>11, <2>1 DEF RoutingTyped
<1>13. CallFollows
  <2>1. call \in Calls /\ call.listed \in Seq(References) /\ call.kept \in Seq(References)
    BY DEF RoutingTyped, Calls
  <2>2. QED BY <1>1, <1>6, <2>1, FollowedIs, SameLineOf DEF CallFollows
<1>14. QED BY <1>1, <1>6, <1>8, <1>10, <1>11, <1>12, <1>13 DEF TableChanges

\* deregister_agent().
LEMMA DeregisterChanges ==
  ASSUME RoutingTyped, NEW a \in MeshAgents, DeregisterAgent(a)
  PROVE  TableChanges
<1>1. PICK k \in DOMAIN order : order[k] = a /\ order' = RemoveAt(order, k)
  BY DEF DeregisterAgent
<1>2. /\ records' = [records EXCEPT ![a] = Blank] /\ router' = router /\ counter' = counter
      /\ call' = Followed([call EXCEPT !.listed = Keep(@, a), !.kept = Keep(@, a)])
  BY DEF DeregisterAgent
<1>3. PICK n \in Nat : /\ n = Len(order) /\ DOMAIN order = 1..n
                       /\ order \in [1..n -> MeshAgents] /\ order \in Seq(MeshAgents)
  BY DEF RoutingTyped
<1>4. \A i, j \in 1..n : order[i] = order[j] => i = j
  BY <1>3 DEF RoutingTyped, IsInjective
<1>5. /\ order' \in Seq(MeshAgents) /\ DOMAIN order' = 1..(n - 1)
      /\ \A i \in 1..(n - 1) : order'[i] = IF i < k THEN order[i] ELSE order[i + 1]
  <2>1. PICK s \in Seq(MeshAgents), t \in Seq(MeshAgents) :
          s = SubSeq(order, 1, k - 1) /\ t = SubSeq(order, k + 1, n)
    <3>1. SubSeq(order, 1, k - 1) \in Seq(MeshAgents) /\ SubSeq(order, k + 1, n) \in Seq(MeshAgents)
      BY <1>3
    <3>2. QED BY <3>1, Zenon
  <2>2. /\ Len(s) = k - 1 /\ \A i \in 1..(k - 1) : s[i] = order[i]
        /\ Len(t) = n - k /\ \A i \in 1..(n - k) : t[i] = order[i + k]
    <3>1. k \in 1..n
      BY <1>3
    <3>2. Len(s) = k - 1 /\ \A i \in 1..(k - 1) : s[i] = order[i]
      BY <1>3, <2>1, <3>1
    <3>3. Len(t) = n - k
      <4>1. CASE k < n
        <5>1. order \in Seq(MeshAgents) /\ k \in Nat /\ k < n /\ Len(order) = n
          BY <1>3, <3>1, <4>1
        <5>2. Len(SubSeq(order, k + 1, n)) = n - k
          BY <5>1
        <5>3. QED BY <2>1, <5>2
      <4>2. CASE k = n
        <5>1. t = << >>
          BY <1>3, <2>1, <3>1, <4>2
        <5>2. QED BY <4>2, <5>1
      <4>3. QED BY <3>1, <4>1, <4>2
    <3>4. \A i \in 1..(n - k) : t[i] = order[i + k]
      BY <1>3, <2>1, <3>1
    <3>5. QED BY <3>2, <3>3, <3>4
  <2>3. order' = s \o t
    BY <1>1, <1>3, <2>1 DEF RemoveAt
  <2>4. order' \in Seq(MeshAgents) /\ Len(order') = n - 1
    <3>1. order' \in Seq(MeshAgents) /\ Len(order') = Len(s) + Len(t)
      BY <2>3
    <3>2. QED BY <1>3, <2>2, <3>1
  <2>5. ASSUME NEW i \in 1..(n - 1)
        PROVE  order'[i] = IF i < k THEN order[i] ELSE order[i + 1]
    <3>1. CASE i < k
      <4>1. i \in 1..(k - 1) /\ order'[i] = s[i]
        BY <1>3, <2>2, <2>3, <3>1
      <4>2. QED BY <2>2, <3>1, <4>1
    <3>2. CASE ~(i < k)
      <4>1. i > Len(s) /\ i <= Len(s) + Len(t) /\ i \in Nat
        BY <1>3, <2>2, <3>2
      <4>2. order'[i] = t[i - Len(s)]
        BY <2>3, <4>1
      <4>3. i - Len(s) \in 1..(n - k) /\ i - Len(s) + k = i + 1
        BY <1>3, <2>2, <3>2
      <4>4. QED BY <2>2, <3>2, <4>2, <4>3
    <3>3. QED BY <3>1, <3>2
  <2>6. QED BY <2>4, <2>5
<1>6. \A i \in 1..n : i # k =>
        \E j \in 1..(n - 1) : order'[j] = order[i] /\ j = IF i < k THEN i ELSE i - 1
  <2>1. SUFFICES ASSUME NEW i \in 1..n, i # k, NEW j, j = IF i < k THEN i ELSE i - 1
                 PROVE  j \in 1..(n - 1) /\ order'[j] = order[i]
    OBVIOUS
  <2>2. CASE i < k
    <3>1. j = i /\ j \in 1..(n - 1)
      BY <1>3, <2>1, <2>2
    <3>2. QED BY <1>5, <2>2, <3>1
  <2>3. CASE ~(i < k)
    <3>1. j = i - 1 /\ j \in 1..(n - 1) /\ ~(j < k) /\ j + 1 = i
      BY <1>3, <2>1, <2>3
    <3>2. QED BY <1>5, <3>1
  <2>4. QED BY <2>2, <2>3
<1>7. \A j \in 1..(n - 1) : \E i \in 1..n :
        i # k /\ order'[j] = order[i] /\ i = IF j < k THEN j ELSE j + 1
  <2>1. SUFFICES ASSUME NEW j \in 1..(n - 1), NEW i, i = IF j < k THEN j ELSE j + 1
                 PROVE  i \in 1..n /\ i # k /\ order'[j] = order[i]
    OBVIOUS
  <2>2. CASE j < k
    BY <1>3, <1>5, <2>1, <2>2
  <2>3. CASE ~(j < k)
    BY <1>3, <1>5, <2>1, <2>3
  <2>4. QED BY <2>2, <2>3
<1>8. IsInjective(order')
  <2>1. ASSUME NEW x \in 1..(n - 1), NEW y \in 1..(n - 1), order'[x] = order'[y] PROVE x = y
    <3>1. PICK i \in 1..n : order'[x] = order[i] /\ i = IF x < k THEN x ELSE x + 1
      BY <1>7
    <3>2. PICK j \in 1..n : order'[y] = order[j] /\ j = IF y < k THEN y ELSE y + 1
      BY <1>7
    <3>3. i = j
      BY <1>4, <2>1, <3>1, <3>2
    <3>4. k \in Int /\ x \in Int /\ y \in Int
      BY <1>3
    <3>5. QED BY <3>1, <3>2, <3>3, <3>4
  <2>2. QED BY <1>5, <2>1 DEF IsInjective
<1>9. Range(order') = Range(order) \ {a}
  <2>1. \A b : b \in Range(order') <=> \E i \in 1..(n - 1) : order'[i] = b
    BY <1>5 DEF Range
  <2>2. \A b : b \in Range(order) <=> \E i \in 1..n : order[i] = b
    BY <1>3 DEF Range
  <2>3. \A i \in 1..n : i # k => order[i] # a
    BY <1>1, <1>3, <1>4
  <2>4. ASSUME NEW b \in Range(order') PROVE b \in Range(order) \ {a}
    BY <1>7, <2>1, <2>2, <2>3
  <2>5. ASSUME NEW b \in Range(order) \ {a} PROVE b \in Range(order')
    <3>1. PICK i \in 1..n : order[i] = b /\ i # k
      BY <1>1, <2>2
    <3>2. QED BY <1>6, <2>1, <3>1
  <2>6. QED BY <2>4, <2>5
<1>10. ASSUME NEW b \in Range(order'), NEW c \in Range(order'), Earlier(b, c)
       PROVE  Earlier(b, c)'
  <2>1. PICK x \in 1..n, y \in 1..n : x < y /\ order[x] = b /\ order[y] = c
    BY <1>3, <1>10 DEF Earlier
  <2>2. x # k /\ y # k
    BY <1>1, <1>9, <1>10, <2>1
  <2>3. PICK i \in 1..(n - 1) : order'[i] = order[x] /\ i = IF x < k THEN x ELSE x - 1
    BY <1>6, <2>2
  <2>4. PICK j \in 1..(n - 1) : order'[j] = order[y] /\ j = IF y < k THEN y ELSE y - 1
    BY <1>6, <2>2
  <2>5. k \in Int
    BY <1>3
  <2>6. i < j
    BY <2>1, <2>2, <2>3, <2>4, <2>5
  <2>7. QED BY <1>5, <2>1, <2>3, <2>4, <2>6 DEF Earlier
<1>11. /\ records' \in [MeshAgents -> AgentRecords] /\ records'[a] = Blank
       /\ \A b \in MeshAgents \ {a} : records'[b] = records[b]
  BY <1>2, BlankType DEF RoutingTyped
<1>12. /\ \A b \in Range(order') : CostOk(records'[b].cost) /\ LoadOk(records'[b].load)
       /\ \A b \in MeshAgents \ Range(order') : records'[b] = Blank
  <2>1. Range(order) \subseteq MeshAgents
    BY <1>3 DEF Range
  <2>2. QED BY <1>9, <1>11, <2>1 DEF RoutingTyped
<1>13. ASSUME NEW s \in Seq(References), NEW steady, a \notin steady
       PROVE  SameLine(Keep(s, a), s, steady)
  <2>1. PICK m \in Nat : m = Len(s) /\ DOMAIN s = 1..m /\ s \in [1..m -> References]
    OBVIOUS
  <2>2. PICK gone \in References : gone = [agent |-> a, live |-> FALSE, was |-> records[a]]
    <3>1. [agent |-> a, live |-> FALSE, was |-> records[a]] \in References
      BY DEF RoutingTyped, References
    <3>2. QED BY <3>1
  <2>3. Keep(s, a) = [i \in 1..m |-> IF s[i].agent = a /\ s[i].live THEN gone ELSE s[i]]
    BY <2>1, <2>2 DEF Keep
  <2>4. \A i \in 1..m : /\ Keep(s, a)[i] \in References
                        /\ Keep(s, a)[i].agent = s[i].agent
                        /\ s[i].agent # a => Keep(s, a)[i] = s[i]
    BY <2>1, <2>2, <2>3
  <2>5. Keep(s, a) \in [1..m -> References]
    BY <2>3, <2>4
  <2>6. Keep(s, a) \in Seq(References) /\ Len(Keep(s, a)) = m
    BY <2>5
  <2>7. QED BY <1>13, <2>1, <2>4, <2>6 DEF SameLine
<1>14. CallFollows
  <2>1. call \in Calls /\ call.listed \in Seq(References) /\ call.kept \in Seq(References)
    BY DEF RoutingTyped, Calls
  <2>2. PICK c : c = [call EXCEPT !.listed = Keep(@, a), !.kept = Keep(@, a)]
    OBVIOUS
  <2>3. /\ Keep(call.listed, a) \in Seq(References) /\ Keep(call.kept, a) \in Seq(References)
    <3>1. SameLine(Keep(call.listed, a), call.listed, {}) /\ SameLine(Keep(call.kept, a), call.kept, {})
      BY <1>13, <2>1
    <3>2. QED BY <3>1 DEF SameLine
  <2>4. /\ c \in Calls /\ c.listed = Keep(call.listed, a) /\ c.kept = Keep(call.kept, a)
        /\ c.stage = call.stage /\ c.message = call.message /\ c.part = call.part
        /\ c.base = call.base /\ c.keyed = call.keyed /\ c.scores = call.scores
        /\ c.ranked = call.ranked /\ c.missing = call.missing /\ c.steady = call.steady
        /\ c.reachable = call.reachable
    BY <2>1, <2>2, <2>3 DEF Calls
  <2>5. call' = Followed(c)
    BY <1>2, <2>2
  <2>6. /\ call' \in Calls /\ call'.listed = c.listed /\ call'.kept = c.kept
        /\ call'.stage = c.stage /\ call'.message = c.message /\ call'.part = c.part
        /\ call'.base = c.base /\ call'.keyed = c.keyed /\ call'.scores = c.scores
        /\ call'.ranked = c.ranked /\ call'.missing = c.missing
        /\ c.stage # "idle" =>
             /\ call'.steady = {b \in c.steady : b \in Range(order') /\ records'[b] = records[b]}
             /\ call'.reachable = c.reachable \union HealthyOnes(Range(order'), records')
    BY <1>5, <2>4, <2>5, FollowedIs
  <2>7. ASSUME call.stage # "idle"
        PROVE  /\ SameLine(call'.listed, call.listed, call'.steady)
               /\ SameLine(call'.kept, call.kept, call'.steady)
    <3>1. a \notin call'.steady
      BY <1>9, <2>4, <2>6, <2>7
    <3>2. QED BY <1>13, <2>1, <2>4, <2>6, <3>1
  <2>8. QED BY <2>4, <2>6, <2>7 DEF CallFollows
<1>15. QED BY <1>2, <1>5, <1>8, <1>10, <1>11, <1>12, <1>14 DEF TableChanges

\* update_agent() with the fields of an update or of a record: what it validates is valid,
\* what it refuses is not assigned.
LEMMA UpdateChanges ==
  ASSUME RoutingTyped, NEW a \in MeshAgents, NEW u \in NewRecords \union Updates,
         UpdateAgent(a, u)
  PROVE  TableChanges
<1>1. /\ a \in Range(order) /\ order' = order /\ call' = Followed(call)
      /\ router' = router /\ counter' = counter
  BY DEF UpdateAgent
<1>2. PICK old \in AgentRecords : old = records[a]
  BY DEF RoutingTyped
<1>3. PICK r : /\ r = [f \in DOMAIN old |-> IF f \in Applied(u) THEN u[f] ELSE old[f]]
               /\ records' = [records EXCEPT ![a] = r]
  BY <1>2 DEF UpdateAgent, RoutingTyped
<1>4. /\ DOMAIN u \subseteq {"capabilities", "cost", "load", "healthy"}
      /\ "capabilities" \in DOMAIN u => u["capabilities"] \in SUBSET Capabilities
      /\ "cost" \in DOMAIN u => u["cost"] \in Int
      /\ "load" \in DOMAIN u => u["load"] \in Int
      /\ "healthy" \in DOMAIN u => u["healthy"] \in BOOLEAN
  BY RoutingAssumption DEF FieldType
<1>5. /\ Applied(u) \subseteq DOMAIN u
      /\ "cost" \in Applied(u) => CostOk(u["cost"])
      /\ "load" \in Applied(u) => LoadOk(u["load"])
  BY DEF Applied
<1>6. /\ DOMAIN old = {"capabilities", "cost", "load", "healthy"}
      /\ old["capabilities"] \in SUBSET Capabilities /\ old["cost"] \in Int
      /\ old["load"] \in Int /\ old["healthy"] \in BOOLEAN
      /\ CostOk(old["cost"]) /\ LoadOk(old["load"])
  BY <1>1, <1>2 DEF AgentRecords, RoutingTyped
<1>7. /\ r.capabilities \in SUBSET Capabilities /\ r.cost \in Int /\ r.load \in Int
      /\ r.healthy \in BOOLEAN /\ CostOk(r.cost) /\ LoadOk(r.load)
  BY <1>3, <1>4, <1>5, <1>6
<1>8. r \in AgentRecords
  BY <1>3, <1>6, <1>7 DEF AgentRecords
<1>9. /\ records' \in [MeshAgents -> AgentRecords] /\ records'[a] = r
      /\ \A b \in MeshAgents \ {a} : records'[b] = records[b]
  BY <1>3, <1>8 DEF RoutingTyped
<1>10. /\ \A b \in Range(order') : CostOk(records'[b].cost) /\ LoadOk(records'[b].load)
       /\ \A b \in MeshAgents \ Range(order') : records'[b] = Blank
  <2>1. Range(order) \subseteq MeshAgents
    BY DEF RoutingTyped, Range
  <2>2. QED BY <1>1, <1>7, <1>9, <2>1 DEF RoutingTyped
<1>11. CallFollows
  <2>1. /\ call \in Calls /\ call.listed \in Seq(References) /\ call.kept \in Seq(References)
        /\ order' \in Seq(MeshAgents)
    BY <1>1 DEF RoutingTyped, Calls
  <2>2. QED BY <1>1, <2>1, FollowedIs, SameLineOf DEF CallFollows
<1>12. order' \in Seq(MeshAgents) /\ IsInjective(order')
  BY <1>1 DEF RoutingTyped
<1>13. \A b, c : Earlier(b, c) => Earlier(b, c)'
  BY <1>1 DEF Earlier
<1>14. QED BY <1>1, <1>9, <1>10, <1>11, <1>12, <1>13 DEF TableChanges

-----------------------------------------------------------------------------
\* What the part in progress is.
Part_ == router.parts[call.part]

\* Different agents and, if nobody touched them, in the order of the table.
Apart(a, b) == a # b /\ (a \in call.steady /\ b \in call.steady => Earlier(a, b))

\* So are all of a list of references or readings ...
InLine(s) == \A i, j \in 1..Len(s) : i < j => Apart(s[i].agent, s[j].agent)

\* ... and all of one list and all of another.
Ahead(s, t) == \A i \in 1..Len(s), j \in 1..Len(t) : Apart(s[i].agent, t[j].agent)

\* The agent is in the list.
Has(s, a) == \E i \in 1..Len(s) : s[i].agent = a

\* The references are of agents that were healthy during the call, and to live records
\* if nobody touched them.
GoodReferences(s) ==
  \A i \in 1..Len(s) :
    s[i].agent \in call.reachable /\ (s[i].agent \in call.steady => s[i].live)

\* The agents of a list that nobody touched pass the filter of the part.
AllPass(s) ==
  \A i \in 1..Len(s) :
    s[i].agent \in call.steady => Passes(Part_, call.message, records[s[i].agent])

\* The keys of agents that nobody touched are those of the table.
GoodKeys(s) ==
  \A i \in 1..Len(s) :
    /\ s[i].agent \in call.reachable
    /\ s[i].agent \in call.steady => s[i].key = Key(Part_, s[i].agent, records[s[i].agent])

\* The history of a call agrees with the table.
HistoryKept ==
  call.stage # "idle" =>
    /\ call.steady \subseteq Range(order)
    /\ HealthyOnes(Range(order), records) \subseteq call.reachable
    /\ \A a \in call.steady \intersect call.reachable : records[a].healthy

\* A part in progress: the records to filter, those to read and the readings.
LineKept ==
  call.stage = "rank" =>
    /\ InLine(call.listed) /\ InLine(call.kept) /\ InLine(call.keyed)
    /\ Ahead(call.kept, call.listed) /\ Ahead(call.keyed, call.listed)
    /\ Ahead(call.keyed, call.kept)
    /\ GoodReferences(call.listed) /\ GoodReferences(call.kept) /\ GoodKeys(call.keyed)
    /\ AllPass(call.kept) /\ AllPass(call.keyed)
    /\ \A a \in MeshAgents : Accepts(Part_, a) =>
         Has(call.listed, a) \/ Has(call.kept, a) \/ Has(call.keyed, a)

\* Every step of the parts done puts a before b.
Beats(k, a, b) ==
  /\ router.weights[k] > 0
  /\ router.parts[k].name # "round_robin"
  /\ Accepts(router.parts[k], a)
  /\ Accepts(router.parts[k], b) =>
       Key(router.parts[k], a, records[a]) < Key(router.parts[k], b, records[b])

\* The candidates of a composite strategy and their scores so far.
ScoresKept ==
  call.stage \in {"list", "rank"} /\ router.composite =>
    /\ IsInjective(call.base)
    /\ \A i \in 1..Len(call.base) : call.base[i] \in call.reachable
    /\ \A a \in call.steady : records[a].healthy => \E i \in 1..Len(call.base) : call.base[i] = a
    /\ \A k \in 1..(call.part - 1) : router.weights[k] > 0 =>
         \A a \in MeshAgents : Accepts(router.parts[k], a) => call.scores[a] > 0
    /\ \A a, b \in call.steady :
         (\A k \in 1..(call.part - 1) : Beats(k, a, b)) =>
           /\ call.scores[a] >= call.scores[b]
           /\ call.part > 1 => call.scores[a] > call.scores[b]

\* How far the call is, and what became of the receiver.
StageKept ==
  /\ call.stage \in {"receiver", "base"} => /\ call.part = 1
                                            /\ \A a \in MeshAgents : call.scores[a] = 0
  /\ call.stage \in {"list", "rank"} => call.part \in 1..Len(router.parts)
  /\ call.stage \in {"receiver", "base", "list", "rank"} => ~call.missing /\ call.ranked = <<>>
  /\ call.stage \in {"base", "list", "rank"} =>
       \A a \in call.message.receiver \intersect call.steady : ~records[a].healthy

\* The answer names the receiver, or reports that it left.
Asked == call.missing \/ Range(call.ranked) = call.message.receiver

\* The first of a composite answer is not beaten in every part, if nobody touched it.
Unbeaten ==
  router.composite /\ ~Asked /\ call.ranked # <<>> /\ Head(call.ranked) \in call.steady =>
    \A a \in call.steady : ~\A k \in 1..Len(router.parts) : Beats(k, a, Head(call.ranked))

\* Acceptable agents that nobody touched are in the answer.
AllNamed ==
  Asked \/ \A k \in 1..Len(router.parts) : router.weights[k] > 0 =>
    \A a \in MeshAgents : Accepts(router.parts[k], a) => a \in Range(call.ranked)

\* Such agents are in the order of their keys and of the table.
InKeyOrder ==
  ~router.composite /\ router.parts[1].name # "round_robin" =>
    \A i, j \in 1..Len(call.ranked) :
      i < j /\ call.ranked[i] \in call.steady /\ call.ranked[j] \in call.steady =>
        LET k1 == Key(router.parts[1], call.ranked[i], records[call.ranked[i]])
            k2 == Key(router.parts[1], call.ranked[j], records[call.ranked[j]])
        IN  k1 < k2 \/ (k1 = k2 /\ Earlier(call.ranked[i], call.ranked[j]))

\* The answer, as far as agents that nobody touched are concerned.
AnswerKept ==
  call.stage = "done" =>
    /\ Range(call.ranked) \subseteq call.reachable
    /\ IsInjective(call.ranked)
    /\ call.missing => call.message.receiver \intersect call.steady = {}
    /\ \A a \in call.message.receiver \intersect call.steady :
         records[a].healthy => Range(call.ranked) = call.message.receiver
    /\ AllNamed /\ InKeyOrder /\ Unbeaten

\* The inductive invariant.
RoutingKept ==
  /\ RoutingTyped /\ HistoryKept /\ LineKept /\ ScoresKept /\ StageKept /\ AnswerKept

\* What the strategies are.
LEMMA RouterIs ==
  ASSUME router \in Routers
  PROVE  /\ Len(router.parts) \in Nat \ {0} /\ DOMAIN router.parts = 1..Len(router.parts)
         /\ \A k \in 1..Len(router.parts) :
              /\ router.parts[k].name \in {"capability", "cost", "least_loaded", "round_robin"}
              /\ router.weights[k] \in Nat
         /\ ~router.composite => Len(router.parts) = 1
  BY RoutingAssumption

\* Keys are numbers.
LEMMA KeyType ==
  ASSUME NEW part, part.name \in {"capability", "cost", "least_loaded", "round_robin"},
         NEW agent \in MeshAgents, NEW record \in AgentRecords
  PROVE  Key(part, agent, record) \in Int
<1>1. record.cost \in Int /\ record.load \in Int /\ agent \in Int
  BY RoutingAssumption DEF AgentRecords
<1>2. CASE part.name = "capability"
  BY <1>1, <1>2 DEF Key
<1>3. CASE part.name = "cost"
  BY <1>1, <1>3 DEF Key
<1>4. CASE part.name = "least_loaded"
  BY <1>1, <1>4 DEF Key
<1>5. CASE part.name = "round_robin"
  BY <1>1, <1>5 DEF Key
<1>6. QED BY <1>2, <1>3, <1>4, <1>5

\* The invariant says what is claimed.
LEMMA RoutingFollows == RoutingKept => RouteJust
<1> SUFFICES ASSUME RoutingKept, call.stage = "done" PROVE RouteJust
  BY DEF RouteJust
<1>1. /\ call \in Calls /\ router \in Routers /\ order \in Seq(MeshAgents)
      /\ records \in [MeshAgents -> AgentRecords]
  BY DEF RoutingKept, RoutingTyped
<1>2. PICK ranked \in Seq(MeshAgents) : ranked = call.ranked
  BY <1>1 DEF Calls
<1>3. DOMAIN ranked = 1..Len(ranked) /\ call.steady \subseteq MeshAgents
  BY <1>1 DEF Calls
<1>4. PICK m \in Nat \ {0} : m = Len(router.parts) /\ DOMAIN router.parts = 1..m
  BY <1>1, RouterIs
<1>5. /\ Range(ranked) \subseteq call.reachable
      /\ IsInjective(ranked)
      /\ call.missing => call.message.receiver \intersect call.steady = {}
      /\ \A a \in call.message.receiver \intersect call.steady :
           records[a].healthy => Range(ranked) = call.message.receiver
      /\ Asked \/ \A k \in 1..m : router.weights[k] > 0 =>
           \A a \in MeshAgents : Accepts(router.parts[k], a) => a \in Range(ranked)
      /\ ~router.composite /\ router.parts[1].name # "round_robin" =>
           \A i, j \in 1..Len(ranked) :
             i < j /\ ranked[i] \in call.steady /\ ranked[j] \in call.steady =>
               LET k1 == Key(router.parts[1], ranked[i], records[ranked[i]])
                   k2 == Key(router.parts[1], ranked[j], records[ranked[j]])
               IN  k1 < k2 \/ (k1 = k2 /\ Earlier(ranked[i], ranked[j]))
      /\ Unbeaten
  BY <1>2, <1>4 DEF RoutingKept, AnswerKept, AllNamed, InKeyOrder
<1>6. Asked <=> call.missing \/ Range(ranked) = call.message.receiver
  BY <1>2 DEF Asked
<1>7. ASSUME call.message.receiver \intersect HealthyOnes(call.steady, records) # {}
      PROVE  Range(ranked) = call.message.receiver
  BY <1>5, <1>7 DEF HealthyOnes
<1>8. ASSUME NEW i \in DOMAIN ranked, NEW j \in DOMAIN ranked, i < j,
             {ranked[i], ranked[j]} \subseteq call.steady,
             ~router.composite, router.parts[1].name # "round_robin",
             NEW k1, k1 = Key(router.parts[1], ranked[i], records[ranked[i]]),
             NEW k2, k2 = Key(router.parts[1], ranked[j], records[ranked[j]])
      PROVE  \/ k1 < k2
             \/ k1 = k2 /\ \E x, y \in DOMAIN order :
                             x < y /\ order[x] = ranked[i] /\ order[y] = ranked[j]
  <2>1. k1 < k2 \/ (k1 = k2 /\ Earlier(ranked[i], ranked[j]))
    BY <1>3, <1>5, <1>8
  <2>2. QED BY <2>1 DEF Earlier
<1>9. ASSUME router.composite, Undisturbed, ~Asked, ranked # <<>>,
             NEW first, first = Head(ranked), NEW a \in HealthyOnes(call.steady, records)
      PROVE  \E k \in 1..m :
               \/ router.weights[k] = 0
               \/ router.parts[k].name = "round_robin"
               \/ ~Accepts(router.parts[k], a)
               \/ /\ Accepts(router.parts[k], first)
                  /\ Key(router.parts[k], a, records[a])
                       >= Key(router.parts[k], first, records[first])
  <2>1. first \in Range(ranked) /\ first \in MeshAgents
    BY <1>9 DEF Range
  <2>2. first \in call.steady /\ a \in call.steady /\ a \in MeshAgents
    BY <1>3, <1>5, <1>9, <2>1 DEF Undisturbed, HealthyOnes
  <2>3. PICK k \in 1..m : ~Beats(k, a, first)
    BY <1>2, <1>4, <1>5, <1>9, <2>2 DEF Unbeaten
  <2>4. router.weights[k] \in Nat
    BY <1>1, <1>4, RouterIs
  <2>5. /\ Key(router.parts[k], a, records[a]) \in Int
        /\ Key(router.parts[k], first, records[first]) \in Int
    <3>1. router.parts[k].name \in {"capability", "cost", "least_loaded", "round_robin"}
      BY <1>1, <1>4, RouterIs
    <3>2. records[a] \in AgentRecords /\ records[first] \in AgentRecords
      BY <1>1, <2>1, <2>2
    <3>3. QED BY <2>1, <2>2, <3>1, <3>2, KeyType
  <2>6. QED BY <2>3, <2>4, <2>5 DEF Beats
<1>10. QED
  BY <1>2, <1>3, <1>4, <1>5, <1>6, <1>7, <1>8, <1>9 DEF RouteJust

-----------------------------------------------------------------------------
\* Agents that are still untouched are where and what they were.
LEMMA SteadyStay ==
  ASSUME RoutingKept, TableChanges, call.stage # "idle"
  PROVE  /\ \A a \in call'.steady : /\ a \in call.steady /\ a \in Range(order')
                                    /\ records'[a] = records[a] /\ a \in MeshAgents
         /\ \A a, b : Apart(a, b) => Apart(a, b)'
         /\ \A part, a : Accepts(part, a)' => Accepts(part, a)
         /\ \A part : \A a \in call'.steady : Accepts(part, a) => Accepts(part, a)'
         /\ \A k : \A a, b \in call'.steady : Beats(k, a, b)' => Beats(k, a, b)
         /\ Part_' = Part_ /\ (Asked' <=> Asked)
<1>1. /\ call'.steady = {a \in call.steady : a \in Range(order') /\ records'[a] = records[a]}
      /\ call'.part = call.part /\ call'.message = call.message /\ router' = router
      /\ call'.missing = call.missing /\ call'.ranked = call.ranked
      /\ call.steady \subseteq MeshAgents
      /\ \A a, b \in Range(order') : Earlier(a, b) => Earlier(a, b)'
  BY DEF TableChanges, CallFollows, RoutingKept, RoutingTyped, Calls
<1>2. \A a \in call'.steady : /\ a \in call.steady /\ a \in Range(order')
                             /\ records'[a] = records[a] /\ a \in MeshAgents
  BY <1>1
<1>3. ASSUME NEW a, NEW b, Apart(a, b) PROVE Apart(a, b)'
  BY <1>1, <1>2, <1>3 DEF Apart
<1>4. ASSUME NEW part, NEW a, Accepts(part, a)' PROVE Accepts(part, a)
  <2>1. /\ a \in call'.steady /\ records'[a].healthy
        /\ Passes(part, call'.message, records'[a])
    BY <1>4 DEF Accepts, Passes
  <2>2. QED BY <1>1, <1>2, <2>1 DEF Accepts
<1>5. ASSUME NEW part, NEW a \in call'.steady, Accepts(part, a) PROVE Accepts(part, a)'
  <2>1. /\ a \in call'.steady /\ records'[a].healthy
        /\ Passes(part, call'.message, records'[a])
    BY <1>1, <1>2, <1>5 DEF Accepts
  <2>2. QED BY <2>1 DEF Accepts, Passes
<1>6. ASSUME NEW k, NEW a \in call'.steady, NEW b \in call'.steady, Beats(k, a, b)'
      PROVE  Beats(k, a, b)
  <2>1. PICK part : part = router.parts[k]
    OBVIOUS
  <2>2. /\ router.weights[k] > 0 /\ part.name # "round_robin" /\ Accepts(part, a)'
        /\ Accepts(part, b)' => Key(part, a, records'[a]) < Key(part, b, records'[b])
    BY <1>1, <1>6, <2>1 DEF Beats, Key
  <2>3. records'[a] = records[a] /\ records'[b] = records[b]
    BY <1>2
  <2>4. QED BY <1>4, <1>5, <2>1, <2>2, <2>3 DEF Beats
<1>7. Part_' = Part_ /\ (Asked' <=> Asked)
  BY <1>1 DEF Part_, Asked
<1>8. QED BY <1>2, <1>3, <1>4, <1>5, <1>6, <1>7

\* Two lists are about the same agents.
SameAgents(s, t) == Len(t) = Len(s) /\ \A i \in 1..Len(s) : t[i].agent = s[i].agent

\* Lists of the same agents are in line ...
LEMMA LineStays ==
  ASSUME NEW s, NEW t, SameAgents(s, t),
         InLine(s), \A a, b : Apart(a, b) => Apart(a, b)'
  PROVE  InLine(t)'
<1>1. SUFFICES ASSUME NEW i \in 1..Len(s), NEW j \in 1..Len(s), i < j
               PROVE  Apart(t[i].agent, t[j].agent)'
  BY DEF InLine, SameAgents
<1>2. PICK a, b : a = t[i].agent /\ b = t[j].agent /\ Apart(a, b)
  BY <1>1 DEF InLine, SameAgents
<1>3. Apart(a, b)'
  BY <1>2
<1>4. QED BY <1>2, <1>3 DEF Apart

\* ... and one ahead of the other as before.
LEMMA AheadStays ==
  ASSUME NEW s, NEW t, SameAgents(s, t), NEW u, NEW v, SameAgents(u, v),
         Ahead(s, u), \A a, b : Apart(a, b) => Apart(a, b)'
  PROVE  Ahead(t, v)'
<1>1. SUFFICES ASSUME NEW i \in 1..Len(s), NEW j \in 1..Len(u)
               PROVE  Apart(t[i].agent, v[j].agent)'
  BY DEF Ahead, SameAgents
<1>2. PICK a, b : a = t[i].agent /\ b = v[j].agent /\ Apart(a, b)
  BY <1>1 DEF Ahead, SameAgents
<1>3. Apart(a, b)'
  BY <1>2
<1>4. QED BY <1>2, <1>3 DEF Apart

\* A change of the table under a call ...
LEMMA TableKeepsLine == ASSUME RoutingKept, TableChanges PROVE LineKept'
<1> SUFFICES ASSUME call'.stage = "rank" PROVE LineKept'
  BY DEF LineKept
<1>1. /\ call.stage = "rank" /\ call.stage # "idle"
      /\ call'.keyed = call.keyed /\ call'.message = call.message
      /\ SameLine(call'.listed, call.listed, call'.steady)
      /\ SameLine(call'.kept, call.kept, call'.steady)
      /\ call.reachable \subseteq call'.reachable
  BY DEF TableChanges, CallFollows
<1>2. PICK l \in Seq(References), p \in Seq(References), d \in Seq(Readings) :
        l = call.listed /\ p = call.kept /\ d = call.keyed
  BY DEF RoutingKept, RoutingTyped, Calls
<1>3. PICK l2, p2 : l2 = call'.listed /\ p2 = call'.kept
  OBVIOUS
<1>4. /\ InLine(l) /\ InLine(p) /\ InLine(d) /\ Ahead(p, l) /\ Ahead(d, l) /\ Ahead(d, p)
      /\ GoodReferences(l) /\ GoodReferences(p) /\ GoodKeys(d) /\ AllPass(p) /\ AllPass(d)
      /\ \A a \in MeshAgents : Accepts(Part_, a) => Has(l, a) \/ Has(p, a) \/ Has(d, a)
  BY <1>1, <1>2 DEF RoutingKept, LineKept
<1>5. /\ \A a \in call'.steady : a \in call.steady /\ records'[a] = records[a]
      /\ \A a, b : Apart(a, b) => Apart(a, b)'
      /\ \A a : Accepts(Part_, a)' => Accepts(Part_, a)
      /\ Part_' = Part_
  <2>1. PICK part : part = Part_ /\ part = Part_'
    BY <1>1, SteadyStay
  <2>2. \A a : Accepts(part, a)' => Accepts(part, a)
    BY <1>1, SteadyStay
  <2>3. \A a : Accepts(Part_, a)' <=> Accepts(part, a)'
    BY <2>1 DEF Accepts, Passes
  <2>4. QED BY <1>1, <2>1, <2>2, <2>3, SteadyStay
<1>6. /\ SameAgents(l, l2) /\ SameAgents(p, p2) /\ SameAgents(d, d)
      /\ \A i \in 1..Len(l) : l[i].agent \in call'.steady => l2[i] = l[i]
      /\ \A i \in 1..Len(p) : p[i].agent \in call'.steady => p2[i] = p[i]
  <2>1. ASSUME NEW new, NEW old, NEW steady, SameLine(new, old, steady)
        PROVE  /\ SameAgents(old, new)
               /\ \A i \in 1..Len(old) : old[i].agent \in steady => new[i] = old[i]
    BY <2>1 DEF SameLine, SameAgents
  <2>2. SameLine(l2, l, call'.steady) /\ SameLine(p2, p, call'.steady)
    BY <1>1, <1>2, <1>3
  <2>3. SameAgents(d, d)
    BY DEF SameAgents
  <2>4. QED BY <2>1, <2>2, <2>3
<1>7. InLine(l2)' /\ InLine(p2)' /\ InLine(d)'
  <2>1. InLine(l2)'
    BY <1>4, <1>5, <1>6, LineStays
  <2>2. InLine(p2)'
    BY <1>4, <1>5, <1>6, LineStays
  <2>3. InLine(d)'
    BY <1>4, <1>5, <1>6, LineStays
  <2>4. QED BY <2>1, <2>2, <2>3
<1>8. Ahead(p2, l2)' /\ Ahead(d, l2)' /\ Ahead(d, p2)'
  <2>1. Ahead(p2, l2)'
    BY <1>4, <1>5, <1>6, AheadStays
  <2>2. Ahead(d, l2)'
    BY <1>4, <1>5, <1>6, AheadStays
  <2>3. Ahead(d, p2)'
    BY <1>4, <1>5, <1>6, AheadStays
  <2>4. QED BY <2>1, <2>2, <2>3
<1>9. GoodReferences(l2)' /\ GoodReferences(p2)'
  <2>1. ASSUME NEW s, NEW s2, SameAgents(s, s2), GoodReferences(s),
               \A i \in 1..Len(s) : s[i].agent \in call'.steady => s2[i] = s[i]
        PROVE  GoodReferences(s2)'
    <3>1. SUFFICES ASSUME NEW i \in 1..Len(s)
                   PROVE  /\ s2[i].agent \in call'.reachable
                          /\ s2[i].agent \in call'.steady => s2[i].live
      BY <2>1 DEF GoodReferences, SameAgents
    <3>2. /\ s2[i].agent = s[i].agent
          /\ s[i].agent \in call'.steady => s2[i] = s[i]
          /\ s[i].agent \in call.reachable
          /\ s[i].agent \in call.steady => s[i].live
      BY <2>1 DEF GoodReferences, SameAgents
    <3>3. QED BY <1>1, <1>5, <3>2
  <2>2. GoodReferences(l2)'
    BY <1>4, <1>6, <2>1
  <2>3. GoodReferences(p2)'
    BY <1>4, <1>6, <2>1
  <2>4. QED BY <2>2, <2>3
<1>10. GoodKeys(d)'
  BY <1>1, <1>4, <1>5 DEF GoodKeys
<1>11. AllPass(p2)' /\ AllPass(d)'
  <2>1. ASSUME NEW s, NEW s2, SameAgents(s, s2), AllPass(s)
        PROVE  AllPass(s2)'
    <3>1. PICK part : part = Part_ /\ part = Part_'
      BY <1>5
    <3>2. SUFFICES ASSUME NEW i \in 1..Len(s), s2[i].agent \in call'.steady
                   PROVE  Passes(part, call'.message, records'[s2[i].agent])
      BY <2>1, <3>1 DEF AllPass, Passes, SameAgents
    <3>3. /\ s2[i].agent = s[i].agent
          /\ s[i].agent \in call.steady => Passes(part, call.message, records[s[i].agent])
      BY <2>1, <3>1 DEF AllPass, SameAgents
    <3>4. QED BY <1>1, <1>5, <3>2, <3>3
  <2>2. AllPass(p2)'
    BY <1>4, <1>6, <2>1
  <2>3. AllPass(d)'
    BY <1>4, <1>6, <2>1
  <2>4. QED BY <2>2, <2>3
<1>12. ASSUME NEW a \in MeshAgents, Accepts(Part_, a)' PROVE Has(l2, a) \/ Has(p2, a) \/ Has(d, a)
  <2>1. Has(l, a) \/ Has(p, a) \/ Has(d, a)
    BY <1>4, <1>5, <1>12
  <2>2. ASSUME NEW s, NEW t, SameAgents(s, t), Has(s, a) PROVE Has(t, a)
    BY <2>2 DEF Has, SameAgents
  <2>3. (Has(l, a) => Has(l2, a)) /\ (Has(p, a) => Has(p2, a))
    BY <1>6, <2>2
  <2>4. QED BY <2>1, <2>3
<1>13. QED
  BY <1>1, <1>2, <1>3, <1>7, <1>8, <1>9, <1>10, <1>11, <1>12 DEF LineKept, Has

\* ... leaves the history, ...
LEMMA TableKeepsHistory == ASSUME RoutingKept, TableChanges PROVE HistoryKept'
<1> SUFFICES ASSUME call'.stage # "idle" PROVE HistoryKept'
  BY DEF HistoryKept
<1>1. /\ call.stage # "idle"
      /\ call'.steady = {a \in call.steady : a \in Range(order') /\ records'[a] = records[a]}
      /\ call'.reachable = call.reachable \union HealthyOnes(Range(order'), records')
  BY DEF TableChanges, CallFollows
<1>2. \A a \in call.steady \intersect call.reachable : records[a].healthy
  BY <1>1 DEF RoutingKept, HistoryKept
<1>3. \A a \in call'.steady \intersect call'.reachable : records'[a].healthy
  BY <1>1, <1>2 DEF HealthyOnes
<1>4. /\ call'.steady \subseteq Range(order')
      /\ HealthyOnes(Range(order'), records') \subseteq call'.reachable
  BY <1>1
<1>5. QED BY <1>3, <1>4 DEF HistoryKept, HealthyOnes, Range

\* ... the scores, ...
LEMMA TableKeepsScores == ASSUME RoutingKept, TableChanges PROVE ScoresKept'
<1> SUFFICES ASSUME call'.stage \in {"list", "rank"}, router'.composite PROVE ScoresKept'
  BY DEF ScoresKept
<1>1. /\ call.stage \in {"list", "rank"} /\ call.stage # "idle" /\ router' = router
      /\ call'.base = call.base /\ call'.part = call.part /\ call'.scores = call.scores
      /\ call.reachable \subseteq call'.reachable
  BY DEF TableChanges, CallFollows
<1>2. PICK base, part, scores, r :
        base = call.base /\ part = call.part /\ scores = call.scores /\ r = router
  OBVIOUS
<1>3. /\ IsInjective(base)
      /\ \A i \in 1..Len(base) : base[i] \in call.reachable
      /\ \A a \in call.steady : records[a].healthy => \E i \in 1..Len(base) : base[i] = a
      /\ \A k \in 1..(part - 1) : r.weights[k] > 0 =>
           \A a \in MeshAgents : Accepts(r.parts[k], a) => scores[a] > 0
      /\ \A a, b \in call.steady :
           (\A k \in 1..(part - 1) : Beats(k, a, b)) =>
             scores[a] >= scores[b] /\ (part > 1 => scores[a] > scores[b])
  BY <1>1, <1>2 DEF RoutingKept, ScoresKept
<1>4. /\ \A a \in call'.steady : a \in call.steady /\ records'[a] = records[a]
      /\ \A p, a : Accepts(p, a)' => Accepts(p, a)
      /\ \A k : \A a, b \in call'.steady : Beats(k, a, b)' => Beats(k, a, b)
  BY <1>1, SteadyStay
<1>5. \A k \in 1..(part - 1) : r.weights[k] > 0 =>
        \A a \in MeshAgents : Accepts(r.parts[k], a)' => scores[a] > 0
  BY <1>3, <1>4
<1>6. \A a, b \in call'.steady :
        (\A k \in 1..(part - 1) : Beats(k, a, b)') =>
          scores[a] >= scores[b] /\ (part > 1 => scores[a] > scores[b])
  BY <1>3, <1>4
<1>7. /\ \A i \in 1..Len(base) : base[i] \in call'.reachable
      /\ \A a \in call'.steady : records'[a].healthy => \E i \in 1..Len(base) : base[i] = a
  BY <1>1, <1>3, <1>4
<1>8. /\ call'.base = base /\ call'.part = part /\ call'.scores = scores
      /\ router'.weights = r.weights /\ router'.parts = r.parts
  BY <1>1, <1>2
<1>9. \A k \in 1..(call'.part - 1) : router'.weights[k] > 0 =>
        \A a \in MeshAgents : Accepts(router.parts[k], a)' => call'.scores[a] > 0
  BY <1>5, <1>8 DEF Accepts, Passes
<1>10. \A a, b \in call'.steady :
         (\A k \in 1..(call'.part - 1) : Beats(k, a, b)') =>
           /\ call'.scores[a] >= call'.scores[b]
           /\ call'.part > 1 => call'.scores[a] > call'.scores[b]
  BY <1>6, <1>8
<1>11. QED BY <1>3, <1>7, <1>8, <1>9, <1>10 DEF ScoresKept, IsInjective

\* ... how far the call is, ...
LEMMA TableKeepsStage == ASSUME RoutingKept, TableChanges PROVE StageKept'
<1>1. /\ call'.stage = call.stage /\ router' = router /\ call'.part = call.part
      /\ call'.scores = call.scores /\ call'.missing = call.missing
      /\ call'.ranked = call.ranked /\ call'.message = call.message
  BY DEF TableChanges, CallFollows
<1>2. ASSUME call.stage \in {"base", "list", "rank"},
             NEW a \in call.message.receiver \intersect call'.steady
      PROVE  ~records'[a].healthy
  <2>1. call.stage # "idle"
    BY <1>2
  <2>2. a \in call.steady /\ records'[a] = records[a]
    BY <1>2, <2>1, SteadyStay
  <2>3. QED BY <1>2, <2>2 DEF RoutingKept, StageKept
<1>3. QED BY <1>1, <1>2 DEF RoutingKept, StageKept

\* ... and the answer as they are.
LEMMA TableKeepsAnswer == ASSUME RoutingKept, TableChanges PROVE AnswerKept'
<1> SUFFICES ASSUME call'.stage = "done" PROVE AnswerKept'
  BY DEF AnswerKept
<1>1. /\ call.stage = "done" /\ call.stage # "idle" /\ router' = router
      /\ call'.ranked = call.ranked /\ call'.message = call.message
      /\ call'.missing = call.missing /\ call.reachable \subseteq call'.reachable
  BY DEF TableChanges, CallFollows
<1>2. PICK ranked, message, r :
        ranked = call.ranked /\ message = call.message /\ r = router
  OBVIOUS
<1>3. /\ \A a \in call'.steady : /\ a \in call.steady /\ a \in Range(order')
                                 /\ records'[a] = records[a]
      /\ \A p, a : Accepts(p, a)' => Accepts(p, a)
      /\ \A k : \A a, b \in call'.steady : Beats(k, a, b)' => Beats(k, a, b)
      /\ Asked' <=> Asked
      /\ \A a, b \in Range(order') : Earlier(a, b) => Earlier(a, b)'
  BY <1>1, SteadyStay DEF TableChanges
<1>4. /\ Range(ranked) \subseteq call.reachable /\ IsInjective(ranked)
      /\ call.missing => message.receiver \intersect call.steady = {}
      /\ \A a \in message.receiver \intersect call.steady :
           records[a].healthy => Range(ranked) = message.receiver
      /\ Asked \/ \A k \in 1..Len(r.parts) : r.weights[k] > 0 =>
           \A a \in MeshAgents : Accepts(r.parts[k], a) => a \in Range(ranked)
      /\ ~r.composite /\ r.parts[1].name # "round_robin" =>
           \A i, j \in 1..Len(ranked) :
             i < j /\ ranked[i] \in call.steady /\ ranked[j] \in call.steady =>
               LET k1 == Key(r.parts[1], ranked[i], records[ranked[i]])
                   k2 == Key(r.parts[1], ranked[j], records[ranked[j]])
               IN  k1 < k2 \/ (k1 = k2 /\ Earlier(ranked[i], ranked[j]))
      /\ Unbeaten
  BY <1>1, <1>2 DEF RoutingKept, AnswerKept, AllNamed, InKeyOrder
<1>5. /\ Range(ranked) \subseteq call'.reachable
      /\ call.missing => message.receiver \intersect call'.steady = {}
      /\ \A a \in message.receiver \intersect call'.steady :
           records'[a].healthy => Range(ranked) = message.receiver
  BY <1>1, <1>3, <1>4
<1>6. Asked' \/ \A k \in 1..Len(r.parts) : r.weights[k] > 0 =>
        \A a \in MeshAgents : Accepts(r.parts[k], a)' => a \in Range(ranked)
  BY <1>3, <1>4
<1>7. ASSUME ~r.composite, r.parts[1].name # "round_robin",
             NEW i \in 1..Len(ranked), NEW j \in 1..Len(ranked), i < j,
             ranked[i] \in call'.steady, ranked[j] \in call'.steady,
             NEW k1, k1 = Key(r.parts[1], ranked[i], records'[ranked[i]]),
             NEW k2, k2 = Key(r.parts[1], ranked[j], records'[ranked[j]])
      PROVE  k1 < k2 \/ (k1 = k2 /\ Earlier(ranked[i], ranked[j])')
  <2>1. PICK a, b : a = ranked[i] /\ b = ranked[j]
    OBVIOUS
  <2>2. /\ a \in call.steady /\ b \in call.steady /\ a \in Range(order') /\ b \in Range(order')
        /\ records'[a] = records[a] /\ records'[b] = records[b]
    BY <1>3, <1>7, <2>1
  <2>3. k1 < k2 \/ (k1 = k2 /\ Earlier(a, b))
    BY <1>4, <1>7, <2>1, <2>2
  <2>4. Earlier(a, b) => Earlier(a, b)'
    BY <1>3, <2>2
  <2>5. QED BY <2>1, <2>3, <2>4 DEF Earlier
<1>8. Unbeaten'
  <2>1. SUFFICES ASSUME r.composite, ~Asked, ranked # <<>>, Head(ranked) \in call'.steady,
                        NEW a \in call'.steady,
                        \A k \in 1..Len(r.parts) : Beats(k, a, Head(ranked))'
                 PROVE  FALSE
    BY <1>1, <1>2, <1>3 DEF Unbeaten, Beats
  <2>2. PICK first : first = Head(ranked) /\ first \in call'.steady
    BY <2>1
  <2>3. \A k \in 1..Len(r.parts) : Beats(k, a, first)
    BY <1>3, <2>1, <2>2 DEF Beats
  <2>4. a \in call.steady /\ first \in call.steady
    BY <1>3, <2>2
  <2>5. QED BY <1>2, <1>4, <2>1, <2>2, <2>3, <2>4 DEF Unbeaten
<1>9. QED
  <2>1. AllNamed'
    <3>1. PICK named : named = Range(ranked) /\ named = Range(call'.ranked)
      BY <1>1, <1>2
    <3>2. Asked' \/ \A k \in 1..Len(r.parts) : r.weights[k] > 0 =>
            \A a \in MeshAgents : Accepts(r.parts[k], a)' => a \in named
      BY <1>6, <3>1
    <3>3. Asked' \/ \A k \in 1..Len(router'.parts) : router'.weights[k] > 0 =>
            \A a \in MeshAgents : Accepts(router.parts[k], a)' => a \in named
      BY <1>1, <1>2, <3>2 DEF Accepts, Passes
    <3>4. QED BY <3>1, <3>3 DEF AllNamed
  <2>2. InKeyOrder'
    <3>1. SUFFICES ASSUME ~router'.composite, router'.parts[1].name # "round_robin",
             NEW i \in 1..Len(call'.ranked), NEW j \in 1..Len(call'.ranked), i < j,
             call'.ranked[i] \in call'.steady, call'.ranked[j] \in call'.steady,
             NEW k1, k1 = Key(router'.parts[1], call'.ranked[i], records'[call'.ranked[i]]),
             NEW k2, k2 = Key(router'.parts[1], call'.ranked[j], records'[call'.ranked[j]])
          PROVE  k1 < k2 \/ (k1 = k2 /\ Earlier(call.ranked[i], call.ranked[j])')
      BY Zenon DEF InKeyOrder
    <3>2. k1 < k2 \/ (k1 = k2 /\ Earlier(ranked[i], ranked[j])')
      BY <1>1, <1>2, <1>7, <3>1
    <3>3. QED BY <1>1, <1>2, <3>2 DEF Earlier
  <2>3. QED BY <1>1, <1>2, <1>4, <1>5, <1>8, <2>1, <2>2 DEF AnswerKept, Range, IsInjective

\* A change of the table keeps the invariant.
LEMMA TableKeeps == ASSUME RoutingKept, TableChanges PROVE RoutingKept'
<1>1. RoutingTyped'
  <2>1. call' \in Calls /\ router' \in Routers /\ counter' \in 0..(Turns - 1)
    BY DEF RoutingKept, RoutingTyped, TableChanges, CallFollows
  <2>2. QED BY <2>1 DEF RoutingTyped, TableChanges, CostOk, LoadOk, Range, IsInjective
<1>2. QED
  BY <1>1, TableKeepsHistory, TableKeepsLine, TableKeepsScores, TableKeepsStage,
     TableKeepsAnswer DEF RoutingKept

-----------------------------------------------------------------------------
\* A step of the call leaves the table alone.
SameTable == router' = router /\ order' = order /\ records' = records

\* It goes on with the same message and the same history.
SameHistory ==
  /\ SameTable
  /\ call'.steady = call.steady /\ call'.reachable = call.reachable
  /\ call'.message = call.message

\* What is said of agents then stays true.
LEMMA HistoryStays ==
  ASSUME SameHistory
  PROVE  /\ \A a, b : Earlier(a, b)' <=> Earlier(a, b)
         /\ \A a, b : Apart(a, b)' <=> Apart(a, b)
         /\ \A part, a : Accepts(part, a)' <=> Accepts(part, a)
         /\ \A k, a, b : Beats(k, a, b)' <=> Beats(k, a, b)
<1>1. /\ router' = router /\ order' = order /\ records' = records
      /\ call'.steady = call.steady /\ call'.message = call.message
  BY DEF SameHistory, SameTable
<1>2. \A a, b : Earlier(a, b)' <=> Earlier(a, b)
  BY <1>1 DEF Earlier
<1>3. \A a, b : Apart(a, b)' <=> Apart(a, b)
  BY <1>1, <1>2 DEF Apart
<1>4. ASSUME NEW part, NEW a PROVE Accepts(part, a)' <=> Accepts(part, a)
  <2>1. Accepts(part, a)' <=> /\ a \in call'.steady /\ records'[a].healthy
                              /\ Passes(part, call'.message, records'[a])
    BY DEF Accepts, Passes
  <2>2. QED BY <1>1, <2>1 DEF Accepts
<1>5. ASSUME NEW k, NEW a, NEW b PROVE Beats(k, a, b)' <=> Beats(k, a, b)
  <2>1. PICK part : part = router.parts[k]
    OBVIOUS
  <2>2. Beats(k, a, b)' <=>
          /\ router.weights[k] > 0 /\ part.name # "round_robin" /\ Accepts(part, a)'
          /\ Accepts(part, b)' => Key(part, a, records[a]) < Key(part, b, records[b])
    BY <1>1, <2>1 DEF Beats, Key, Accepts, Passes
  <2>3. QED BY <1>4, <2>1, <2>2 DEF Beats
<1>6. QED BY <1>2, <1>3, <1>4, <1>5

\* A call that goes on keeps the history.
LEMMA HistoryGoesOn ==
  ASSUME HistoryKept, SameHistory, call.stage # "idle" PROVE HistoryKept'
  BY DEF HistoryKept, SameHistory, SameTable, HealthyOnes, Range

\* The types of the table, and of a call that leaves it alone.
LEMMA TypedGoesOn ==
  ASSUME RoutingTyped, SameTable, counter' \in 0..(Turns - 1), call' \in Calls
  PROVE  RoutingTyped'
  BY DEF RoutingTyped, SameTable, CostOk, LoadOk, Range, IsInjective

\* A message without a call.
LEMMA IdleType == Idle_ \in Calls
<1>1. [a \in MeshAgents |-> 0] \in [MeshAgents -> Nat]
  OBVIOUS
<1>2. QED BY <1>1 DEF Idle_, Calls

\* resolve() begins.
LEMMA ResolveKeeps ==
  ASSUME RoutingKept, NEW message \in Messages, Resolve_(message) PROVE RoutingKept'
<1>1. PICK re \in SUBSET MeshAgents, st \in SUBSET MeshAgents :
        st = Range(order) /\ re = HealthyOnes(st, records)
  <2>1. Range(order) \in SUBSET MeshAgents /\ HealthyOnes(Range(order), records) \in SUBSET MeshAgents
    BY DEF RoutingKept, RoutingTyped, Range, HealthyOnes
  <2>2. QED BY <2>1, Zenon
<1>2. PICK stage \in {"receiver", "base", "list"} :
        /\ call' = [Idle_ EXCEPT !.message = message, !.steady = st, !.reachable = re,
                                 !.stage = stage]
        /\ stage = "receiver" <=> message.receiver # {} /\ message.receiver \subseteq st
        /\ stage = "list" => ~router.composite
  <2>1. PICK c : c = [Idle_ EXCEPT !.message = message, !.steady = st, !.reachable = re]
    OBVIOUS
  <2>2. call' = IF message.receiver # {} /\ message.receiver \subseteq st
                  THEN [c EXCEPT !.stage = "receiver"] ELSE StartRanking(c)
    BY <1>1, <2>1 DEF Resolve_
  <2>3. \A stage : [c EXCEPT !.stage = stage]
                     = [Idle_ EXCEPT !.message = message, !.steady = st, !.reachable = re,
                                     !.stage = stage]
    BY <2>1 DEF Idle_
  <2>4. QED BY <2>2, <2>3 DEF StartRanking
<1>3. /\ call' \in Calls /\ call'.stage = stage /\ call'.message = message
      /\ call'.steady = st /\ call'.reachable = re /\ call'.part = 1
      /\ call'.scores = [a \in MeshAgents |-> 0] /\ call'.missing = FALSE /\ call'.ranked = <<>>
  <2>1. Idle_ \in Calls
    BY IdleType
  <2>2. call' \in Calls
    BY <1>2, <2>1 DEF Calls
  <2>3. QED BY <1>2, <2>2 DEF Idle_
<1>4. SameTable /\ counter' = counter
  BY DEF Resolve_, SameTable
<1>5. RoutingTyped'
  BY <1>3, <1>4, TypedGoesOn DEF RoutingKept, RoutingTyped
<1>6. HistoryKept'
  <2>1. Range(order') = st /\ HealthyOnes(Range(order'), records') = re
    BY <1>1, <1>4 DEF SameTable
  <2>2. \A a \in re : records'[a].healthy
    BY <1>1, <1>4 DEF SameTable, HealthyOnes
  <2>3. QED BY <1>3, <2>1, <2>2 DEF HistoryKept, Range, HealthyOnes
<1>7. LineKept' /\ AnswerKept'
  BY <1>2, <1>3 DEF LineKept, AnswerKept
<1>8. ScoresKept'
  BY <1>2, <1>3, <1>4 DEF ScoresKept, SameTable
<1>9. StageKept'
  <2>1. Len(router.parts) \in Nat \ {0} /\ router' = router
    BY <1>4, RouterIs DEF RoutingKept, RoutingTyped, SameTable
  <2>2. ASSUME stage # "receiver", NEW a \in message.receiver PROVE a \notin st
    BY <1>2, <2>2, RoutingAssumption
  <2>3. QED BY <1>2, <1>3, <2>1, <2>2 DEF StageKept
<1>10. QED BY <1>5, <1>6, <1>7, <1>8, <1>9 DEF RoutingKept

\* resolve() looks at the receiver.
LEMMA GetReceiverKeeps == ASSUME RoutingKept, GetReceiver PROVE RoutingKept'
<1>1. PICK a : /\ a \in call.message.receiver
               /\ call' = CASE a \notin Range(order) ->
                                 [call EXCEPT !.stage = "done", !.missing = TRUE]
                            [] a \in Range(order) /\ Direct(records[a]) ->
                                 [call EXCEPT !.stage = "done", !.ranked = <<a>>]
                            [] OTHER -> StartRanking(call)
  BY DEF GetReceiver
<1>2. SameTable /\ counter' = counter /\ call.stage = "receiver"
  BY DEF GetReceiver, SameTable
<1>3. /\ call \in Calls /\ call.part = 1 /\ (\A b \in MeshAgents : call.scores[b] = 0)
      /\ ~call.missing /\ call.ranked = <<>>
  BY <1>2 DEF RoutingKept, RoutingTyped, StageKept
<1>4. call.message.receiver = {a}
  <2>1. CASE call.message \in Messages
    BY <1>1, <2>1, RoutingAssumption
  <2>2. CASE call.message = [receiver |-> {}, required |-> {}, budget |-> {}]
    BY <1>1, <2>2
  <2>3. QED BY <1>3, <2>1, <2>2 DEF Calls
<1>5. call.steady \subseteq Range(order) /\ Range(order) \subseteq MeshAgents
  BY <1>2 DEF RoutingKept, HistoryKept, RoutingTyped, Range
<1>6. ASSUME call' \in Calls, SameHistory PROVE RoutingTyped' /\ HistoryKept'
  <2>1. RoutingTyped'
    BY <1>2, <1>6, TypedGoesOn DEF RoutingKept, RoutingTyped
  <2>2. HistoryKept'
    BY <1>2, <1>6, HistoryGoesOn DEF RoutingKept
  <2>3. QED BY <2>1, <2>2
<1>7. CASE a \notin Range(order)
  <2>1. call' = [call EXCEPT !.stage = "done", !.missing = TRUE]
    BY <1>1, <1>7
  <2>2. /\ call' \in Calls /\ call'.stage = "done" /\ call'.missing = TRUE
        /\ call'.ranked = <<>> /\ call'.message = call.message /\ call'.steady = call.steady
        /\ call'.reachable = call.reachable
    BY <1>3, <2>1 DEF Calls
  <2>3. RoutingTyped' /\ HistoryKept'
    BY <1>2, <1>6, <2>2 DEF SameHistory
  <2>4. LineKept' /\ ScoresKept' /\ StageKept'
    BY <2>2 DEF LineKept, ScoresKept, StageKept
  <2>5. call'.message.receiver \intersect call'.steady = {}
    BY <1>4, <1>5, <1>7, <2>2
  <2>6. Asked' /\ AllNamed' /\ InKeyOrder' /\ Unbeaten'
    BY <2>2 DEF Asked, AllNamed, InKeyOrder, Unbeaten
  <2>7. Range(call'.ranked) \subseteq call'.reachable /\ IsInjective(call'.ranked)
    BY <2>2 DEF Range, IsInjective
  <2>8. AnswerKept'
    BY <2>5, <2>6, <2>7 DEF AnswerKept, Range, IsInjective
  <2>9. QED BY <2>3, <2>4, <2>8 DEF RoutingKept
<1>8. CASE a \in Range(order) /\ records[a].healthy
  <2>1. call' = [call EXCEPT !.stage = "done", !.ranked = <<a>>]
    BY <1>1, <1>8 DEF Direct
  <2>2. a \in MeshAgents /\ a \in call.reachable
    BY <1>2, <1>5, <1>8 DEF RoutingKept, HistoryKept, HealthyOnes
  <2>3. /\ call' \in Calls /\ call'.stage = "done" /\ call'.missing = call.missing
        /\ call'.ranked = <<a>> /\ call'.message = call.message /\ call'.steady = call.steady
        /\ call'.reachable = call.reachable
    <3>1. <<a>> \in Seq(MeshAgents)
      BY <2>2
    <3>2. QED BY <1>3, <2>1, <3>1 DEF Calls
  <2>4. RoutingTyped' /\ HistoryKept'
    BY <1>2, <1>6, <2>3 DEF SameHistory
  <2>5. LineKept' /\ ScoresKept' /\ StageKept'
    BY <2>3 DEF LineKept, ScoresKept, StageKept
  <2>6. Range(call'.ranked) = {a} /\ IsInjective(call'.ranked)
    BY <2>3 DEF Range, IsInjective
  <2>7. Asked'
    BY <1>4, <2>3, <2>6 DEF Asked, Range
  <2>8. InKeyOrder'
    BY <2>3 DEF InKeyOrder
  <2>9. AllNamed' /\ Unbeaten'
    BY <2>7 DEF AllNamed, Unbeaten
  <2>10. /\ Range(call'.ranked) \subseteq call'.reachable
         /\ Range(call'.ranked) = call'.message.receiver /\ ~call'.missing
    BY <1>3, <1>4, <2>2, <2>3, <2>6
  <2>11. AnswerKept'
    BY <2>6, <2>8, <2>9, <2>10 DEF AnswerKept, Range, IsInjective
  <2>12. QED BY <2>4, <2>5, <2>11 DEF RoutingKept
<1>9. CASE a \in Range(order) /\ ~records[a].healthy
  <2>1. call' = StartRanking(call)
    BY <1>1, <1>9 DEF Direct
  <2>2. PICK stage \in {"base", "list"} :
          call' = [call EXCEPT !.stage = stage] /\ (stage = "list" => ~router.composite)
    BY <2>1 DEF StartRanking
  <2>3. /\ call' \in Calls /\ call'.stage = stage /\ call'.missing = call.missing
        /\ call'.ranked = call.ranked /\ call'.message = call.message
        /\ call'.steady = call.steady /\ call'.reachable = call.reachable
        /\ call'.part = call.part /\ call'.scores = call.scores
    BY <1>3, <2>2 DEF Calls
  <2>4. RoutingTyped' /\ HistoryKept'
    BY <1>2, <1>6, <2>3 DEF SameHistory
  <2>5. LineKept' /\ AnswerKept'
    BY <2>2, <2>3 DEF LineKept, AnswerKept
  <2>6. ScoresKept'
    BY <1>2, <2>2, <2>3 DEF ScoresKept, SameTable
  <2>7. StageKept'
    <3>1. Len(router.parts) \in Nat \ {0} /\ router' = router /\ records' = records
      BY <1>2, RouterIs DEF RoutingKept, RoutingTyped, SameTable
    <3>2. QED BY <1>3, <1>4, <1>9, <2>2, <2>3, <3>1 DEF StageKept
  <2>8. QED BY <2>4, <2>5, <2>6, <2>7 DEF RoutingKept
<1>10. QED BY <1>7, <1>8, <1>9

\* list_agents(): references to the agents that are healthy now, in the order of the table.
LEMMA ListingIs ==
  ASSUME RoutingTyped
  PROVE  \E l \in Seq(References) :
           /\ l = Listing
           /\ \A i \in 1..Len(l) : /\ l[i].live /\ l[i].agent \in Range(order)
                                   /\ records[l[i].agent].healthy
           /\ \A i, j \in 1..Len(l) : l[i].agent = l[j].agent => i = j
           /\ \A i, j \in 1..Len(l) : i < j => Earlier(l[i].agent, l[j].agent)
           /\ \A a \in Range(order) : records[a].healthy => Has(l, a)
<1>1. order \in Seq(MeshAgents) /\ IsInjective(order)
  BY DEF RoutingTyped
<1>2. PICK healthy : healthy = HealthyOnes(Range(order), records)
  OBVIOUS
<1>3. PICK t \in Seq(MeshAgents) :
        /\ t = Those(order, healthy)
        /\ IsInjective(t)
        /\ \A a : (\E i \in DOMAIN t : t[i] = a)
                    <=> a \in healthy /\ \E i \in DOMAIN order : order[i] = a
        /\ \A i, j \in DOMAIN t : i < j =>
             \E x, y \in DOMAIN order : x < y /\ order[x] = t[i] /\ order[y] = t[j]
  BY <1>1, ThoseAre, Zenon
<1>4. PICK n \in Nat : n = Len(t) /\ DOMAIN t = 1..n
  OBVIOUS
<1>5. \A a : a \in healthy <=> a \in Range(order) /\ records[a].healthy
  BY <1>2 DEF HealthyOnes
<1>6. \A a : (\E i \in 1..n : t[i] = a) <=> a \in healthy
  <2>1. \A a \in healthy : \E i \in DOMAIN order : order[i] = a
    BY <1>5 DEF Range
  <2>2. QED BY <1>3, <1>4, <2>1
<1> DEFINE l == [i \in 1..n |-> [agent |-> t[i], live |-> TRUE, was |-> Blank]]
<1>7. l = Listing
  BY <1>2, <1>3, <1>4 DEF Listing
<1>8. \A i \in 1..n : l[i] \in References /\ l[i].agent = t[i] /\ l[i].live
  <2>1. \A i \in 1..n : t[i] \in MeshAgents
    BY <1>4
  <2>2. QED BY <2>1, BlankType DEF References
<1>9. l \in [1..n -> References]
  BY <1>8
<1> HIDE DEF l
<1>10. l \in Seq(References) /\ Len(l) = n
  BY <1>9
<1>11. \A i \in 1..n : /\ l[i].live /\ l[i].agent \in Range(order)
                       /\ records[l[i].agent].healthy
  BY <1>5, <1>6, <1>8
<1>12. \A i, j \in 1..n : l[i].agent = l[j].agent => i = j
  BY <1>3, <1>4, <1>8 DEF IsInjective
<1>13. \A i, j \in 1..n : i < j => Earlier(l[i].agent, l[j].agent)
  BY <1>3, <1>4, <1>8 DEF Earlier
<1>14. \A a \in Range(order) : records[a].healthy => Has(l, a)
  BY <1>5, <1>6, <1>8, <1>10 DEF Has
<1>15. QED BY <1>7, <1>10, <1>11, <1>12, <1>13, <1>14

\* CompositeRouter takes its candidates.
LEMMA ListBaseKeeps == ASSUME RoutingKept, ListBase PROVE RoutingKept'
<1>1. RoutingTyped /\ call \in Calls
  BY DEF RoutingKept, RoutingTyped
<1>2. PICK l \in Seq(References) :
        /\ l = Listing
        /\ \A i \in 1..Len(l) : /\ l[i].live /\ l[i].agent \in Range(order)
                                /\ records[l[i].agent].healthy
        /\ \A i, j \in 1..Len(l) : l[i].agent = l[j].agent => i = j
        /\ \A a \in Range(order) : records[a].healthy => Has(l, a)
  BY <1>1, ListingIs
<1>3. PICK n \in Nat : n = Len(l) /\ DOMAIN l = 1..n /\ l \in [1..n -> References]
  OBVIOUS
<1>4. PICK base \in Seq(MeshAgents) : /\ base = [i \in 1..n |-> l[i].agent]
                                      /\ Len(base) = n /\ DOMAIN base = 1..n
                                      /\ \A i \in 1..n : base[i] = l[i].agent
  <2>1. [i \in 1..n |-> l[i].agent] \in [1..n -> MeshAgents]
    BY <1>3 DEF References
  <2>2. PICK base \in [1..n -> MeshAgents] : base = [i \in 1..n |-> l[i].agent]
    BY <2>1, Zenon
  <2>3. base \in Seq(MeshAgents) /\ Len(base) = n /\ DOMAIN base = 1..n
    OBVIOUS
  <2>4. \A i \in 1..n : base[i] = l[i].agent
    BY <2>2
  <2>5. QED BY <2>2, <2>3, <2>4, Zenon
<1>5. PICK stage \in {"done", "list"} :
        /\ call' = [call EXCEPT !.base = base, !.stage = stage]
        /\ stage = "done" <=> l = <<>>
  <2>1. DOMAIN Listing = 1..n /\ base = [i \in DOMAIN Listing |-> Listing[i].agent]
    BY <1>2, <1>3, <1>4
  <2>2. call' = [call EXCEPT !.base = base,
                             !.stage = IF Listing = <<>> THEN "done" ELSE "list"]
    BY <2>1, Zenon DEF ListBase
  <2>3. CASE l = <<>>
    BY <1>2, <2>2, <2>3
  <2>4. CASE l # <<>>
    BY <1>2, <2>2, <2>4
  <2>5. QED BY <2>3, <2>4
<1>6. /\ call' \in Calls /\ call'.stage = stage /\ call'.missing = call.missing
      /\ call'.ranked = call.ranked /\ call'.message = call.message
      /\ call'.steady = call.steady /\ call'.reachable = call.reachable
      /\ call'.part = call.part /\ call'.scores = call.scores /\ call'.base = base
  BY <1>1, <1>5 DEF Calls
<1>7. SameTable /\ counter' = counter /\ call.stage = "base"
  BY DEF ListBase, SameTable
<1>8. SameHistory
  BY <1>6, <1>7 DEF SameHistory
<1>9. RoutingTyped'
  BY <1>1, <1>6, <1>7, TypedGoesOn DEF RoutingTyped
<1>10. HistoryKept /\ HistoryKept'
  BY <1>7, <1>8, HistoryGoesOn DEF RoutingKept
<1>11. LineKept'
  BY <1>5, <1>6 DEF LineKept
<1>12. /\ call.steady \subseteq Range(order)
       /\ HealthyOnes(Range(order), records) \subseteq call.reachable
  BY <1>7, <1>10 DEF HistoryKept
<1>13. /\ call.part = 1 /\ (\A a \in MeshAgents : call.scores[a] = 0)
       /\ ~call.missing /\ call.ranked = <<>>
       /\ \A a \in call.message.receiver \intersect call.steady : ~records[a].healthy
  BY <1>7 DEF RoutingKept, StageKept
<1>14. ScoresKept'
  <2>1. IsInjective(base)
    BY <1>2, <1>3, <1>4 DEF IsInjective
  <2>2. \A i \in 1..Len(base) : base[i] \in call'.reachable
    BY <1>2, <1>3, <1>4, <1>6, <1>12 DEF HealthyOnes
  <2>3. \A a \in call'.steady : records'[a].healthy => \E i \in 1..Len(base) : base[i] = a
    <3>1. \A a : Has(l, a) => \E i \in 1..Len(base) : base[i] = a
      BY <1>3, <1>4 DEF Has
    <3>2. QED BY <1>2, <1>6, <1>7, <1>12, <3>1 DEF SameTable
  <2>4. ASSUME NEW a \in call'.steady, NEW b \in call'.steady
        PROVE  call'.scores[a] >= call'.scores[b] /\ ~(call'.part > 1)
    <3>1. a \in MeshAgents /\ b \in MeshAgents
      BY <1>6 DEF Calls
    <3>2. QED BY <1>6, <1>13, <3>1
  <2>5. call'.part - 1 = 0 /\ call'.base = base
    BY <1>6, <1>13
  <2>6. QED BY <2>1, <2>2, <2>3, <2>4, <2>5 DEF ScoresKept, IsInjective
<1>15. StageKept'
  <2>1. Len(router.parts) \in Nat \ {0} /\ router' = router /\ records' = records
    BY <1>1, <1>7, RouterIs DEF RoutingTyped, SameTable
  <2>2. QED BY <1>5, <1>6, <1>13, <2>1 DEF StageKept
<1>16. AnswerKept'
  <2>1. SUFFICES ASSUME stage = "done" PROVE AnswerKept'
    BY <1>6 DEF AnswerKept
  <2>2. \A a \in call.steady : ~records[a].healthy
    <3>1. \A a : ~Has(l, a)
      BY <1>5, <2>1 DEF Has
    <3>2. QED BY <1>2, <1>12, <3>1
  <2>3. AllNamed'
    <3>1. \A part, a : ~Accepts(part, a)'
      BY <1>8, <2>2, HistoryStays DEF Accepts
    <3>2. QED BY <3>1 DEF AllNamed
  <2>4. call'.ranked = <<>> /\ ~call'.missing
    BY <1>6, <1>13
  <2>5. InKeyOrder' /\ Unbeaten'
    BY <2>4 DEF InKeyOrder, Unbeaten
  <2>6. \A a \in call'.steady : ~records'[a].healthy
    BY <1>6, <1>7, <2>2 DEF SameTable
  <2>7. Range(call'.ranked) \subseteq call'.reachable /\ IsInjective(call'.ranked)
    BY <2>4 DEF Range, IsInjective
  <2>8. QED BY <2>3, <2>4, <2>5, <2>6, <2>7 DEF AnswerKept, Range, IsInjective
<1>17. QED BY <1>9, <1>10, <1>11, <1>14, <1>15, <1>16 DEF RoutingKept

\* A call in its ranking changes only what it has listed, kept and read.
OnlyLines ==
  /\ SameHistory /\ counter' = counter /\ call' \in Calls
  /\ call.stage \in {"list", "rank"} /\ call'.stage = "rank"
  /\ call'.part = call.part /\ call'.base = call.base /\ call'.scores = call.scores
  /\ call'.missing = call.missing /\ call'.ranked = call.ranked

\* That leaves the rest of the invariant.
LEMMA LinesKeep ==
  ASSUME RoutingKept, OnlyLines, LineKept' PROVE RoutingKept'
<1>1. /\ router' = router /\ order' = order /\ records' = records
      /\ call'.steady = call.steady /\ call'.reachable = call.reachable
      /\ call'.message = call.message
  BY DEF OnlyLines, SameHistory, SameTable
<1>2. RoutingTyped'
  BY TypedGoesOn DEF RoutingKept, RoutingTyped, OnlyLines, SameHistory
<1>3. HistoryKept'
  BY HistoryGoesOn DEF RoutingKept, OnlyLines
<1>4. ScoresKept'
  <2>1. SUFFICES ASSUME router.composite PROVE ScoresKept'
    BY <1>1 DEF ScoresKept
  <2>2. PICK base, part, scores, r :
          base = call.base /\ part = call.part /\ scores = call.scores /\ r = router
    OBVIOUS
  <2>3. /\ IsInjective(base)
        /\ \A i \in 1..Len(base) : base[i] \in call.reachable
        /\ \A a \in call.steady : records[a].healthy => \E i \in 1..Len(base) : base[i] = a
        /\ \A k \in 1..(part - 1) : r.weights[k] > 0 =>
             \A a \in MeshAgents : Accepts(r.parts[k], a) => scores[a] > 0
        /\ \A a, b \in call.steady :
             (\A k \in 1..(part - 1) : Beats(k, a, b)) =>
               scores[a] >= scores[b] /\ (part > 1 => scores[a] > scores[b])
    BY <2>1, <2>2 DEF RoutingKept, ScoresKept, OnlyLines
  <2>4. \A k \in 1..(part - 1) : r.weights[k] > 0 =>
          \A a \in MeshAgents : Accepts(r.parts[k], a)' => scores[a] > 0
    BY <2>3, HistoryStays DEF OnlyLines
  <2>5. \A a, b \in call.steady :
          (\A k \in 1..(part - 1) : Beats(k, a, b)') =>
            scores[a] >= scores[b] /\ (part > 1 => scores[a] > scores[b])
    BY <2>3, HistoryStays DEF OnlyLines
  <2>6. call'.base = base /\ call'.part = part /\ call'.scores = scores /\ router' = r
    BY <1>1, <2>2 DEF OnlyLines
  <2>7. QED
    BY <1>1, <2>3, <2>4, <2>5, <2>6 DEF ScoresKept, Accepts, Passes
<1>5. StageKept'
  BY <1>1 DEF RoutingKept, StageKept, OnlyLines
<1>6. AnswerKept'
  BY DEF AnswerKept, OnlyLines
<1>7. QED BY <1>2, <1>3, <1>4, <1>5, <1>6 DEF RoutingKept

\* A part of the strategy takes its list.
LEMMA ListKeeps == ASSUME RoutingKept, List PROVE RoutingKept'
<1>1. RoutingTyped /\ call \in Calls
  BY DEF RoutingKept, RoutingTyped
<1>2. PICK l \in Seq(References) :
        /\ l = Listing
        /\ \A i \in 1..Len(l) : /\ l[i].live /\ l[i].agent \in Range(order)
                                /\ records[l[i].agent].healthy
        /\ \A i, j \in 1..Len(l) : l[i].agent = l[j].agent => i = j
        /\ \A i, j \in 1..Len(l) : i < j => Earlier(l[i].agent, l[j].agent)
        /\ \A a \in Range(order) : records[a].healthy => Has(l, a)
  BY <1>1, ListingIs
<1>3. /\ call' = [call EXCEPT !.listed = l, !.kept = <<>>, !.keyed = <<>>, !.stage = "rank"]
      /\ call.stage = "list" /\ SameTable /\ counter' = counter
  BY <1>2 DEF List, SameTable
<1>4. /\ call' \in Calls /\ call'.stage = "rank" /\ call'.listed = l /\ call'.kept = <<>>
      /\ call'.keyed = <<>> /\ call'.message = call.message
      /\ call'.steady = call.steady /\ call'.reachable = call.reachable
      /\ call'.part = call.part /\ call'.scores = call.scores /\ call'.base = call.base
      /\ call'.missing = call.missing /\ call'.ranked = call.ranked
  <2>1. PICK p \in Seq(References), d \in Seq(Readings) : p = <<>> /\ d = <<>>
    <3>1. <<>> \in Seq(References)
      OBVIOUS
    <3>2. <<>> \in Seq(Readings)
      OBVIOUS
    <3>3. QED BY <3>1, <3>2, Zenon
  <2>2. call' = [call EXCEPT !.listed = l, !.kept = p, !.keyed = d, !.stage = "rank"]
    BY <1>3, <2>1
  <2>3. call' \in Calls
    BY <1>1, <2>2 DEF Calls
  <2>4. QED BY <1>1, <2>1, <2>2, <2>3 DEF Calls
<1>5. OnlyLines
  BY <1>3, <1>4 DEF OnlyLines, SameHistory
<1>6. /\ call.steady \subseteq Range(order)
      /\ HealthyOnes(Range(order), records) \subseteq call.reachable
  BY <1>3 DEF RoutingKept, HistoryKept
<1>7. InLine(l)'
  <2>1. \A i, j \in 1..Len(l) : i < j => Apart(l[i].agent, l[j].agent)
    BY <1>2 DEF Apart
  <2>2. \A i, j \in 1..Len(l) : i < j => Apart(l[i].agent, l[j].agent)'
    BY <1>5, <2>1, HistoryStays DEF OnlyLines
  <2>3. QED BY <2>2 DEF InLine
<1>8. GoodReferences(l)'
  <2>1. \A i \in 1..Len(l) : l[i].agent \in call.reachable /\ l[i].live
    BY <1>2, <1>6 DEF HealthyOnes
  <2>2. QED BY <1>4, <2>1 DEF GoodReferences
<1>9. \A a \in MeshAgents : Accepts(Part_, a)' => Has(l, a)
  BY <1>2, <1>4, <1>6, <1>3 DEF Accepts, SameTable
<1>10. \A s : /\ InLine(<<>>)' /\ Ahead(<<>>, s)' /\ GoodReferences(<<>>)'
              /\ GoodKeys(<<>>)' /\ AllPass(<<>>)'
  BY DEF InLine, Ahead, GoodReferences, GoodKeys, AllPass
<1>11. LineKept'
  BY <1>4, <1>7, <1>8, <1>9, <1>10 DEF LineKept, Has
<1>12. QED BY <1>5, <1>11, LinesKeep

\* resolve() returns.
LEMMA ReturnKeeps == ASSUME RoutingKept, Return PROVE RoutingKept'
<1>1. call' = Idle_ /\ SameTable /\ counter' = counter
  BY DEF Return, SameTable
<1>2. call' \in Calls /\ call'.stage = "idle"
  BY <1>1, IdleType DEF Idle_
<1>3. RoutingTyped'
  BY <1>1, <1>2, TypedGoesOn DEF RoutingKept, RoutingTyped
<1>4. HistoryKept' /\ LineKept' /\ ScoresKept' /\ StageKept' /\ AnswerKept'
  BY <1>2 DEF HistoryKept, LineKept, ScoresKept, StageKept, AnswerKept
<1>5. QED BY <1>3, <1>4 DEF RoutingKept

\* t is l without its head, which is about e.
Loses(l, t, e) ==
  /\ Len(t) \in Nat /\ Len(l) = Len(t) + 1 /\ l[1].agent = e
  /\ \A i \in 1..Len(t) : t[i].agent = l[i + 1].agent

\* q is p with one more about e at its end.
Gains(p, q, e) ==
  /\ Len(p) \in Nat /\ Len(q) = Len(p) + 1 /\ q[Len(p) + 1].agent = e
  /\ \A i \in 1..Len(p) : q[i].agent = p[i].agent

\* What becomes of a list without its head ...
LEMMA LosesKeeps ==
  ASSUME NEW l, NEW t, NEW e, Loses(l, t, e)
  PROVE  /\ InLine(l) => InLine(t)
         /\ \A s : Ahead(s, l) => Ahead(s, t)
         /\ \A a : Has(l, a) => a = e \/ Has(t, a)
<1>1. PICK n \in Nat : /\ n = Len(t) /\ Len(l) = n + 1 /\ l[1].agent = e
                       /\ \A i \in 1..n : t[i].agent = l[i + 1].agent
  BY DEF Loses
<1>2. \A i \in 1..n : i + 1 \in 1..(n + 1)
  OBVIOUS
<1>3. ASSUME InLine(l) PROVE InLine(t)
  <2>1. SUFFICES ASSUME NEW i \in 1..n, NEW j \in 1..n, i < j
                 PROVE  Apart(t[i].agent, t[j].agent)
    BY <1>1 DEF InLine
  <2>2. i + 1 \in 1..(n + 1) /\ j + 1 \in 1..(n + 1) /\ i + 1 < j + 1
    BY <2>1
  <2>3. Apart(l[i + 1].agent, l[j + 1].agent)
    BY <1>1, <1>3, <2>2 DEF InLine
  <2>4. QED BY <1>1, <2>3
<1>4. ASSUME NEW s, Ahead(s, l) PROVE Ahead(s, t)
  <2>1. SUFFICES ASSUME NEW i \in 1..Len(s), NEW j \in 1..n
                 PROVE  Apart(s[i].agent, t[j].agent)
    BY <1>1 DEF Ahead
  <2>2. Apart(s[i].agent, l[j + 1].agent)
    BY <1>1, <1>2, <1>4 DEF Ahead
  <2>3. QED BY <1>1, <2>2
<1>5. ASSUME NEW a, Has(l, a), a # e PROVE Has(t, a)
  <2>1. PICK i \in 1..(n + 1) : l[i].agent = a
    BY <1>1, <1>5 DEF Has
  <2>2. i # 1
    BY <1>1, <1>5, <2>1
  <2>3. i - 1 \in 1..n /\ (i - 1) + 1 = i
    BY <2>2
  <2>4. t[i - 1].agent = a
    BY <1>1, <2>1, <2>3
  <2>5. QED BY <1>1, <2>3, <2>4 DEF Has
<1>6. QED BY <1>3, <1>4, <1>5

\* ... and of one with another element.
LEMMA GainsKeeps ==
  ASSUME NEW p, NEW q, NEW e, Gains(p, q, e)
  PROVE  /\ InLine(p) /\ (\A i \in 1..Len(p) : Apart(p[i].agent, e)) => InLine(q)
         /\ \A s : Ahead(p, s) /\ (\A i \in 1..Len(s) : Apart(e, s[i].agent)) => Ahead(q, s)
         /\ \A s : Ahead(s, p) /\ (\A i \in 1..Len(s) : Apart(s[i].agent, e)) => Ahead(s, q)
         /\ \A a : Has(p, a) => Has(q, a)
         /\ Has(q, e)
<1>1. PICK n \in Nat : /\ n = Len(p) /\ Len(q) = n + 1 /\ q[n + 1].agent = e
                       /\ \A i \in 1..n : q[i].agent = p[i].agent
  BY DEF Gains
<1>2. \A i \in 1..(n + 1) : i = n + 1 \/ i \in 1..n
  OBVIOUS
<1>3. ASSUME InLine(p), \A i \in 1..Len(p) : Apart(p[i].agent, e) PROVE InLine(q)
  <2>1. SUFFICES ASSUME NEW i \in 1..(n + 1), NEW j \in 1..(n + 1), i < j
                 PROVE  Apart(q[i].agent, q[j].agent)
    BY <1>1 DEF InLine
  <2>2. i \in 1..n
    BY <2>1
  <2>3. CASE j = n + 1
    BY <1>1, <1>3, <2>2, <2>3
  <2>4. CASE j \in 1..n
    <3>1. Apart(p[i].agent, p[j].agent)
      BY <1>1, <1>3, <2>1, <2>2, <2>4 DEF InLine
    <3>2. QED BY <1>1, <2>2, <2>4, <3>1
  <2>5. QED BY <1>2, <2>3, <2>4
<1>4. ASSUME NEW s, Ahead(p, s), \A i \in 1..Len(s) : Apart(e, s[i].agent) PROVE Ahead(q, s)
  <2>1. SUFFICES ASSUME NEW i \in 1..(n + 1), NEW j \in 1..Len(s)
                 PROVE  Apart(q[i].agent, s[j].agent)
    BY <1>1 DEF Ahead
  <2>2. CASE i = n + 1
    BY <1>1, <1>4, <2>2
  <2>3. CASE i \in 1..n
    <3>1. Apart(p[i].agent, s[j].agent)
      BY <1>1, <1>4, <2>3 DEF Ahead
    <3>2. QED BY <1>1, <2>3, <3>1
  <2>4. QED BY <1>2, <2>2, <2>3
<1>5. ASSUME NEW s, Ahead(s, p), \A i \in 1..Len(s) : Apart(s[i].agent, e) PROVE Ahead(s, q)
  <2>1. SUFFICES ASSUME NEW i \in 1..Len(s), NEW j \in 1..(n + 1)
                 PROVE  Apart(s[i].agent, q[j].agent)
    BY <1>1 DEF Ahead
  <2>2. CASE j = n + 1
    BY <1>1, <1>5, <2>2
  <2>3. CASE j \in 1..n
    <3>1. Apart(s[i].agent, p[j].agent)
      BY <1>1, <1>5, <2>3 DEF Ahead
    <3>2. QED BY <1>1, <2>3, <3>1
  <2>4. QED BY <1>2, <2>2, <2>3
<1>6. ASSUME NEW a, Has(p, a) PROVE Has(q, a)
  <2>1. PICK i \in 1..n : p[i].agent = a
    BY <1>1, <1>6 DEF Has
  <2>2. i \in 1..(n + 1) /\ q[i].agent = a
    BY <1>1, <2>1
  <2>3. QED BY <1>1, <2>2 DEF Has
<1>7. Has(q, e)
  <2>1. n + 1 \in 1..(n + 1)
    OBVIOUS
  <2>2. QED BY <1>1, <2>1 DEF Has
<1>8. QED BY <1>3, <1>4, <1>5, <1>6, <1>7

\* What is next in a list comes before the rest and after whatever the list comes after.
LEMMA HeadApart ==
  ASSUME NEW l, NEW t, NEW e, Loses(l, t, e)
  PROVE  /\ InLine(l) => \A i \in 1..Len(t) : Apart(e, t[i].agent)
         /\ \A s : Ahead(s, l) => \A i \in 1..Len(s) : Apart(s[i].agent, e)
<1>1. PICK n \in Nat : /\ n = Len(t) /\ Len(l) = n + 1 /\ l[1].agent = e
                       /\ \A i \in 1..n : t[i].agent = l[i + 1].agent
  BY DEF Loses
<1>2. 1 \in 1..(n + 1)
  OBVIOUS
<1>3. ASSUME InLine(l), NEW i \in 1..n PROVE Apart(e, t[i].agent)
  <2>1. i + 1 \in 1..(n + 1) /\ 1 < i + 1
    OBVIOUS
  <2>2. Apart(l[1].agent, l[i + 1].agent)
    BY <1>1, <1>2, <1>3, <2>1 DEF InLine
  <2>3. QED BY <1>1, <2>2
<1>4. ASSUME NEW s, Ahead(s, l), NEW i \in 1..Len(s) PROVE Apart(s[i].agent, e)
  BY <1>1, <1>2, <1>4 DEF Ahead
<1>5. QED BY <1>1, <1>3, <1>4

\* The parts of the invariant of a ranking depend on the history only.
LEMMA LinesTransfer ==
  ASSUME SameHistory, call'.part = call.part
  PROVE  /\ \A s : InLine(s) => InLine(s)'
         /\ \A s, t : Ahead(s, t) => Ahead(s, t)'
         /\ \A s : GoodReferences(s) => GoodReferences(s)'
         /\ \A s : AllPass(s) => AllPass(s)'
         /\ \A s : GoodKeys(s) => GoodKeys(s)'
         /\ \A a : Accepts(Part_, a)' => Accepts(Part_, a)
<1>1. /\ router' = router /\ order' = order /\ records' = records
      /\ call'.steady = call.steady /\ call'.message = call.message
      /\ call'.reachable = call.reachable
  BY DEF SameHistory, SameTable
<1>2. \A a, b : Apart(a, b) => Apart(a, b)'
  BY HistoryStays
<1>3. ASSUME NEW s, InLine(s) PROVE InLine(s)'
  <2>1. SameAgents(s, s)
    BY DEF SameAgents
  <2>2. QED BY <1>2, <1>3, <2>1, LineStays
<1>4. ASSUME NEW s, NEW t, Ahead(s, t) PROVE Ahead(s, t)'
  <2>1. SameAgents(s, s) /\ SameAgents(t, t)
    BY DEF SameAgents
  <2>2. QED BY <1>2, <1>4, <2>1, AheadStays
<1>5. ASSUME NEW s, GoodReferences(s) PROVE GoodReferences(s)'
  BY <1>1, <1>5 DEF GoodReferences
<1>6. PICK part : part = Part_ /\ part = Part_'
  BY <1>1 DEF Part_
<1>7. ASSUME NEW s, AllPass(s) PROVE AllPass(s)'
  <2>1. SUFFICES ASSUME NEW i \in 1..Len(s), s[i].agent \in call'.steady
                 PROVE  Passes(part, call'.message, records'[s[i].agent])
    BY <1>6 DEF AllPass, Passes
  <2>2. s[i].agent \in call.steady => Passes(part, call.message, records[s[i].agent])
    BY <1>6, <1>7 DEF AllPass
  <2>3. QED BY <1>1, <2>1, <2>2
<1>8. ASSUME NEW s, GoodKeys(s) PROVE GoodKeys(s)'
  <2>1. SUFFICES ASSUME NEW i \in 1..Len(s)
                 PROVE  /\ s[i].agent \in call'.reachable
                        /\ s[i].agent \in call'.steady =>
                             s[i].key = Key(part, s[i].agent, records'[s[i].agent])
    BY <1>6 DEF GoodKeys, Key
  <2>2. /\ s[i].agent \in call.reachable
        /\ s[i].agent \in call.steady => s[i].key = Key(part, s[i].agent, records[s[i].agent])
    BY <1>6, <1>8 DEF GoodKeys
  <2>3. QED BY <1>1, <2>1, <2>2
<1>9. ASSUME NEW a, Accepts(Part_, a)' PROVE Accepts(Part_, a)
  <2>1. Accepts(part, a)'
    BY <1>6, <1>9 DEF Accepts, Passes
  <2>2. QED BY <1>6, <2>1, HistoryStays
<1>10. QED BY <1>3, <1>4, <1>5, <1>7, <1>8, <1>9

\* The head and the tail of a list of references.
LEMMA TailIs ==
  ASSUME NEW l \in Seq(References), l # <<>>
  PROVE  \E e \in References, t \in Seq(References) :
           /\ e = Head(l) /\ t = Tail(l) /\ l[1] = e /\ 1 \in 1..Len(l)
           /\ Loses(l, t, e.agent) /\ \A i \in 1..Len(t) : t[i] = l[i + 1] /\ i + 1 \in 1..Len(l)
<1>1. Head(l) \in References /\ Tail(l) \in Seq(References)
  OBVIOUS
<1>2. PICK e \in References, t \in Seq(References) : e = Head(l) /\ t = Tail(l)
  BY <1>1, Zenon
<1>3. l[1] = e /\ 1 \in 1..Len(l) /\ Len(t) \in Nat /\ Len(l) = Len(t) + 1
  BY <1>2
<1>4. \A i \in 1..Len(t) : t[i] = l[i + 1] /\ i + 1 \in 1..Len(l)
  BY <1>2, <1>3
<1>5. Loses(l, t, e.agent)
  BY <1>3, <1>4 DEF Loses
<1>6. QED BY <1>2, <1>3, <1>4, <1>5

\* The filter looks at a record.
LEMMA ReadFilterKeeps == ASSUME RoutingKept, ReadFilter PROVE RoutingKept'
<1>1. call \in Calls /\ call.stage = "rank" /\ call.listed # <<>>
  BY DEF RoutingKept, RoutingTyped, ReadFilter
<1>2. PICK l \in Seq(References), p \in Seq(References), d \in Seq(Readings) :
        l = call.listed /\ p = call.kept /\ d = call.keyed
  BY <1>1 DEF Calls
<1>3. PICK e \in References, t \in Seq(References) :
        /\ e = Head(l) /\ t = Tail(l) /\ l[1] = e /\ 1 \in 1..Len(l)
        /\ Loses(l, t, e.agent) /\ \A i \in 1..Len(t) : t[i] = l[i + 1] /\ i + 1 \in 1..Len(l)
  BY <1>1, <1>2, TailIs
<1>4. PICK a \in MeshAgents : a = e.agent
  BY DEF References
<1>5. PICK passes \in BOOLEAN : passes <=> Passes(Part_, call.message, Shown(e))
  OBVIOUS
<1>6. PICK q \in Seq(References) : q = IF passes THEN Append(p, e) ELSE p
  <2>1. Append(p, e) \in Seq(References)
    OBVIOUS
  <2>2. QED BY <2>1
<1>7. call' = [call EXCEPT !.listed = t, !.kept = q] /\ SameTable /\ counter' = counter
  BY <1>2, <1>3, <1>5, <1>6 DEF ReadFilter, SameTable, Part_
<1>8. /\ call' \in Calls /\ call'.stage = "rank" /\ call'.listed = t /\ call'.kept = q
      /\ call'.keyed = d /\ call'.message = call.message
      /\ call'.steady = call.steady /\ call'.reachable = call.reachable
      /\ call'.part = call.part /\ call'.scores = call.scores /\ call'.base = call.base
      /\ call'.missing = call.missing /\ call'.ranked = call.ranked
  BY <1>1, <1>2, <1>7 DEF Calls
<1>9. OnlyLines
  BY <1>1, <1>7, <1>8 DEF OnlyLines, SameHistory
<1>10. /\ InLine(l) /\ InLine(p) /\ InLine(d) /\ Ahead(p, l) /\ Ahead(d, l) /\ Ahead(d, p)
       /\ GoodReferences(l) /\ GoodReferences(p) /\ GoodKeys(d) /\ AllPass(p) /\ AllPass(d)
       /\ \A b \in MeshAgents : Accepts(Part_, b) => Has(l, b) \/ Has(p, b) \/ Has(d, b)
  BY <1>1, <1>2 DEF RoutingKept, LineKept
<1>11. a \in call.reachable /\ (a \in call.steady => e.live)
  BY <1>3, <1>4, <1>10 DEF GoodReferences
<1>12. /\ InLine(t) /\ Ahead(p, t) /\ Ahead(d, t)
       /\ \A b : Has(l, b) => b = a \/ Has(t, b)
       /\ \A i \in 1..Len(t) : Apart(a, t[i].agent)
       /\ \A i \in 1..Len(p) : Apart(p[i].agent, a)
       /\ \A i \in 1..Len(d) : Apart(d[i].agent, a)
  <2>1. Loses(l, t, a)
    BY <1>3, <1>4
  <2>2. InLine(t) /\ Ahead(p, t) /\ Ahead(d, t) /\ \A b : Has(l, b) => b = a \/ Has(t, b)
    BY <1>10, <2>1, LosesKeeps
  <2>3. /\ \A i \in 1..Len(t) : Apart(a, t[i].agent)
        /\ \A i \in 1..Len(p) : Apart(p[i].agent, a)
        /\ \A i \in 1..Len(d) : Apart(d[i].agent, a)
    BY <1>10, <2>1, HeadApart
  <2>4. QED BY <2>2, <2>3
<1>13. GoodReferences(t)
  BY <1>3, <1>10 DEF GoodReferences
<1>14. a \in call.steady => (passes <=> Passes(Part_, call.message, records[a]))
  <2>1. e.live => Shown(e) = records[a]
    BY <1>4 DEF Shown
  <2>2. QED BY <1>5, <1>11, <2>1
<1>15. /\ InLine(q) /\ Ahead(q, t) /\ Ahead(d, q) /\ GoodReferences(q) /\ AllPass(q)
       /\ \A b \in MeshAgents : Accepts(Part_, b) => Has(t, b) \/ Has(q, b) \/ Has(d, b)
  <2>1. CASE passes
    <3>1. PICK n \in Nat : n = Len(p) /\ Len(q) = n + 1 /\ q[n + 1] = e
                           /\ \A i \in 1..n : q[i] = p[i]
      <4>1. q = Append(p, e) /\ Len(p) \in Nat
        BY <1>6, <2>1
      <4>2. QED BY <4>1
    <3>2. Gains(p, q, a)
      BY <1>4, <3>1 DEF Gains
    <3>3. InLine(q)
      BY <1>10, <1>12, <3>2, GainsKeeps
    <3>4. Ahead(q, t) /\ Ahead(d, q)
      BY <1>10, <1>12, <3>2, GainsKeeps
    <3>5. Has(q, a) /\ \A b : Has(p, b) => Has(q, b)
      BY <3>2, GainsKeeps
    <3>6. GoodReferences(q)
      <4>1. SUFFICES ASSUME NEW i \in 1..(n + 1)
                     PROVE  q[i].agent \in call.reachable /\ (q[i].agent \in call.steady => q[i].live)
        BY <3>1 DEF GoodReferences
      <4>2. CASE i = n + 1
        BY <1>4, <1>11, <3>1, <4>2
      <4>3. CASE i \in 1..n
        BY <1>10, <3>1, <4>3 DEF GoodReferences
      <4>4. QED BY <4>2, <4>3
    <3>7. AllPass(q)
      <4>1. SUFFICES ASSUME NEW i \in 1..(n + 1), q[i].agent \in call.steady
                     PROVE  Passes(Part_, call.message, records[q[i].agent])
        BY <3>1 DEF AllPass
      <4>2. CASE i = n + 1
        BY <1>4, <1>14, <2>1, <3>1, <4>1, <4>2
      <4>3. CASE i \in 1..n
        BY <1>10, <3>1, <4>1, <4>3 DEF AllPass
      <4>4. QED BY <4>2, <4>3
    <3>8. QED BY <1>10, <1>12, <3>3, <3>4, <3>5, <3>6, <3>7
  <2>2. CASE ~passes
    <3>1. q = p
      BY <1>6, <2>2
    <3>2. ~Accepts(Part_, a)
      BY <1>14, <2>2 DEF Accepts
    <3>3. \A b \in MeshAgents : Accepts(Part_, b) => Has(t, b) \/ Has(q, b) \/ Has(d, b)
      BY <1>10, <1>12, <3>1, <3>2
    <3>4. QED BY <1>10, <1>12, <3>1, <3>3
  <2>3. QED BY <2>1, <2>2
<1>16. LineKept'
  <2>1. SameHistory /\ call'.part = call.part
    BY <1>9 DEF OnlyLines
  <2>2. InLine(t)' /\ InLine(q)' /\ InLine(d)'
    BY <1>10, <1>12, <1>15, <2>1, LinesTransfer
  <2>3. Ahead(q, t)' /\ Ahead(d, t)' /\ Ahead(d, q)'
    BY <1>10, <1>12, <1>15, <2>1, LinesTransfer
  <2>4. GoodReferences(t)' /\ GoodReferences(q)' /\ GoodKeys(d)' /\ AllPass(q)' /\ AllPass(d)'
    BY <1>10, <1>13, <1>15, <2>1, LinesTransfer
  <2>5. \A b \in MeshAgents : Accepts(Part_, b)' => Has(t, b) \/ Has(q, b) \/ Has(d, b)
    BY <1>15, <2>1, LinesTransfer
  <2>6. QED BY <1>8, <2>2, <2>3, <2>4, <2>5 DEF LineKept, Has
<1>17. QED BY <1>9, <1>16, LinesKeep

\* The sort reads a key.
LEMMA ReadKeyKeeps == ASSUME RoutingKept, ReadKey PROVE RoutingKept'
<1>1. call \in Calls /\ call.stage = "rank" /\ call.listed = <<>> /\ call.kept # <<>>
  BY DEF RoutingKept, RoutingTyped, ReadKey
<1>2. PICK l \in Seq(References), p \in Seq(References), d \in Seq(Readings) :
        l = call.listed /\ p = call.kept /\ d = call.keyed
  BY <1>1 DEF Calls
<1>3. PICK e \in References, t \in Seq(References) :
        /\ e = Head(p) /\ t = Tail(p) /\ p[1] = e /\ 1 \in 1..Len(p)
        /\ Loses(p, t, e.agent) /\ \A i \in 1..Len(t) : t[i] = p[i + 1] /\ i + 1 \in 1..Len(p)
  BY <1>1, <1>2, TailIs
<1>4. PICK a \in MeshAgents : a = e.agent
  BY DEF References
<1>5. PICK key \in Int : key = Key(Part_, a, Shown(e))
  <2>1. Part_.name \in {"capability", "cost", "least_loaded", "round_robin"}
    <3>1. router \in Routers /\ call.part \in 1..Len(router.parts)
      BY <1>1 DEF RoutingKept, RoutingTyped, StageKept
    <3>2. QED BY <3>1, RouterIs DEF Part_
  <2>2. Shown(e) \in AgentRecords
    BY <1>4 DEF Shown, References, RoutingKept, RoutingTyped
  <2>3. QED BY <2>1, <2>2, KeyType
<1>6. PICK q \in Seq(Readings) :
        /\ q = Append(d, [agent |-> a, key |-> key]) /\ Len(d) \in Nat /\ Len(q) = Len(d) + 1
        /\ q[Len(d) + 1] = [agent |-> a, key |-> key] /\ \A i \in 1..Len(d) : q[i] = d[i]
  <2>1. PICK r \in Readings : r = [agent |-> a, key |-> key]
    BY DEF Readings
  <2>2. Append(d, r) \in Seq(Readings)
    OBVIOUS
  <2>3. PICK q \in Seq(Readings) : q = Append(d, r)
    BY <2>2, Zenon
  <2>4. Len(d) \in Nat /\ Len(q) = Len(d) + 1 /\ q[Len(d) + 1] = r
    BY <2>3
  <2>5. \A i \in 1..Len(d) : q[i] = d[i]
    BY <2>3
  <2>6. QED BY <2>1, <2>3, <2>4, <2>5, Zenon
<1>7. call' = [call EXCEPT !.kept = t, !.keyed = q] /\ SameTable /\ counter' = counter
  BY <1>2, <1>3, <1>4, <1>5, <1>6 DEF ReadKey, SameTable, Part_
<1>8. /\ call' \in Calls /\ call'.stage = "rank" /\ call'.listed = l /\ call'.kept = t
      /\ call'.keyed = q /\ call'.message = call.message
      /\ call'.steady = call.steady /\ call'.reachable = call.reachable
      /\ call'.part = call.part /\ call'.scores = call.scores /\ call'.base = call.base
      /\ call'.missing = call.missing /\ call'.ranked = call.ranked
  BY <1>1, <1>2, <1>7 DEF Calls
<1>9. OnlyLines
  BY <1>1, <1>7, <1>8 DEF OnlyLines, SameHistory
<1>10. /\ InLine(l) /\ InLine(p) /\ InLine(d) /\ Ahead(p, l) /\ Ahead(d, l) /\ Ahead(d, p)
       /\ GoodReferences(l) /\ GoodReferences(p) /\ GoodKeys(d) /\ AllPass(p) /\ AllPass(d)
       /\ \A b \in MeshAgents : Accepts(Part_, b) => Has(l, b) \/ Has(p, b) \/ Has(d, b)
  BY <1>1, <1>2 DEF RoutingKept, LineKept
<1>11. /\ a \in call.reachable /\ (a \in call.steady => e.live)
       /\ a \in call.steady => Passes(Part_, call.message, records[a])
  BY <1>3, <1>4, <1>10 DEF GoodReferences, AllPass
<1>12. /\ InLine(t) /\ Ahead(d, t)
       /\ \A b : Has(p, b) => b = a \/ Has(t, b)
       /\ \A i \in 1..Len(t) : Apart(a, t[i].agent)
       /\ \A i \in 1..Len(d) : Apart(d[i].agent, a)
  <2>1. Loses(p, t, a)
    BY <1>3, <1>4
  <2>2. InLine(t) /\ Ahead(d, t) /\ \A b : Has(p, b) => b = a \/ Has(t, b)
    BY <1>10, <2>1, LosesKeeps
  <2>3. /\ \A i \in 1..Len(t) : Apart(a, t[i].agent)
        /\ \A i \in 1..Len(d) : Apart(d[i].agent, a)
    BY <1>10, <2>1, HeadApart
  <2>4. QED BY <2>2, <2>3
<1>13. GoodReferences(t) /\ AllPass(t)
  BY <1>3, <1>10 DEF GoodReferences, AllPass
<1>14. Len(l) = 0
  BY <1>1, <1>2
<1>15. Gains(d, q, a)
  BY <1>6 DEF Gains
<1>16. InLine(q) /\ Ahead(q, t) /\ Has(q, a) /\ \A b : Has(d, b) => Has(q, b)
  BY <1>10, <1>12, <1>15, GainsKeeps
<1>17. Ahead(t, l) /\ Ahead(q, l)
  BY <1>14 DEF Ahead
<1>18. \A i \in 1..Len(q) : i = Len(d) + 1 \/ i \in 1..Len(d)
  BY <1>6
<1>19. GoodKeys(q)
  <2>1. SUFFICES ASSUME NEW i \in 1..Len(q)
                 PROVE  /\ q[i].agent \in call.reachable
                        /\ q[i].agent \in call.steady =>
                             q[i].key = Key(Part_, q[i].agent, records[q[i].agent])
    BY DEF GoodKeys
  <2>2. CASE i = Len(d) + 1
    <3>1. q[i].agent = a /\ q[i].key = key
      BY <1>6, <2>2
    <3>2. a \in call.steady => Shown(e) = records[a]
      BY <1>4, <1>11 DEF Shown
    <3>3. QED BY <1>5, <1>11, <3>1, <3>2
  <2>3. CASE i \in 1..Len(d)
    BY <1>6, <1>10, <2>3 DEF GoodKeys
  <2>4. QED BY <1>18, <2>2, <2>3
<1>20. AllPass(q)
  <2>1. SUFFICES ASSUME NEW i \in 1..Len(q), q[i].agent \in call.steady
                 PROVE  Passes(Part_, call.message, records[q[i].agent])
    BY DEF AllPass
  <2>2. CASE i = Len(d) + 1
    BY <1>6, <1>11, <2>1, <2>2
  <2>3. CASE i \in 1..Len(d)
    BY <1>6, <1>10, <2>1, <2>3 DEF AllPass
  <2>4. QED BY <1>18, <2>2, <2>3
<1>21. LineKept'
  <2>1. SameHistory /\ call'.part = call.part
    BY <1>9 DEF OnlyLines
  <2>2. InLine(l)' /\ InLine(t)' /\ InLine(q)'
    BY <1>10, <1>12, <1>16, <2>1, LinesTransfer
  <2>3. Ahead(t, l)' /\ Ahead(q, l)' /\ Ahead(q, t)'
    BY <1>16, <1>17, <2>1, LinesTransfer
  <2>4. GoodReferences(l)' /\ GoodReferences(t)' /\ GoodKeys(q)' /\ AllPass(t)' /\ AllPass(q)'
    BY <1>10, <1>13, <1>19, <1>20, <2>1, LinesTransfer
  <2>5. \A b \in MeshAgents : Accepts(Part_, b)' => Has(l, b) \/ Has(t, b) \/ Has(q, b)
    BY <1>10, <1>12, <1>16, <2>1, LinesTransfer
  <2>6. QED BY <1>8, <2>2, <2>3, <2>4, <2>5 DEF LineKept, Has
<1>22. QED BY <1>9, <1>21, LinesKeep

-----------------------------------------------------------------------------
\* What the part in progress will answer: agents of the readings, among them all that it
\* accepts and nobody touched, in the order of their keys.
LEMMA RankedIs ==
  ASSUME RoutingKept, call.stage = "rank", call.listed = <<>>, call.kept = <<>>
  PROVE  \E r \in Seq(MeshAgents) :
           /\ r = Ranking(Part_, call.keyed) /\ IsInjective(r)
           /\ \A i \in 1..Len(r) : r[i] \in call.reachable
           /\ \A i \in 1..Len(r) : r[i] \in call.steady => Accepts(Part_, r[i])
           /\ \A a \in MeshAgents : Accepts(Part_, a) => \E i \in 1..Len(r) : r[i] = a
           /\ Part_.name # "round_robin" =>
                \A i, j \in 1..Len(r) :
                  i < j /\ r[i] \in call.steady /\ r[j] \in call.steady =>
                    \/ Key(Part_, r[i], records[r[i]]) < Key(Part_, r[j], records[r[j]])
                    \/ /\ Key(Part_, r[i], records[r[i]]) = Key(Part_, r[j], records[r[j]])
                       /\ Earlier(r[i], r[j])
<1>1. PICK d \in Seq(Readings) : d = call.keyed
  BY DEF RoutingKept, RoutingTyped, Calls
<1>2. /\ InLine(d) /\ GoodKeys(d) /\ AllPass(d)
      /\ \A a \in MeshAgents : Accepts(Part_, a) => Has(d, a)
  <2>1. InLine(d) /\ GoodKeys(d) /\ AllPass(d)
    BY <1>1 DEF RoutingKept, LineKept
  <2>2. \A a : ~Has(<<>>, a)
    BY DEF Has
  <2>3. \A a \in MeshAgents : Accepts(Part_, a) => Has(call.listed, a) \/ Has(call.kept, a) \/ Has(d, a)
    BY <1>1 DEF RoutingKept, LineKept
  <2>4. \A a : ~Has(call.listed, a) /\ ~Has(call.kept, a)
    BY <2>2
  <2>5. QED BY <2>1, <2>3, <2>4
<1>3. PICK n \in Nat : n = Len(d)
  OBVIOUS
<1>4. ASSUME NEW i \in 1..n, NEW j \in 1..n, d[i].agent = d[j].agent PROVE i = j
  <2>1. ASSUME NEW x \in 1..n, NEW y \in 1..n, x < y PROVE d[x].agent # d[y].agent
    BY <1>2, <1>3, <2>1 DEF InLine, Apart
  <2>2. ~(i < j) /\ ~(j < i)
    BY <1>4, <2>1
  <2>3. QED BY <2>2
<1>5. counter \in Nat
  BY RoutingAssumption DEF RoutingKept, RoutingTyped
<1>6. PICK r : r = Ranking(Part_, d)
  OBVIOUS
<1>7. NamesThem(r, d) /\ (Part_.name # "round_robin" => ByKey(r, d))
  BY <1>3, <1>4, <1>5, <1>6, RankingIs
<1>8. /\ r \in Seq(MeshAgents) /\ Len(r) = n /\ IsInjective(r)
      /\ \A a : (\E i \in 1..n : r[i] = a) <=> \E i \in 1..n : d[i].agent = a
  BY <1>3, <1>7 DEF NamesThem
<1>9. \A i \in 1..n : d[i].agent \in call.reachable
  BY <1>2, <1>3 DEF GoodKeys
<1>10. ASSUME NEW i \in 1..n, d[i].agent \in call.steady PROVE Accepts(Part_, d[i].agent)
  <2>1. records[d[i].agent].healthy
    BY <1>9, <1>10 DEF RoutingKept, HistoryKept
  <2>2. Passes(Part_, call.message, records[d[i].agent])
    BY <1>2, <1>3, <1>10 DEF AllPass
  <2>3. QED BY <1>10, <2>1, <2>2 DEF Accepts
<1>11. /\ \A i \in 1..n : r[i] \in call.reachable
       /\ \A i \in 1..n : r[i] \in call.steady => Accepts(Part_, r[i])
  <2>1. SUFFICES ASSUME NEW i \in 1..n
                 PROVE  r[i] \in call.reachable /\ (r[i] \in call.steady => Accepts(Part_, r[i]))
    OBVIOUS
  <2>2. PICK x \in 1..n : d[x].agent = r[i]
    BY <1>8
  <2>3. QED BY <1>9, <1>10, <2>2
<1>12. \A a \in MeshAgents : Accepts(Part_, a) => \E i \in 1..n : r[i] = a
  BY <1>2, <1>3, <1>8 DEF Has
<1>13. ASSUME Part_.name # "round_robin",
              NEW i \in 1..n, NEW j \in 1..n, i < j, r[i] \in call.steady, r[j] \in call.steady
       PROVE  \/ Key(Part_, r[i], records[r[i]]) < Key(Part_, r[j], records[r[j]])
              \/ /\ Key(Part_, r[i], records[r[i]]) = Key(Part_, r[j], records[r[j]])
                 /\ Earlier(r[i], r[j])
  <2>1. PICK x \in 1..n, y \in 1..n :
          /\ r[i] = d[x].agent /\ r[j] = d[y].agent
          /\ d[x].key < d[y].key \/ (d[x].key = d[y].key /\ x < y)
    <3>1. ASSUME NEW rr, NEW dd, ByKey(rr, dd), Len(rr) = n, Len(dd) = n, NEW b, NEW c,
                 b = rr[i], c = rr[j]
          PROVE  \E x, y \in 1..n :
                   /\ b = dd[x].agent /\ c = dd[y].agent
                   /\ dd[x].key < dd[y].key \/ (dd[x].key = dd[y].key /\ x < y)
      <4>1. i \in 1..Len(rr) /\ j \in 1..Len(rr) /\ i < j
        BY <1>13, <3>1
      <4>2. PICK x \in 1..Len(dd), y \in 1..Len(dd) :
              /\ rr[i] = dd[x].agent /\ rr[j] = dd[y].agent
              /\ dd[x].key < dd[y].key \/ (dd[x].key = dd[y].key /\ x < y)
        BY <3>1, <4>1, Zenon DEF ByKey
      <4>3. x \in 1..n /\ y \in 1..n
        BY <3>1
      <4>4. QED BY <3>1, <4>2, <4>3
    <3>2. ByKey(r, d) /\ Len(r) = n /\ Len(d) = n
      BY <1>3, <1>7, <1>8, <1>13
    <3>3. QED BY <3>1, <3>2
  <2>2. /\ d[x].key = Key(Part_, r[i], records[r[i]])
        /\ d[y].key = Key(Part_, r[j], records[r[j]])
    BY <1>2, <1>3, <1>13, <2>1 DEF GoodKeys
  <2>3. x < y => Earlier(r[i], r[j])
    <3>1. x < y => Apart(d[x].agent, d[y].agent)
      BY <1>2, <1>3 DEF InLine
    <3>2. QED BY <1>13, <2>1, <3>1 DEF Apart
  <2>4. QED BY <2>1, <2>2, <2>3
<1>14. QED BY <1>1, <1>6, <1>8, <1>11, <1>12, <1>13

\* Products of natural numbers.
LEMMA ProductGrows ==
  ASSUME NEW v \in Nat, NEW x \in Nat, NEW y \in Nat
  PROVE  v * x \in Nat /\ (v > 0 /\ x > y => v * x > v * y)
<1>1. v * x \in Nat
  OBVIOUS
<1>2. ASSUME v > 0, x > y PROVE v * x > v * y
  <2>1. PICK z \in Nat : x = y + z /\ z > 0
    <3>1. x - y \in Nat /\ x = y + (x - y) /\ x - y > 0
      BY <1>2
    <3>2. QED BY <3>1
  <2>2. v * x = v * y + v * z
    BY <2>1
  <2>3. v * z > 0 /\ v * z \in Nat /\ v * y \in Nat
    BY <1>2, <2>1
  <2>4. QED BY <2>2, <2>3
<1>3. QED BY <1>1, <1>2

\* A score is at least a turn.
LEMMA TurnsShared ==
  ASSUME NEW r \in Seq(MeshAgents), IsInjective(r), r # <<>>
  PROVE  Turns \div Len(r) \in Nat \ {0}
<1>1. PICK n \in Nat \ {0} : n = Len(r) /\ DOMAIN r = 1..n
  OBVIOUS
<1>2. n <= Cardinality(MeshAgents)
  <2>1. r \in Injection(1..n, MeshAgents)
    BY <1>1 DEF Injection, IsInjective
  <2>2. IsFiniteSet(1..n) /\ Cardinality(1..n) = n /\ IsFiniteSet(MeshAgents)
    BY FS_Interval, RoutingAssumption
  <2>3. QED BY <2>1, <2>2, FS_Injection
<1>3. Turns \in Nat \ {0} /\ Turns % n = 0
  <2>1. Cardinality(MeshAgents) \in Nat
    BY RoutingAssumption, FS_CardinalityType
  <2>2. n \in 1..Cardinality(MeshAgents)
    BY <1>2, <2>1
  <2>3. QED BY <2>2, RoutingAssumption
<1>4. Turns \div n \in Nat \ {0}
  BY <1>3
<1>5. QED BY <1>1, <1>4

\* Nobody loses, and who is in the answer of a part gains, the more the further ahead.
ScoresGrow(s, scores, r, w) ==
  /\ \A a \in MeshAgents : s[a] >= scores[a]
  /\ \A a \in MeshAgents : (\A i \in 1..Len(r) : r[i] # a) => s[a] = scores[a]
  /\ w > 0 => \A i \in 1..Len(r) : r[i] \in Range(call.base) =>
       /\ s[r[i]] > scores[r[i]]
       /\ \A j \in 1..Len(r) : i < j => s[r[i]] - scores[r[i]] > s[r[j]] - scores[r[j]]

\* The scores after a part.
LEMMA ScoredIs ==
  ASSUME NEW r \in Seq(MeshAgents), IsInjective(r), NEW w \in Nat,
         NEW scores \in [MeshAgents -> Nat]
  PROVE  \E s \in [MeshAgents -> Nat] :
           s = Scored(scores, r, w) /\ ScoresGrow(s, scores, r, w)
<1>1. PICK n \in Nat : n = Len(r) /\ DOMAIN r = 1..n /\ r \in [1..n -> MeshAgents]
  OBVIOUS
<1>2. \A i, j \in 1..n : r[i] = r[j] => i = j
  BY <1>1 DEF IsInjective
<1>3. PICK v \in Nat : /\ n > 0 => v = w * (Turns \div n)
                       /\ n > 0 /\ w > 0 => v > 0
  <2>1. CASE n = 0
    BY <2>1
  <2>2. CASE n > 0
    <3>1. PICK u \in Nat \ {0} : u = Turns \div n
      <4>1. r # <<>>
        BY <1>1, <2>2
      <4>2. QED BY <1>1, <4>1, TurnsShared
    <3>2. w * u \in Nat /\ (w > 0 => w * u > 0)
      OBVIOUS
    <3>3. QED BY <3>1, <3>2
  <2>3. QED BY <2>1, <2>2
<1>4. PICK s : s = Scored(scores, r, w)
  OBVIOUS
<1>5. ASSUME NEW a \in MeshAgents, \A i \in 1..n : r[i] # a PROVE s[a] = scores[a]
  BY <1>1, <1>4, <1>5 DEF Scored, Range
<1>6. ASSUME NEW i \in 1..n
      PROVE  s[r[i]] = IF r[i] \in Range(call.base) THEN scores[r[i]] + v * (n + 1 - i)
                                                   ELSE scores[r[i]]
  <2>1. r[i] \in Range(r) /\ r[i] \in MeshAgents
    BY <1>1 DEF Range
  <2>2. {j \in DOMAIN r : r[j] = r[i]} = {i}
    BY <1>1, <1>2
  <2>3. Min({i}) = i
    BY DEF Min
  <2>4. w * (Turns \div n) = v
    BY <1>3
  <2>5. s[r[i]] = IF r[i] \in Range(call.base)
                    THEN scores[r[i]] + w * (Turns \div n) * (n + 1 - Min({j \in DOMAIN r : r[j] = r[i]}))
                    ELSE scores[r[i]]
    BY <1>1, <1>4, <2>1 DEF Scored
  <2>6. QED BY <2>2, <2>3, <2>4, <2>5
<1>7. \A i \in 1..n : n + 1 - i \in Nat \ {0} /\ v * (n + 1 - i) \in Nat
  OBVIOUS
<1>8. ASSUME NEW a \in MeshAgents PROVE s[a] \in Nat /\ s[a] >= scores[a]
  <2>1. CASE \E i \in 1..n : r[i] = a
    <3>1. PICK i \in 1..n : r[i] = a
      BY <2>1
    <3>2. PICK g \in Nat : g = v * (n + 1 - i)
      BY <1>7
    <3>3. s[a] = scores[a] + g \/ s[a] = scores[a]
      BY <1>6, <3>1, <3>2
    <3>4. scores[a] \in Nat
      OBVIOUS
    <3>5. QED BY <3>3, <3>4
  <2>2. CASE \A i \in 1..n : r[i] # a
    BY <1>5, <2>2
  <2>3. QED BY <2>1, <2>2
<1>9. s \in [MeshAgents -> Nat]
  <2>1. s = [a \in MeshAgents |-> s[a]]
    BY <1>4 DEF Scored
  <2>2. QED BY <1>8, <2>1
<1>10. ASSUME w > 0, NEW i \in 1..n, r[i] \in Range(call.base)
       PROVE  /\ s[r[i]] > scores[r[i]]
              /\ \A j \in 1..n : i < j => s[r[i]] - scores[r[i]] > s[r[j]] - scores[r[j]]
  <2>1. PICK g \in Nat \ {0} : g = v * (n + 1 - i) /\ s[r[i]] = scores[r[i]] + g
    <3>1. v * (n + 1 - i) \in Nat \ {0}
      BY <1>3, <1>7, <1>10
    <3>2. QED BY <1>6, <1>10, <3>1
  <2>2. scores[r[i]] \in Nat
    BY <1>1
  <2>3. s[r[i]] > scores[r[i]] /\ s[r[i]] - scores[r[i]] = g
    BY <2>1, <2>2
  <2>4. ASSUME NEW j \in 1..n, i < j PROVE g > s[r[j]] - scores[r[j]]
    <3>1. scores[r[j]] \in Nat
      BY <1>1
    <3>2. CASE r[j] \in Range(call.base)
      <4>1. PICK x \in Nat, y \in Nat : x = n + 1 - i /\ y = n + 1 - j /\ x > y
        BY <2>4
      <4>2. v * x > v * y /\ v * y \in Nat
        BY <1>3, <1>10, <4>1, ProductGrows
      <4>3. s[r[j]] = scores[r[j]] + v * y
        BY <1>6, <3>2, <4>1
      <4>4. QED BY <2>1, <3>1, <4>1, <4>2, <4>3
    <3>3. CASE r[j] \notin Range(call.base)
      BY <1>6, <3>1, <3>3
    <3>4. QED BY <3>2, <3>3
  <2>5. QED BY <2>3, <2>4
<1>11. ScoresGrow(s, scores, r, w)
  BY <1>1, <1>5, <1>8, <1>10 DEF ScoresGrow
<1>12. QED BY <1>4, <1>9, <1>11

\* The candidates with a positive score, highest first.
LEMMA ByScoreIs ==
  ASSUME call.base \in Seq(MeshAgents), IsInjective(call.base), NEW s \in [MeshAgents -> Nat]
  PROVE  \E r \in Seq(MeshAgents) :
           /\ r = ByScore(s) /\ IsInjective(r)
           /\ \A a \in MeshAgents : (\E i \in 1..Len(r) : r[i] = a)
                                      <=> s[a] > 0 /\ \E i \in 1..Len(call.base) : call.base[i] = a
           /\ \A i, j \in 1..Len(r) : i < j => s[r[i]] >= s[r[j]]
<1>1. PICK base \in Seq(MeshAgents) : base = call.base /\ IsInjective(base)
  OBVIOUS
<1>2. PICK set : set = {a \in MeshAgents : s[a] > 0}
  OBVIOUS
<1>3. PICK t \in Seq(MeshAgents) :
        /\ t = Those(base, set)
        /\ IsInjective(t)
        /\ \A a : (\E i \in DOMAIN t : t[i] = a) <=> a \in set /\ \E i \in DOMAIN base : base[i] = a
  <2>1. PICK t \in Seq(MeshAgents) :
          /\ t = Those(base, set)
          /\ IsInjective(t)
          /\ \A a : (\E i \in DOMAIN t : t[i] = a)
                     <=> a \in set /\ \E i \in DOMAIN base : base[i] = a
          /\ \A i, j \in DOMAIN t : i < j =>
               \E x, y \in DOMAIN base : x < y /\ base[x] = t[i] /\ base[y] = t[j]
    BY <1>1, ThoseAre, Zenon
  <2>2. QED BY <2>1, Zenon
<1>4. PICK n \in Nat : n = Len(t) /\ DOMAIN t = 1..n /\ t \in [1..n -> MeshAgents]
  OBVIOUS
<1> DEFINE keyed == [i \in 1..n |-> [agent |-> t[i], key |-> -s[t[i]]]]
<1>5. ByScore(s) = Sorted(keyed)
  BY <1>1, <1>2, <1>3, <1>4 DEF ByScore
<1>6. \A i \in 1..n : /\ keyed[i] \in Readings /\ keyed[i].agent = t[i] /\ keyed[i].key = -s[t[i]]
                      /\ s[t[i]] \in Nat
  BY <1>4 DEF Readings
<1>7. keyed \in [1..n -> Readings]
  BY <1>6
<1> HIDE DEF keyed
<1>8. PICK d \in Seq(Readings) : d = keyed /\ Len(d) = n
  <2>1. keyed \in Seq(Readings) /\ Len(keyed) = n
    BY <1>7
  <2>2. QED BY <2>1, Zenon
<1>9. \A i, j \in 1..n : d[i].agent = d[j].agent => i = j
  <2>1. \A i \in 1..n : d[i].agent = t[i]
    BY <1>6, <1>8
  <2>2. \A i, j \in 1..n : t[i] = t[j] => i = j
    BY <1>3, <1>4 DEF IsInjective
  <2>3. QED BY <2>1, <2>2
<1>10. PICK r : r = ByScore(s) /\ NamesThem(r, d) /\ ByKey(r, d)
  BY <1>5, <1>8, <1>9, SortedIs
<1>11. /\ r \in Seq(MeshAgents) /\ Len(r) = n /\ IsInjective(r)
       /\ \A a : (\E i \in 1..n : r[i] = a) <=> \E i \in 1..n : d[i].agent = a
  BY <1>8, <1>10 DEF NamesThem
<1>12. ASSUME NEW a \in MeshAgents
       PROVE  (\E i \in 1..n : r[i] = a) <=> s[a] > 0 /\ \E i \in 1..Len(base) : base[i] = a
  <2>1. (\E i \in 1..n : r[i] = a) <=> \E i \in 1..n : t[i] = a
    <3>1. \A i \in 1..n : d[i].agent = t[i]
      BY <1>6, <1>8
    <3>2. (\E i \in 1..n : r[i] = a) <=> \E i \in 1..n : d[i].agent = a
      BY <1>11
    <3>3. QED BY <3>1, <3>2
  <2>2. DOMAIN base = 1..Len(base)
    OBVIOUS
  <2>3. (\E i \in 1..n : t[i] = a) <=> a \in set /\ \E i \in 1..Len(base) : base[i] = a
    BY <1>3, <1>4, <2>2, Zenon
  <2>4. a \in set <=> s[a] > 0
    BY <1>2
  <2>5. QED BY <2>1, <2>3, <2>4
<1>13. ASSUME NEW i \in 1..n, NEW j \in 1..n, i < j PROVE s[r[i]] >= s[r[j]]
  <2>1. PICK x \in 1..n, y \in 1..n :
          /\ r[i] = d[x].agent /\ r[j] = d[y].agent
          /\ d[x].key < d[y].key \/ (d[x].key = d[y].key /\ x < y)
    <3>1. i \in 1..Len(r) /\ j \in 1..Len(r) /\ i < j
      BY <1>11, <1>13
    <3>2. PICK x \in 1..Len(d), y \in 1..Len(d) :
            /\ r[i] = d[x].agent /\ r[j] = d[y].agent
            /\ d[x].key < d[y].key \/ (d[x].key = d[y].key /\ x < y)
      BY <1>10, <3>1, Zenon DEF ByKey
    <3>3. 1..Len(d) = 1..n
      BY <1>8, Zenon
    <3>4. QED BY <3>2, <3>3
  <2>2. PICK u \in Nat, v \in Nat : u = s[r[i]] /\ v = s[r[j]]
    BY <1>6, <1>8, <2>1
  <2>3. d[x].key = -u /\ d[y].key = -v
    BY <1>6, <1>8, <2>1, <2>2
  <2>4. -u < -v \/ -u = -v
    BY <2>1, <2>3
  <2>5. u >= v
    BY <2>4
  <2>6. QED BY <2>2, <2>5
<1>14. \A a \in MeshAgents : (\E i \in 1..Len(r) : r[i] = a)
                               <=> s[a] > 0 /\ \E i \in 1..Len(call.base) : call.base[i] = a
  BY <1>1, <1>11, <1>12
<1>15. \A i, j \in 1..Len(r) : i < j => s[r[i]] >= s[r[j]]
  BY <1>11, <1>13
<1>16. r \in Seq(MeshAgents) /\ r = ByScore(s) /\ IsInjective(r)
  BY <1>10, <1>11
<1>17. QED BY <1>14, <1>15, <1>16, Zenon

\* The scores after the part in progress of a composite strategy.
LEMMA PartScored ==
  ASSUME RoutingKept, call.stage = "rank", call.listed = <<>>, call.kept = <<>>,
         router.composite
  PROVE  \E s \in [MeshAgents -> Nat] :
           /\ s = Scored(call.scores, Ranking(Part_, call.keyed), router.weights[call.part])
           /\ \A k \in 1..call.part : router.weights[k] > 0 =>
                \A a \in MeshAgents : Accepts(router.parts[k], a) => s[a] > 0
           /\ \A a, b \in call.steady :
                (\A k \in 1..call.part : Beats(k, a, b)) => s[a] > s[b]
<1>1. PICK r \in Seq(MeshAgents) :
        /\ r = Ranking(Part_, call.keyed) /\ IsInjective(r)
        /\ \A i \in 1..Len(r) : r[i] \in call.steady => Accepts(Part_, r[i])
        /\ \A a \in MeshAgents : Accepts(Part_, a) => \E i \in 1..Len(r) : r[i] = a
        /\ Part_.name # "round_robin" =>
             \A i, j \in 1..Len(r) :
               i < j /\ r[i] \in call.steady /\ r[j] \in call.steady =>
                 \/ Key(Part_, r[i], records[r[i]]) < Key(Part_, r[j], records[r[j]])
                 \/ /\ Key(Part_, r[i], records[r[i]]) = Key(Part_, r[j], records[r[j]])
                    /\ Earlier(r[i], r[j])
  BY RankedIs
<1>2. PICK p \in Nat \ {0} : p = call.part /\ p \in 1..Len(router.parts)
  BY DEF RoutingKept, StageKept
<1>3. PICK w \in Nat : w = router.weights[p]
  BY <1>2, RouterIs DEF RoutingKept, RoutingTyped
<1>4. PICK old \in [MeshAgents -> Nat] : old = call.scores
  BY DEF RoutingKept, RoutingTyped, Calls
<1>5. PICK s \in [MeshAgents -> Nat] :
        s = Scored(old, r, w) /\ ScoresGrow(s, old, r, w)
  BY <1>1, ScoredIs
<1>6. /\ \A a \in call.steady : records[a].healthy => a \in Range(call.base)
      /\ \A k \in 1..(p - 1) : router.weights[k] > 0 =>
           \A a \in MeshAgents : Accepts(router.parts[k], a) => old[a] > 0
      /\ \A a, b \in call.steady : (\A k \in 1..(p - 1) : Beats(k, a, b)) => old[a] >= old[b]
  <2>1. PICK base \in Seq(MeshAgents) : base = call.base
    BY DEF RoutingKept, RoutingTyped, Calls
  <2>2. \A a \in call.steady : records[a].healthy => \E i \in 1..Len(base) : base[i] = a
    BY <2>1 DEF RoutingKept, ScoresKept
  <2>3. \A i \in 1..Len(base) : base[i] \in Range(base)
    BY DEF Range
  <2>4. \A a \in call.steady : records[a].healthy => a \in Range(call.base)
    <3>1. \A a \in call.steady : records[a].healthy => a \in Range(base)
      BY <2>2, <2>3, Zenon
    <3>2. QED BY <2>1, <3>1, Zenon
  <2>5. /\ \A k \in 1..(p - 1) : router.weights[k] > 0 =>
             \A a \in MeshAgents : Accepts(router.parts[k], a) => old[a] > 0
        /\ \A a, b \in call.steady : (\A k \in 1..(p - 1) : Beats(k, a, b)) => old[a] >= old[b]
    BY <1>2, <1>4 DEF RoutingKept, ScoresKept
  <2>6. QED BY <2>4, <2>5
<1>7. Part_ = router.parts[p]
  BY <1>2 DEF Part_
<1>8. ASSUME NEW a \in MeshAgents, Accepts(Part_, a), w > 0
      PROVE  \E i \in 1..Len(r) : r[i] = a /\ r[i] \in Range(call.base) /\ s[a] > old[a]
  <2>1. PICK i \in 1..Len(r) : r[i] = a
    BY <1>1, <1>8
  <2>2. a \in Range(call.base)
    BY <1>6, <1>8 DEF Accepts
  <2>3. s[r[i]] > old[r[i]]
    BY <1>5, <1>8, <2>1, <2>2 DEF ScoresGrow
  <2>4. QED BY <2>1, <2>2, <2>3
<1>9. ASSUME NEW k \in 1..p, router.weights[k] > 0,
             NEW a \in MeshAgents, Accepts(router.parts[k], a)
      PROVE  s[a] > 0
  <2>1. s[a] \in Nat /\ old[a] \in Nat /\ s[a] >= old[a]
    BY <1>5 DEF ScoresGrow
  <2>2. CASE k = p
    <3>1. s[a] > old[a]
      BY <1>3, <1>7, <1>8, <1>9, <2>2
    <3>2. QED BY <2>1, <3>1
  <2>3. CASE k # p
    <3>1. k \in 1..(p - 1)
      BY <2>3
    <3>2. old[a] > 0
      BY <1>6, <1>9, <3>1
    <3>3. QED BY <2>1, <3>2
  <2>4. QED BY <2>2, <2>3
<1>10. ASSUME NEW a \in call.steady, NEW b \in call.steady,
              \A k \in 1..p : Beats(k, a, b)
       PROVE  s[a] > s[b]
  <2>1. a \in MeshAgents /\ b \in MeshAgents
    BY DEF RoutingKept, RoutingTyped, Calls
  <2>2. s[a] \in Nat /\ s[b] \in Nat /\ old[a] \in Nat /\ old[b] \in Nat
    BY <2>1
  <2>3. old[a] >= old[b]
    <3>1. \A k \in 1..(p - 1) : k \in 1..p
      OBVIOUS
    <3>2. QED BY <1>6, <1>10, <3>1
  <2>4. /\ w > 0 /\ Part_.name # "round_robin" /\ Accepts(Part_, a)
        /\ Accepts(Part_, b) => Key(Part_, a, records[a]) < Key(Part_, b, records[b])
    <3>1. Beats(p, a, b)
      BY <1>10
    <3>2. QED BY <1>3, <1>7, <3>1 DEF Beats
  <2>5. PICK i \in 1..Len(r) : r[i] = a /\ r[i] \in Range(call.base) /\ s[a] > old[a]
    BY <1>8, <2>1, <2>4
  <2>6. CASE \A j \in 1..Len(r) : r[j] # b
    <3>1. s[b] = old[b]
      BY <1>5, <2>1, <2>6 DEF ScoresGrow
    <3>2. QED BY <2>2, <2>3, <2>5, <3>1
  <2>7. CASE \E j \in 1..Len(r) : r[j] = b
    <3>1. PICK j \in 1..Len(r) : r[j] = b
      BY <2>7
    <3>2. Accepts(Part_, b)
      BY <1>1, <3>1
    <3>3. PICK x \in Int, y \in Int : /\ x = Key(Part_, a, records[a])
                                      /\ y = Key(Part_, b, records[b]) /\ x < y
      <4>1. Part_.name \in {"capability", "cost", "least_loaded", "round_robin"}
        BY <1>2, <1>7, RouterIs DEF RoutingKept, RoutingTyped
      <4>2. records[a] \in AgentRecords /\ records[b] \in AgentRecords
        BY <2>1 DEF RoutingKept, RoutingTyped
      <4>3. Key(Part_, a, records[a]) \in Int /\ Key(Part_, b, records[b]) \in Int
        <5>1. PICK ra \in AgentRecords, rb \in AgentRecords :
                ra = records[a] /\ rb = records[b]
          BY <4>2
        <5>2. Key(Part_, a, ra) \in Int
          BY <2>1, <4>1, <5>1, KeyType
        <5>3. Key(Part_, b, rb) \in Int
          BY <2>1, <4>1, <5>1, KeyType
        <5>4. QED BY <5>1, <5>2, <5>3
      <4>4. QED BY <2>4, <3>2, <4>3
    <3>4. ~(j < i)
      <4>1. ASSUME j < i PROVE y < x \/ y = x
        BY <1>1, <2>4, <2>5, <3>1, <3>3, <4>1
      <4>2. QED BY <3>3, <4>1
    <3>5. j # i
      BY <2>5, <3>1, <3>3
    <3>6. i < j
      BY <3>4, <3>5
    <3>7. s[a] - old[a] > s[b] - old[b]
      BY <1>5, <2>4, <2>5, <3>1, <3>6 DEF ScoresGrow
    <3>8. PICK sa \in Nat, sb \in Nat, oa \in Nat, ob \in Nat :
            sa = s[a] /\ sb = s[b] /\ oa = old[a] /\ ob = old[b]
      BY <2>2
    <3>9. sa - oa > sb - ob /\ oa >= ob
      BY <2>3, <3>7, <3>8
    <3>10. sa > sb
      BY <3>9
    <3>11. QED BY <3>8, <3>10
  <2>8. QED BY <2>6, <2>7
<1>11. QED BY <1>1, <1>2, <1>3, <1>4, <1>5, <1>9, <1>10

\* The answer of a call in its ranking is no longer about the receiver.
LEMMA AnswerFollows ==
  ASSUME RoutingKept, SameHistory, call.stage = "rank", call'.stage = "done",
         call'.missing = call.missing, NEW r \in Seq(MeshAgents), call'.ranked = r,
         IsInjective(r), \A i \in 1..Len(r) : r[i] \in call.reachable,
         AllNamed', InKeyOrder', Unbeaten'
  PROVE  LineKept' /\ ScoresKept' /\ StageKept' /\ AnswerKept'
<1>1. /\ router' = router /\ records' = records
      /\ call'.steady = call.steady /\ call'.reachable = call.reachable
      /\ call'.message = call.message
  BY DEF SameHistory, SameTable
<1>2. LineKept' /\ ScoresKept' /\ StageKept'
  BY DEF LineKept, ScoresKept, StageKept
<1>3. ~call'.missing
  BY DEF RoutingKept, StageKept
<1>4. \A a \in call'.message.receiver \intersect call'.steady : ~records'[a].healthy
  BY <1>1 DEF RoutingKept, StageKept
<1>5. Range(call'.ranked) \subseteq call'.reachable /\ IsInjective(call'.ranked)
  BY <1>1 DEF Range
<1>6. AnswerKept'
  BY <1>3, <1>4, <1>5 DEF AnswerKept, Range, IsInjective
<1>7. QED BY <1>2, <1>6

\* A part of the strategy has its ranking.
LEMMA EndPartKeeps == ASSUME RoutingKept, EndPart PROVE RoutingKept'
<1>1. /\ call \in Calls /\ call.stage = "rank" /\ call.listed = <<>> /\ call.kept = <<>>
      /\ SameTable
  BY DEF RoutingKept, RoutingTyped, EndPart, SameTable
<1>2. PICK r \in Seq(MeshAgents) :
        /\ r = Ranking(Part_, call.keyed) /\ IsInjective(r)
        /\ \A i \in 1..Len(r) : r[i] \in call.reachable
        /\ \A a \in MeshAgents : Accepts(Part_, a) => \E i \in 1..Len(r) : r[i] = a
        /\ Part_.name # "round_robin" =>
             \A i, j \in 1..Len(r) :
               i < j /\ r[i] \in call.steady /\ r[j] \in call.steady =>
                 \/ Key(Part_, r[i], records[r[i]]) < Key(Part_, r[j], records[r[j]])
                 \/ /\ Key(Part_, r[i], records[r[i]]) = Key(Part_, r[j], records[r[j]])
                    /\ Earlier(r[i], r[j])
  BY <1>1, RankedIs
<1>3. PICK p \in Nat \ {0} : p = call.part /\ p \in 1..Len(router.parts)
  BY <1>1 DEF RoutingKept, StageKept
<1>4. Part_ = router.parts[p] /\ router \in Routers
  BY <1>3 DEF Part_, RoutingKept, RoutingTyped
<1>5. counter' \in 0..(Turns - 1)
  <2>1. counter \in 0..(Turns - 1) /\ Turns \in Nat \ {0}
    BY RoutingAssumption DEF RoutingKept, RoutingTyped
  <2>2. counter' = counter \/ counter' = (counter + 1) % Turns
    BY DEF EndPart
  <2>3. (counter + 1) % Turns \in 0..(Turns - 1)
    BY <2>1
  <2>4. QED BY <2>1, <2>2, <2>3
<1>6. PICK s : s = Scored(call.scores, r, router.weights[call.part])
  OBVIOUS
<1>7. call' = CASE ~router.composite -> [call EXCEPT !.stage = "done", !.ranked = r]
                [] router.composite /\ call.part < Len(router.parts) ->
                     [call EXCEPT !.stage = "list", !.part = @ + 1, !.scores = s]
                [] OTHER -> [call EXCEPT !.stage = "done", !.ranked = ByScore(s)]
  BY <1>2, <1>6 DEF EndPart, Part_
<1>8. ASSUME call' \in Calls, SameHistory PROVE RoutingTyped' /\ HistoryKept'
  <2>1. RoutingTyped'
    BY <1>1, <1>5, <1>8, TypedGoesOn DEF RoutingKept
  <2>2. HistoryKept'
    BY <1>1, <1>8, HistoryGoesOn DEF RoutingKept
  <2>3. QED BY <2>1, <2>2
<1>9. CASE ~router.composite
  <2>1. call' = [call EXCEPT !.stage = "done", !.ranked = r]
    BY <1>7, <1>9
  <2>2. /\ call' \in Calls /\ call'.stage = "done" /\ call'.missing = call.missing
        /\ call'.ranked = r /\ call'.message = call.message /\ call'.steady = call.steady
        /\ call'.reachable = call.reachable
    BY <1>1, <2>1 DEF Calls
  <2>3. SameHistory
    BY <1>1, <2>2 DEF SameHistory
  <2>4. p = 1 /\ Len(router.parts) = 1 /\ router' = router
    BY <1>1, <1>3, <1>4, <1>9, RouterIs DEF SameTable
  <2>5. AllNamed'
    <3>1. \A a \in MeshAgents : Accepts(router.parts[1], a)' => a \in Range(r)
      <4>1. \A a : Accepts(router.parts[1], a)' => Accepts(Part_, a)
        <5>1. PICK part : part = router.parts[1] /\ part = router'.parts[1] /\ part = Part_
          BY <1>4, <2>4
        <5>2. \A a : Accepts(router.parts[1], a)' <=> Accepts(part, a)'
          BY <5>1 DEF Accepts, Passes
        <5>3. QED BY <2>3, <5>1, <5>2, HistoryStays
      <4>2. \A i \in 1..Len(r) : r[i] \in Range(r)
        BY DEF Range
      <4>3. QED BY <1>2, <4>1, <4>2
    <3>2. PICK named : named = Range(r) /\ named = Range(call'.ranked)
      BY <2>2
    <3>3. \A k \in 1..Len(router'.parts) : k = 1
      <4>1. Len(router'.parts) = 1
        BY <2>4
      <4>2. \A k \in 1..1 : k = 1
        OBVIOUS
      <4>3. QED BY <4>1, <4>2
    <3>4. \A k \in 1..Len(router'.parts) : router'.weights[k] > 0 =>
            \A a \in MeshAgents : Accepts(router.parts[k], a)' => a \in named
      <4>1. SUFFICES ASSUME NEW k \in 1..Len(router'.parts), NEW a \in MeshAgents,
                            Accepts(router.parts[k], a)'
                     PROVE  a \in named
        OBVIOUS
      <4>2. k = 1
        BY <3>3
      <4>3. Accepts(router.parts[1], a)'
        BY <4>1, <4>2
      <4>4. QED BY <3>1, <3>2, <4>3
    <3>5. QED BY <3>2, <3>4 DEF AllNamed
  <2>6. InKeyOrder'
    <3>1. SUFFICES ASSUME router'.parts[1].name # "round_robin",
             NEW i \in 1..Len(call'.ranked), NEW j \in 1..Len(call'.ranked), i < j,
             call'.ranked[i] \in call'.steady, call'.ranked[j] \in call'.steady,
             NEW k1, k1 = Key(router'.parts[1], call'.ranked[i], records'[call'.ranked[i]]),
             NEW k2, k2 = Key(router'.parts[1], call'.ranked[j], records'[call'.ranked[j]])
          PROVE  k1 < k2 \/ (k1 = k2 /\ Earlier(call.ranked[i], call.ranked[j])')
      BY Zenon DEF InKeyOrder
    <3>2. PICK a, b : a = call'.ranked[i] /\ b = call'.ranked[j]
      OBVIOUS
    <3>3. /\ i \in 1..Len(r) /\ j \in 1..Len(r) /\ a = r[i] /\ b = r[j]
          /\ r[i] \in call.steady /\ r[j] \in call.steady /\ Part_.name # "round_robin"
      BY <1>4, <2>2, <2>4, <3>1, <3>2
    <3>4. k1 = Key(Part_, a, records[a]) /\ k2 = Key(Part_, b, records[b])
      <4>1. router'.parts[1] = Part_ /\ records' = records
        BY <1>1, <1>4, <2>4 DEF SameTable
      <4>2. QED BY <3>1, <3>2, <4>1
    <3>5. k1 < k2 \/ (k1 = k2 /\ Earlier(a, b))
      BY <1>2, <3>1, <3>3, <3>4
    <3>6. Earlier(a, b) => Earlier(a, b)'
      BY <2>3, HistoryStays
    <3>7. QED BY <3>2, <3>5, <3>6 DEF Earlier
  <2>7. Unbeaten'
    BY <1>9, <2>4 DEF Unbeaten
  <2>8. QED
    BY <1>1, <1>2, <1>8, <2>2, <2>3, <2>5, <2>6, <2>7, AnswerFollows DEF RoutingKept
<1>10. ASSUME router.composite
       PROVE  /\ s \in [MeshAgents -> Nat]
              /\ \A k \in 1..p : router.weights[k] > 0 =>
                   \A a \in MeshAgents : Accepts(router.parts[k], a) => s[a] > 0
              /\ \A a, b \in call.steady :
                   (\A k \in 1..p : Beats(k, a, b)) => s[a] > s[b]
  BY <1>1, <1>2, <1>3, <1>6, <1>10, PartScored
<1>11. CASE router.composite /\ call.part < Len(router.parts)
  <2>1. call' = [call EXCEPT !.stage = "list", !.part = @ + 1, !.scores = s]
    BY <1>7, <1>11
  <2>2. /\ call' \in Calls /\ call'.stage = "list" /\ call'.missing = call.missing
        /\ call'.ranked = call.ranked /\ call'.message = call.message
        /\ call'.steady = call.steady /\ call'.reachable = call.reachable
        /\ call'.part = p + 1 /\ call'.scores = s /\ call'.base = call.base
    <3>1. p + 1 \in Nat /\ call' = [call EXCEPT !.stage = "list", !.part = p + 1, !.scores = s]
      BY <1>3, <2>1
    <3>2. QED BY <1>1, <1>10, <1>11, <3>1 DEF Calls
  <2>3. SameHistory
    BY <1>1, <2>2 DEF SameHistory
  <2>4. RoutingTyped' /\ HistoryKept' /\ LineKept' /\ AnswerKept'
    BY <1>8, <2>2, <2>3 DEF LineKept, AnswerKept
  <2>5. StageKept'
    <3>1. Len(router.parts) \in Nat /\ router' = router /\ records' = records
      BY <1>1, <1>4, RouterIs DEF SameTable
    <3>2. p + 1 \in 1..Len(router'.parts)
      BY <1>3, <1>11, <3>1
    <3>3. QED BY <1>1, <2>2, <3>1, <3>2 DEF RoutingKept, StageKept
  <2>6. ScoresKept'
    <3>1. PICK base, w, parts : base = call.base /\ w = router.weights /\ parts = router.parts
      OBVIOUS
    <3>2. /\ IsInjective(base)
          /\ \A i \in 1..Len(base) : base[i] \in call.reachable
          /\ \A a \in call.steady : records[a].healthy => \E i \in 1..Len(base) : base[i] = a
      BY <1>1, <1>11, <3>1 DEF RoutingKept, ScoresKept
    <3>3. \A k \in 1..p : w[k] > 0 => \A a \in MeshAgents : Accepts(parts[k], a)' => s[a] > 0
      BY <1>10, <1>11, <2>3, <3>1, HistoryStays
    <3>4. \A a, b \in call.steady : (\A k \in 1..p : Beats(k, a, b)') => s[a] > s[b]
      BY <1>10, <1>11, <2>3, HistoryStays
    <3>5. \A a, b \in call.steady : (\A k \in 1..p : Beats(k, a, b)') => s[a] >= s[b]
      <4>1. \A a \in call.steady : s[a] \in Nat
        BY <1>1, <1>10, <1>11 DEF Calls
      <4>2. QED BY <3>4, <4>1
    <3>6. /\ call'.base = base /\ call'.part - 1 = p /\ call'.scores = s
          /\ router'.weights = w /\ router'.parts = parts /\ records' = records
          /\ call'.steady = call.steady /\ call'.reachable = call.reachable
      BY <1>1, <2>2, <3>1 DEF SameTable
    <3>7. \A k \in 1..(call'.part - 1) : router'.weights[k] > 0 =>
            \A a \in MeshAgents : Accepts(router.parts[k], a)' => call'.scores[a] > 0
      BY <3>3, <3>6 DEF Accepts, Passes
    <3>8. \A a, b \in call'.steady :
            (\A k \in 1..(call'.part - 1) : Beats(k, a, b)') =>
              /\ call'.scores[a] >= call'.scores[b]
              /\ call'.part > 1 => call'.scores[a] > call'.scores[b]
      BY <3>4, <3>5, <3>6
    <3>9. QED BY <3>2, <3>6, <3>7, <3>8 DEF ScoresKept, IsInjective
  <2>7. QED BY <2>4, <2>5, <2>6 DEF RoutingKept
<1>12. CASE router.composite /\ ~(call.part < Len(router.parts))
  <2>1. call' = [call EXCEPT !.stage = "done", !.ranked = ByScore(s)]
    BY <1>7, <1>12
  <2>2. p = Len(router.parts)
    BY <1>3, <1>4, <1>12, RouterIs
  <2>3. PICK base \in Seq(MeshAgents) :
          /\ base = call.base /\ IsInjective(base)
          /\ \A i \in 1..Len(base) : base[i] \in call.reachable
          /\ \A a \in call.steady : records[a].healthy => \E i \in 1..Len(base) : base[i] = a
    BY <1>1, <1>12 DEF RoutingKept, ScoresKept, Calls
  <2>4. PICK t \in Seq(MeshAgents) :
          /\ t = ByScore(s) /\ IsInjective(t)
          /\ \A a \in MeshAgents : (\E i \in 1..Len(t) : t[i] = a)
                                     <=> s[a] > 0 /\ \E i \in 1..Len(base) : base[i] = a
          /\ \A i, j \in 1..Len(t) : i < j => s[t[i]] >= s[t[j]]
    BY <1>10, <1>12, <2>3, ByScoreIs
  <2>5. /\ call' \in Calls /\ call'.stage = "done" /\ call'.missing = call.missing
        /\ call'.ranked = t /\ call'.message = call.message /\ call'.steady = call.steady
        /\ call'.reachable = call.reachable
    BY <1>1, <2>1, <2>4 DEF Calls
  <2>6. SameHistory /\ router' = router
    BY <1>1, <2>5 DEF SameHistory, SameTable
  <2>7. \A i \in 1..Len(t) : t[i] \in MeshAgents /\ t[i] \in call.reachable
    <3>1. SUFFICES ASSUME NEW i \in 1..Len(t) PROVE t[i] \in MeshAgents /\ t[i] \in call.reachable
      OBVIOUS
    <3>2. t[i] \in MeshAgents
      OBVIOUS
    <3>3. PICK x \in 1..Len(base) : base[x] = t[i]
      BY <2>4, <3>2
    <3>4. QED BY <2>3, <3>2, <3>3
  <2>8. ASSUME NEW k \in 1..p, router.weights[k] > 0, NEW a \in MeshAgents,
               Accepts(router.parts[k], a)
        PROVE  \E i \in 1..Len(t) : t[i] = a
    <3>1. s[a] > 0
      BY <1>10, <1>12, <2>8
    <3>2. \E i \in 1..Len(base) : base[i] = a
      BY <2>3, <2>8 DEF Accepts
    <3>3. QED BY <2>4, <3>1, <3>2
  <2>9. AllNamed'
    <3>1. PICK w, parts : w = router.weights /\ parts = router.parts
      OBVIOUS
    <3>2. PICK named : named = Range(t) /\ named = Range(call'.ranked)
      BY <2>5
    <3>3. \A i \in 1..Len(t) : t[i] \in named
      BY <3>2 DEF Range
    <3>4. \A k \in 1..p : w[k] > 0 =>
            \A a \in MeshAgents : Accepts(parts[k], a)' => a \in named
      <4>1. \A part, a : Accepts(part, a)' => Accepts(part, a)
        BY <2>6, HistoryStays
      <4>2. QED BY <2>8, <3>1, <3>3, <4>1
    <3>5. \A k \in 1..Len(router'.parts) : router'.weights[k] > 0 =>
            \A a \in MeshAgents : Accepts(router.parts[k], a)' => a \in named
      <4>1. router'.weights = w /\ router'.parts = parts /\ Len(router'.parts) = p
        BY <2>2, <2>6, <3>1
      <4>2. QED BY <3>4, <4>1 DEF Accepts, Passes
    <3>6. QED BY <3>2, <3>5 DEF AllNamed
  <2>10. InKeyOrder'
    BY <1>12, <2>6 DEF InKeyOrder
  <2>11. Unbeaten'
    <3>1. SUFFICES ASSUME t # <<>>, NEW first, first = Head(t), first \in call.steady,
                          NEW a \in call.steady, \A k \in 1..p : Beats(k, a, first)'
                   PROVE  FALSE
      BY <2>2, <2>5, <2>6 DEF Unbeaten, Beats
    <3>2. \A k \in 1..p : Beats(k, a, first)
      BY <2>6, <3>1, HistoryStays
    <3>3. a \in MeshAgents /\ first \in MeshAgents
      BY <1>1, <3>1 DEF Calls
    <3>4. PICK sa \in Nat, sf \in Nat : sa = s[a] /\ sf = s[first]
      BY <1>10, <1>12, <3>3
    <3>5. sa > sf
      BY <1>10, <1>12, <3>1, <3>2, <3>4
    <3>6. records[a].healthy
      BY <3>2 DEF Beats, Accepts
    <3>7. PICK i \in 1..Len(t) : t[i] = a
      <4>1. \E i \in 1..Len(base) : base[i] = a
        BY <2>3, <3>6
      <4>2. s[a] > 0
        BY <3>4, <3>5
      <4>3. QED BY <2>4, <3>3, <4>1, <4>2
    <3>8. 1 \in 1..Len(t) /\ t[1] = first
      BY <3>1
    <3>9. CASE i = 1
      BY <3>4, <3>5, <3>7, <3>8, <3>9
    <3>10. CASE i # 1
      <4>1. 1 < i
        BY <3>10
      <4>2. s[first] >= s[a]
        BY <2>4, <3>7, <3>8, <4>1
      <4>3. QED BY <3>4, <3>5, <4>2
    <3>11. QED BY <3>9, <3>10
  <2>12. QED
    BY <1>1, <1>8, <2>4, <2>5, <2>6, <2>7, <2>9, <2>10, <2>11, AnswerFollows DEF RoutingKept
<1>13. QED BY <1>9, <1>11, <1>12

\* Initially there is no agent and no call.
LEMMA RoutingBegins == RoutingInit => RoutingKept
<1> SUFFICES ASSUME RoutingInit PROVE RoutingKept
  OBVIOUS
<1>1. /\ router \in Routers /\ order = <<>> /\ records = [a \in MeshAgents |-> Blank]
      /\ counter = 0 /\ call = Idle_
  BY DEF RoutingInit
<1>2. call \in Calls /\ call.stage = "idle"
  BY <1>1, IdleType DEF Idle_
<1>3. order \in Seq(MeshAgents) /\ IsInjective(order) /\ Range(order) = {}
  BY <1>1 DEF IsInjective, Range
<1>4. records \in [MeshAgents -> AgentRecords] /\ \A a \in MeshAgents : records[a] = Blank
  BY <1>1, BlankType
<1>5. counter \in 0..(Turns - 1)
  BY <1>1, RoutingAssumption
<1>6. RoutingTyped
  BY <1>1, <1>2, <1>3, <1>4, <1>5 DEF RoutingTyped
<1>7. HistoryKept /\ LineKept /\ ScoresKept /\ StageKept /\ AnswerKept
  BY <1>2 DEF HistoryKept, LineKept, ScoresKept, StageKept, AnswerKept
<1>8. QED BY <1>6, <1>7 DEF RoutingKept

\* Every step keeps the invariant.
LEMMA RoutingStep == RoutingKept /\ [RoutingNext]_routingVars => RoutingKept'
<1> SUFFICES ASSUME RoutingKept, [RoutingNext]_routingVars PROVE RoutingKept'
  OBVIOUS
<1>1. RoutingTyped
  BY DEF RoutingKept
<1>2. ASSUME NEW a \in MeshAgents, NEW new \in NewRecords, RegisterAgent(a, new)
      PROVE  RoutingKept'
  BY <1>1, <1>2, RegisterChanges, TableKeeps
<1>3. ASSUME NEW a \in MeshAgents, NEW new \in NewRecords, UpsertAgent(a, new)
      PROVE  RoutingKept'
  <2>1. CASE a \in Range(order)
    <3>1. UpdateAgent(a, new) /\ new \in NewRecords \union Updates
      BY <1>3, <2>1 DEF UpsertAgent
    <3>2. QED BY <1>1, <3>1, UpdateChanges, TableKeeps
  <2>2. CASE a \notin Range(order)
    <3>1. RegisterAgent(a, new)
      BY <1>3, <2>2 DEF UpsertAgent
    <3>2. QED BY <1>2, <3>1
  <2>3. QED BY <2>1, <2>2
<1>4. ASSUME NEW a \in MeshAgents, DeregisterAgent(a) PROVE RoutingKept'
  BY <1>1, <1>4, DeregisterChanges, TableKeeps
<1>5. ASSUME NEW a \in MeshAgents, NEW u \in Updates, UpdateAgent(a, u) PROVE RoutingKept'
  <2>1. u \in NewRecords \union Updates
    OBVIOUS
  <2>2. QED BY <1>1, <1>5, <2>1, UpdateChanges, TableKeeps
<1>6. ASSUME NEW message \in Messages, Resolve_(message) PROVE RoutingKept'
  BY <1>6, ResolveKeeps
<1>7. CASE GetReceiver
  BY <1>7, GetReceiverKeeps
<1>8. CASE ListBase
  BY <1>8, ListBaseKeeps
<1>9. CASE List
  BY <1>9, ListKeeps
<1>10. CASE ReadFilter
  BY <1>10, ReadFilterKeeps
<1>11. CASE ReadKey
  BY <1>11, ReadKeyKeeps
<1>12. CASE EndPart
  BY <1>12, EndPartKeeps
<1>13. CASE Return
  BY <1>13, ReturnKeeps
<1>14. CASE UNCHANGED routingVars
  <2>1. router' = router /\ order' = order /\ records' = records /\ counter' = counter /\ call' = call
    BY <1>14 DEF routingVars
  <2>2. call \in Calls /\ call.listed \in Seq(References) /\ call.kept \in Seq(References)
    BY <1>1 DEF RoutingTyped, Calls
  <2>3. ASSUME call.stage # "idle"
        PROVE  /\ call.steady = {a \in call.steady : a \in Range(order)}
               /\ call.reachable = call.reachable \union HealthyOnes(Range(order), records)
    BY <2>3 DEF RoutingKept, HistoryKept
  <2>4. CallFollows
    BY <2>1, <2>2, <2>3, SameLineOf DEF CallFollows
  <2>5. \A a, b : Earlier(a, b) => Earlier(a, b)'
    BY <2>1 DEF Earlier
  <2>6. TableChanges
    BY <1>1, <2>1, <2>4, <2>5 DEF TableChanges, RoutingTyped
  <2>7. QED BY <2>6, TableKeeps
<1>15. QED
  BY <1>2, <1>3, <1>4, <1>5, <1>6, <1>7, <1>8, <1>9, <1>10, <1>11, <1>12, <1>13, <1>14
  DEF RoutingNext

\* resolve() answers what the table justifies, whatever changes under it: for every number of
\* agents, every set of records and updates, and every strategy.
THEOREM RoutesCorrect == RoutingSpec => []RouteJust
<1>1. RoutingInit => RoutingKept
  BY RoutingBegins
<1>2. RoutingKept /\ [RoutingNext]_routingVars => RoutingKept'
  BY RoutingStep
<1>3. RoutingKept => RouteJust
  BY RoutingFollows
<1>4. QED BY <1>1, <1>2, <1>3, PTL DEF RoutingSpec

\* Whatever updates are refused half way: the records of registered agents hold a valid cost
\* and load, nobody is registered twice, and the round robin counter stays in its range.
THEOREM RecordsCorrect == RoutingSpec => []RoutingTypeOK
<1>1. RoutingInit => RoutingKept
  BY RoutingBegins
<1>2. RoutingKept /\ [RoutingNext]_routingVars => RoutingKept'
  BY RoutingStep
<1>3. RoutingKept => RoutingTypeOK
  BY DEF RoutingKept, RoutingTyped, RoutingTypeOK
<1>4. QED BY <1>1, <1>2, <1>3, PTL DEF RoutingSpec
=============================================================================
