-------------------------- MODULE ConnectOptionsProofs -------------------------
(***************************************************************************)
(* Proofs about ConnectOptions, for any names, values and messages and any *)
(* number of builder calls and connections.                                *)
(***************************************************************************)
EXTENDS ConnectOptions, TLAPS, FiniteSetTheorems, WellFoundedInduction

\* Every nonempty set of numbers has a least element: what stands in for induction.
LEMMA LeastNumber ==
  ASSUME NEW T, T \subseteq Nat, T # {}
  PROVE  \E x \in T : \A y \in T : x <= y
<1>1. PICK x \in T : \A y \in T : ~(<<y, x>> \in OpToRel(<, Nat))
  BY NatLessThanWellFounded, WFMin, Zenon
<1>2. ASSUME NEW y \in T PROVE x <= y
  <2>1. x \in Nat /\ y \in Nat /\ <<y, x>> \in Nat \X Nat
    OBVIOUS
  <2>2. ~(y < x)
    BY <1>1, <2>1 DEF OpToRel
  <2> QED BY <2>1, <2>2
<1> QED BY <1>1, <1>2

\* and every nonempty set of indices a greatest one.
LEMMA MaxIndex ==
  ASSUME NEW n \in Nat, NEW T, T \subseteq 1..n, T # {}
  PROVE  Max(T) \in T /\ \A y \in T : y <= Max(T)
<1> DEFINE D == {n - y : y \in T}
<1>1. D \subseteq Nat /\ D # {}
  <2>1. \A y \in T : n - y \in Nat
    OBVIOUS
  <2> QED BY <2>1
<1>2. PICK d \in D : \A e \in D : d <= e
  BY <1>1, LeastNumber
<1>3. PICK x \in T : d = n - x
  OBVIOUS
<1>4. ASSUME NEW y \in T PROVE x >= y
  <2>1. n - y \in D /\ x \in 1..n /\ y \in 1..n
    OBVIOUS
  <2>2. n - x <= n - y
    BY <1>2, <1>3, <2>1
  <2> HIDE DEF D
  <2> QED BY <2>1, <2>2
<1>5. Max(T) \in T /\ \A y \in T : Max(T) >= y
  BY <1>4 DEF Max
<1> QED BY <1>5

--------------------------------------------------------------------------------
(* The for loop of build_request.                                          *)

\* Each name a HeaderMap holds has a last value,
LEMMA MapFacts ==
  ASSUME NEW map \in HeaderMaps
  PROVE  /\ DOMAIN map \subseteq Names
         /\ \A n \in DOMAIN map : /\ map[n] \in Seq(Values) /\ Len(map[n]) \in 1..MaxValues
                                  /\ DOMAIN map[n] = 1..Len(map[n])
<1>1. PICK S \in SUBSET Names : map \in [S -> UNION {[1..k -> Values] : k \in 1..MaxValues}]
  BY DEF HeaderMaps
<1>2. ASSUME NEW n \in DOMAIN map
      PROVE  /\ map[n] \in Seq(Values) /\ Len(map[n]) \in 1..MaxValues
             /\ DOMAIN map[n] = 1..Len(map[n])
  <2>1. map[n] \in UNION {[1..k -> Values] : k \in 1..MaxValues}
    BY <1>1
  <2>2. PICK k \in 1..MaxValues : map[n] \in [1..k -> Values]
    BY <2>1
  <2>3. k \in Nat
    BY OptionsConstants
  <2> QED BY <2>2, <2>3
<1> QED BY <1>1, <1>2

\* and an iteration comes by every value, those of a name in order.
LEMMA IterationFacts ==
  ASSUME NEW map \in HeaderMaps, NEW it \in Iterations(map)
  PROVE  /\ Len(it) \in Nat /\ DOMAIN it = 1..Len(it)
         /\ \A i \in 1..Len(it) : it[i][1] \in DOMAIN map /\ it[i][2] \in 1..Len(map[it[i][1]])
         /\ \A n \in DOMAIN map : \A k \in 1..Len(map[n]) :
                \E i \in 1..Len(it) : it[i][1] = n /\ it[i][2] = k
         /\ \A i, j \in 1..Len(it) : i < j /\ it[i][1] = it[j][1] => it[i][2] < it[j][2]
<1> DEFINE P == Positions(map)
           c == Cardinality(P)
<1>1. ASSUME NEW x \in P
      PROVE  x[1] \in DOMAIN map /\ x[2] \in 1..Len(map[x[1]]) /\ x \in Names \X (1..MaxValues)
  <2>1. PICK n \in DOMAIN map : x \in {n} \X DOMAIN map[n]
    BY DEF Positions
  <2>2. x = <<n, x[2]>> /\ x[1] = n /\ x[2] \in DOMAIN map[n]
    BY <2>1
  <2>3. /\ DOMAIN map[n] = 1..Len(map[n]) /\ Len(map[n]) \in 1..MaxValues /\ n \in Names
        /\ MaxValues \in Nat
    BY MapFacts, OptionsConstants
  <2>4. x[2] \in 1..MaxValues
    BY <2>2, <2>3
  <2> QED BY <2>2, <2>3, <2>4
<1>2. c \in Nat
  <2>1. IsFiniteSet(Names) /\ IsFiniteSet(1..MaxValues)
    BY OptionsConstants, FS_Interval
  <2>2. IsFiniteSet(Names \X (1..MaxValues))
    BY <2>1, FS_Product
  <2>3. P \in SUBSET (Names \X (1..MaxValues))
    BY <1>1
  <2>4. IsFiniteSet(P)
    BY <2>2, <2>3, FS_Subset
  <2> QED BY <2>4, FS_CardinalityType
<1>3. /\ it \in [1..c -> P] /\ \A x \in P : \E i \in 1..c : it[i] = x
      /\ \A i, j \in DOMAIN it : i < j /\ it[i][1] = it[j][1] => it[i][2] < it[j][2]
  BY DEF Iterations, Surjection
<1>4. ASSUME NEW n \in DOMAIN map, NEW k \in 1..Len(map[n]) PROVE <<n, k>> \in P
  BY MapFacts DEF Positions
<1> HIDE DEF P, c
<1>5. Len(it) = c /\ DOMAIN it = 1..c
  BY <1>2, <1>3
<1>6. ASSUME NEW n \in DOMAIN map, NEW k \in 1..Len(map[n])
      PROVE  \E i \in 1..c : it[i][1] = n /\ it[i][2] = k
  <2>1. PICK i \in 1..c : it[i] = <<n, k>>
    BY <1>3, <1>4
  <2> QED BY <2>1
<1>7. \A i \in 1..c : it[i][1] \in DOMAIN map /\ it[i][2] \in 1..Len(map[it[i][1]])
  BY <1>1, <1>3
<1> QED BY <1>2, <1>3, <1>5, <1>6, <1>7

\* The request after i turns of the loop: a name the iteration has come by has the value
\* it came by last.
Seen(it, i, n) == {j \in 1..i : it[j][1] = n}
After(map, it, i) ==
    [n \in Generated \cup {it[j][1] : j \in 1..i} |->
        IF Seen(it, i, n) = {} THEN <<"generated">>
        ELSE <<map[n][it[Max(Seen(it, i, n))][2]]>>]

\* The request with the last value of every name, whatever the order of the names.
Merged(map) ==
    [n \in Generated \cup DOMAIN map |->
        IF n \in DOMAIN map THEN <<Last(map[n])>> ELSE <<"generated">>]

LEMMA AfterNoTurn ==
  ASSUME NEW map, NEW it
  PROVE  After(map, it, 0) = into_client_request
<1>1. 1..0 = {}
  OBVIOUS
<1>2. \A n : Seen(it, 0, n) = {}
  BY <1>1 DEF Seen
<1>3. Generated \cup {it[j][1] : j \in 1..0} = Generated
  BY <1>1
<1> QED BY <1>2, <1>3 DEF After, into_client_request

\* A turn of the loop.
LEMMA AfterTurn ==
  ASSUME NEW map, NEW it, NEW i \in Nat \ {0}
  PROVE  After(map, it, i) = insert(After(map, it, i - 1), it[i][1], map[it[i][1]][it[i][2]])
<1> DEFINE m == it[i][1]
           D == Generated \cup {it[j][1] : j \in 1..(i - 1)}
           E == Generated \cup {it[j][1] : j \in 1..i}
           f == After(map, it, i - 1)
           g == insert(f, m, map[m][it[i][2]])
<1>1. 1..i = 1..(i - 1) \cup {i} /\ i - 1 \in Nat
  OBVIOUS
<1>2. E = D \cup {m}
  BY <1>1
<1>3. DOMAIN f = D /\ \A n \in D : f[n] = IF Seen(it, i - 1, n) = {} THEN <<"generated">>
                                          ELSE <<map[n][it[Max(Seen(it, i - 1, n))][2]]>>
  BY DEF After
<1>4. g = [n \in DOMAIN f \cup {m} |-> IF n = m THEN <<map[m][it[i][2]]>> ELSE f[n]]
  BY DEF insert
<1>5. ASSUME NEW n \in E, n # m
      PROVE  Seen(it, i, n) = Seen(it, i - 1, n)
  BY <1>1, <1>5 DEF Seen
<1>6. Seen(it, i, m) # {} /\ Max(Seen(it, i, m)) = i
  <2>1. i \in Seen(it, i, m) /\ Seen(it, i, m) \subseteq 1..i
    BY <1>1 DEF Seen
  <2>2. Max(Seen(it, i, m)) \in 1..i /\ i <= Max(Seen(it, i, m))
    BY <2>1, MaxIndex
  <2> QED BY <2>1, <2>2
<1>7. After(map, it, i) = [n \in E |-> IF Seen(it, i, n) = {} THEN <<"generated">>
                                       ELSE <<map[n][it[Max(Seen(it, i, n))][2]]>>]
  BY DEF After
<1> HIDE DEF m, D, E, f, g
<1>8. ASSUME NEW n \in E
      PROVE  (IF Seen(it, i, n) = {} THEN <<"generated">>
              ELSE <<map[n][it[Max(Seen(it, i, n))][2]]>>)
             = (IF n = m THEN <<map[m][it[i][2]]>> ELSE f[n])
  <2>1. CASE n = m
    BY <1>6, <2>1
  <2>2. CASE n # m
    BY <1>2, <1>3, <1>5, <2>2
  <2> QED BY <2>1, <2>2
<1>9. After(map, it, i) = g
  BY <1>2, <1>3, <1>4, <1>7, <1>8
<1> QED BY <1>9 DEF g, f, m

\* After the last turn the order is forgotten.
LEMMA AfterAll ==
  ASSUME NEW map \in HeaderMaps, NEW it \in Iterations(map)
  PROVE  After(map, it, Len(it)) = Merged(map)
<1> DEFINE c == Len(it)
<1>1. /\ c \in Nat
      /\ \A i \in 1..c : it[i][1] \in DOMAIN map /\ it[i][2] \in 1..Len(map[it[i][1]])
      /\ \A n \in DOMAIN map : \A k \in 1..Len(map[n]) :
                \E i \in 1..c : it[i][1] = n /\ it[i][2] = k
      /\ \A i, j \in 1..c : i < j /\ it[i][1] = it[j][1] => it[i][2] < it[j][2]
  BY IterationFacts
<1>2. \A n \in DOMAIN map : Len(map[n]) \in Nat \ {0} /\ Last(map[n]) = map[n][Len(map[n])]
  BY MapFacts, OptionsConstants DEF Last
<1>3. After(map, it, c) = [n \in Generated \cup {it[j][1] : j \in 1..c} |->
                              IF Seen(it, c, n) = {} THEN <<"generated">>
                              ELSE <<map[n][it[Max(Seen(it, c, n))][2]]>>]
  BY DEF After
<1> HIDE DEF c
<1>4. ASSUME NEW n \in DOMAIN map
      PROVE  /\ Seen(it, c, n) # {} /\ it[Max(Seen(it, c, n))][2] = Len(map[n])
             /\ n \in {it[j][1] : j \in 1..c}
  <2>0. Len(map[n]) \in 1..Len(map[n])
    BY <1>2
  <2>1. PICK i \in 1..c : it[i][1] = n /\ it[i][2] = Len(map[n])
    BY <1>1, <2>0
  <2>2. i \in Seen(it, c, n) /\ Seen(it, c, n) \subseteq 1..c
    BY <2>1 DEF Seen
  <2> DEFINE j == Max(Seen(it, c, n))
  <2>3. j \in Seen(it, c, n) /\ i <= j
    BY <1>1, <2>2, MaxIndex
  <2>4. j \in 1..c /\ it[j][1] = n
    BY <2>3 DEF Seen
  <2> HIDE DEF j
  <2>5. j = i
    <3>1. SUFFICES ASSUME i < j PROVE FALSE
      BY <1>1, <2>3, <2>4
    <3>2. it[i][2] < it[j][2] /\ it[j][2] \in 1..Len(map[n])
      BY <1>1, <2>1, <2>4, <3>1
    <3> QED BY <1>2, <2>1, <3>2
  <2> QED BY <2>1, <2>2, <2>5 DEF j
<1>5. {it[j][1] : j \in 1..c} = DOMAIN map
  <2>1. \A n \in DOMAIN map : n \in {it[j][1] : j \in 1..c}
    BY <1>4
  <2>2. \A j \in 1..c : it[j][1] \in DOMAIN map
    BY <1>1
  <2> QED BY <2>1, <2>2
<1>6. ASSUME NEW n, n \notin DOMAIN map PROVE Seen(it, c, n) = {}
  BY <1>1, <1>6 DEF Seen
<1>7. ASSUME NEW n \in Generated \cup DOMAIN map
      PROVE  (IF Seen(it, c, n) = {} THEN <<"generated">>
              ELSE <<map[n][it[Max(Seen(it, c, n))][2]]>>)
             = (IF n \in DOMAIN map THEN <<Last(map[n])>> ELSE <<"generated">>)
  BY <1>2, <1>4, <1>6
<1>8. After(map, it, c) = Merged(map)
  BY <1>3, <1>5, <1>7 DEF Merged
<1> QED BY <1>8 DEF c

\* The loop computes the request with the last value of every name, in whatever order it
\* comes by them: the turn that went wrong first would have followed one that did not.
LEMMA LoopResult ==
  ASSUME NEW opts, opts.extra_headers \in HeaderMaps, NEW it \in Iterations(opts.extra_headers)
  PROVE  build_request(opts, it) = Merged(opts.extra_headers)
<1> DEFINE map == opts.extra_headers
           c == Len(it)
           Turn(r) == [i \in 0..c |-> IF i = 0 THEN into_client_request
                                      ELSE insert(r[i - 1], it[i][1], map[it[i][1]][it[i][2]])]
           a == [i \in 0..c |-> After(map, it, i)]
           r == CHOOSE g : g = Turn(g)
<1>1. c \in Nat
  BY IterationFacts
<1>2. build_request(opts, it) = r[c]
  BY DEF build_request
<1>3. a = Turn(a)
  <2>1. ASSUME NEW i \in 0..c
        PROVE  a[i] = IF i = 0 THEN into_client_request
                      ELSE insert(a[i - 1], it[i][1], map[it[i][1]][it[i][2]])
    <3>1. CASE i = 0
      BY <3>1, AfterNoTurn
    <3>2. CASE i # 0
      <4>1. i \in Nat \ {0} /\ i - 1 \in 0..c
        BY <1>1, <3>2
      <4>2. After(map, it, i) = insert(After(map, it, i - 1), it[i][1], map[it[i][1]][it[i][2]])
        BY <4>1, AfterTurn
      <4>3. a[i] = After(map, it, i) /\ a[i - 1] = After(map, it, i - 1)
        BY <4>1
      <4> HIDE DEF a
      <4> QED BY <3>2, <4>2, <4>3
    <3> QED BY <3>1, <3>2
  <2> QED BY <2>1
<1>4. r = Turn(r)
  <2> HIDE DEF a, Turn
  <2> QED BY <1>3
<1>5. ASSUME NEW i \in 0..c
      PROVE  r[i] = IF i = 0 THEN into_client_request
                    ELSE insert(r[i - 1], it[i][1], map[it[i][1]][it[i][2]])
  BY <1>4
<1>6. ASSUME NEW i \in 0..c, i # 0
      PROVE  After(map, it, i) = insert(After(map, it, i - 1), it[i][1], map[it[i][1]][it[i][2]])
  BY <1>1, <1>6, AfterTurn
<1> HIDE DEF r, map, c, a, Turn
<1>7. \A i \in 0..c : r[i] = After(map, it, i)
  <2> DEFINE Wrong == {i \in 0..c : r[i] # After(map, it, i)}
  <2>1. SUFFICES ASSUME Wrong # {} PROVE FALSE
    OBVIOUS
  <2>2. Wrong \subseteq Nat
    BY <1>1
  <2>3. PICK i \in Wrong : \A j \in Wrong : i <= j
    BY <2>1, <2>2, LeastNumber
  <2>4. i # 0
    BY <1>1, <1>5, AfterNoTurn
  <2>5. i - 1 \in 0..c /\ i - 1 \notin Wrong
    BY <1>1, <2>3, <2>4
  <2>6. r[i - 1] = After(map, it, i - 1)
    BY <2>5
  <2> QED BY <1>5, <1>6, <2>4, <2>6
<1>8. c \in 0..c
  BY <1>1
<1> QED BY <1>2, <1>7, <1>8, AfterAll DEF map, c

--------------------------------------------------------------------------------
(* The log of the builder's calls.                                         *)

\* LastSet and LastValue of a given log.
Setters(l, o) == {i \in DOMAIN l : l[i].op = o}
LastIn(l, o, default) == IF Setters(l, o) = {} THEN default ELSE l[Max(Setters(l, o))].arg

Asked(c, n) ==
    IF c.op = "header" THEN c.arg
    ELSE IF n \in DOMAIN c.arg THEN Last(c.arg[n]) ELSE None
Deciders(l, n) == {i \in DOMAIN l : l[i].op = "headers" \/ l[i].name = n}
ValueIn(l, n) == IF Deciders(l, n) = {} THEN None ELSE Asked(l[Max(Deciders(l, n))], n)

LEMMA LastSetIsLastIn ==
  ASSUME NEW CONSTANT o, NEW CONSTANT d
  PROVE  LastSet(o, d) = LastIn(log, o, d) /\ LastSet(o, d)' = LastIn(log, o, d)'
BY DEF LastSet, LastIn, Setters, Deciding

LEMMA LastValueIsValueIn ==
  ASSUME NEW CONSTANT n
  PROVE  LastValue(n) = ValueIn(log, n)
BY DEF LastValue, ValueIn, Asked, Deciders, Deciding

\* The call that is appended is the last one of any set of calls it belongs to; it does
\* not change what the last one of another set is.
IsLast(l, c, T) ==
    /\ Append(l, c)[Max(T \cup {Len(l) + 1})] = c
    /\ T # {} => Append(l, c)[Max(T)] = l[Max(T)]

LEMMA LastCall ==
  ASSUME NEW S, NEW l \in Seq(S), NEW c, NEW T, T \subseteq DOMAIN l
  PROVE  IsLast(l, c, T)
<1> DEFINE m == Append(l, c)
           k == Len(l)
<1>1. /\ k \in Nat /\ k + 1 \in Nat /\ DOMAIN l = 1..k /\ m[k + 1] = c
      /\ \A i \in 1..k : m[i] = l[i]
  OBVIOUS
<1> HIDE DEF m, k
<1>2. Max(T \cup {k + 1}) = k + 1
  <2>1. T \cup {k + 1} \subseteq 1..(k + 1)
    BY <1>1
  <2>2. Max(T \cup {k + 1}) \in 1..(k + 1) /\ k + 1 <= Max(T \cup {k + 1})
    BY <1>1, <2>1, MaxIndex
  <2> QED BY <1>1, <2>2
<1>3. ASSUME T # {} PROVE m[Max(T)] = l[Max(T)]
  BY <1>1, <1>3, MaxIndex
<1> QED BY <1>1, <1>2, <1>3 DEF m, k, IsLast

\* A call of the setter decides, any other call leaves what was decided.
LEMMA LastInAppend ==
  ASSUME NEW S, NEW l \in Seq(S), NEW c, NEW o, NEW d
  PROVE  LastIn(Append(l, c), o, d) = IF c.op = o THEN c.arg ELSE LastIn(l, o, d)
<1> DEFINE m == Append(l, c)
           T == Setters(l, o)
<1>1. /\ Len(l) \in Nat /\ DOMAIN l = 1..Len(l) /\ DOMAIN m = 1..(Len(l) + 1)
      /\ m[Len(l) + 1] = c /\ \A i \in 1..Len(l) : m[i] = l[i]
  OBVIOUS
<1>2. /\ T \subseteq DOMAIN l /\ m[Max(T \cup {Len(l) + 1})] = c
      /\ T # {} => m[Max(T)] = l[Max(T)]
  <2>1. T \subseteq DOMAIN l
    BY DEF Setters
  <2> HIDE DEF T
  <2>2. IsLast(l, c, T)
    BY <2>1, LastCall
  <2> QED BY <2>1, <2>2 DEF IsLast
<1> HIDE DEF m
<1>3. Setters(m, o) = IF c.op = o THEN T \cup {Len(l) + 1} ELSE T
  BY <1>1 DEF Setters
<1> HIDE DEF T
<1>4. LastIn(m, o, d) = IF c.op = o THEN c.arg ELSE LastIn(l, o, d)
  BY <1>2, <1>3 DEF LastIn, T
<1> QED BY <1>4 DEF m

\* The same for the value of a name.
LEMMA ValueInAppend ==
  ASSUME NEW S, NEW l \in Seq(S), NEW c, NEW n
  PROVE  ValueIn(Append(l, c), n) =
            IF c.op = "headers" \/ c.name = n THEN Asked(c, n) ELSE ValueIn(l, n)
<1> DEFINE m == Append(l, c)
           T == Deciders(l, n)
<1>1. /\ Len(l) \in Nat /\ DOMAIN l = 1..Len(l) /\ DOMAIN m = 1..(Len(l) + 1)
      /\ m[Len(l) + 1] = c /\ \A i \in 1..Len(l) : m[i] = l[i]
  OBVIOUS
<1>2. /\ T \subseteq DOMAIN l /\ m[Max(T \cup {Len(l) + 1})] = c
      /\ T # {} => m[Max(T)] = l[Max(T)]
  <2>1. T \subseteq DOMAIN l
    BY DEF Deciders
  <2> HIDE DEF T
  <2>2. IsLast(l, c, T)
    BY <2>1, LastCall
  <2> QED BY <2>1, <2>2 DEF IsLast
<1> HIDE DEF m
<1>3. Deciders(m, n) = IF c.op = "headers" \/ c.name = n THEN T \cup {Len(l) + 1} ELSE T
  BY <1>1 DEF Deciders
<1> HIDE DEF T
<1>4. ValueIn(m, n) = IF c.op = "headers" \/ c.name = n THEN Asked(c, n) ELSE ValueIn(l, n)
  BY <1>2, <1>3 DEF ValueIn, T
<1> QED BY <1>4 DEF m

--------------------------------------------------------------------------------
\* The value a map holds last under a name.
Configured(map, n) == IF n \in DOMAIN map THEN Last(map[n]) ELSE None

Args == Values \cup HeaderMaps \cup Intervals \cup Messages \cup {None}
Calls == [op : {"header", "headers", "interval", "message"}, name : Names \cup {None}, arg : Args]
Beats == Messages \cup {None, "Ping"}
Requests == {Merged(map) : map \in HeaderMaps}

\* The builder's fields are what its setters were called with last,
FieldsSet ==
    /\ options.keepalive_interval = LastIn(log, "interval", Default)
    /\ options.custom_keepalive_message = LastIn(log, "message", None)
    /\ \A n \in Names : Configured(options.extra_headers, n) = ValueIn(log, n)

\* and nothing changes them once a connection has been made.
IInv ==
    /\ DOMAIN options = {"extra_headers", "keepalive_interval", "custom_keepalive_message"}
    /\ options.custom_keepalive_message \in Messages \cup {None}
    /\ options.extra_headers \in HeaderMaps
    /\ log \in Seq(Calls) /\ beats \in Seq(Beats) /\ requests \in Seq(Requests)
    /\ FieldsSet
    /\ stage # "connected" => beats = <<>> /\ requests = <<>>
    /\ \A k \in DOMAIN beats : beats[k] = KeepaliveFrame(options)
    /\ \A k \in DOMAIN requests : requests[k] = Merged(options.extra_headers)

\* The map without headers, and a map with one more.
LEMMA NoHeaders == <<>> \in HeaderMaps /\ DOMAIN <<>> = {}
<1>1. DOMAIN <<>> = {}
  OBVIOUS
<1>2. <<>> \in [{} -> UNION {[1..n -> Values] : n \in 1..MaxValues}]
  BY <1>1
<1> QED BY <1>1, <1>2 DEF HeaderMaps

LEMMA OneMoreHeader ==
  ASSUME NEW map \in HeaderMaps, NEW n \in Names, NEW v \in Values
  PROVE  /\ insert(map, n, v) \in HeaderMaps
         /\ \A x \in Names : Configured(insert(map, n, v), x) = IF x = n THEN v ELSE Configured(map, x)
<1> DEFINE U == UNION {[1..k -> Values] : k \in 1..MaxValues}
           m == insert(map, n, v)
<1>1. PICK S \in SUBSET Names : map \in [S -> U]
  BY DEF HeaderMaps
<1>2. <<v>> \in U
  <2>1. 1 \in 1..MaxValues
    BY OptionsConstants
  <2>2. <<v>> \in [1..1 -> Values]
    OBVIOUS
  <2>3. [1..1 -> Values] \in {[1..k -> Values] : k \in 1..MaxValues}
    BY <2>1
  <2> QED BY <2>2, <2>3
<1>3. Last(<<v>>) = v
  BY DEF Last
<1> HIDE DEF U
<1>4. /\ DOMAIN m = S \cup {n} /\ m = [x \in S \cup {n} |-> IF x = n THEN <<v>> ELSE map[x]]
      /\ m \in [S \cup {n} -> U]
  BY <1>1, <1>2 DEF insert
<1>5. m \in HeaderMaps
  <2>1. S \cup {n} \in SUBSET Names
    OBVIOUS
  <2> QED BY <1>4, <2>1 DEF HeaderMaps, U
<1> HIDE DEF m
<1>6. ASSUME NEW x \in Names PROVE Configured(m, x) = IF x = n THEN v ELSE Configured(map, x)
  BY <1>1, <1>3, <1>4 DEF Configured
<1> QED BY <1>5, <1>6 DEF m

LEMMA InitIInv == Init => IInv
<1> SUFFICES ASSUME Init PROVE IInv
  OBVIOUS
<1>1. Setters(log, "interval") = {} /\ Setters(log, "message") = {} /\ \A n : Deciders(log, n) = {}
  BY DEF Init, Setters, Deciders
<1>2. options.extra_headers = <<>>
  BY DEF Init, DefaultOptions
<1>3. FieldsSet
  <2>1. \A n \in Names : Configured(options.extra_headers, n) = ValueIn(log, n)
    BY <1>1, <1>2, NoHeaders DEF Configured, ValueIn
  <2> QED BY <1>1, <2>1 DEF Init, DefaultOptions, FieldsSet, LastIn
<1> QED BY <1>2, <1>3, NoHeaders DEF Init, DefaultOptions, IInv

\* A builder call sets the field it is named after.
LEMMA BuilderStep ==
  ASSUME IInv, NEW o \in {"header", "headers", "interval", "message"}, NEW n \in Names \cup {None},
         NEW a \in Args, NEW opts, Builder(o, n, a, opts),
         DOMAIN opts = DOMAIN options, o = "message" => a \in Messages \cup {None},
         opts.keepalive_interval = IF o = "interval" THEN a ELSE options.keepalive_interval,
         opts.custom_keepalive_message = IF o = "message" THEN a ELSE options.custom_keepalive_message,
         opts.extra_headers \in HeaderMaps,
         \A x \in Names : Configured(opts.extra_headers, x) =
            IF o = "headers" \/ n = x THEN Asked([op |-> o, name |-> n, arg |-> a], x)
            ELSE Configured(options.extra_headers, x)
  PROVE  IInv'
<1> DEFINE c == [op |-> o, name |-> n, arg |-> a]
<1>1. /\ options' = opts /\ log' = Append(log, c) /\ UNCHANGED <<stage, requests, beats>>
      /\ stage = "builder" /\ log \in Seq(Calls) /\ beats = <<>> /\ requests = <<>>
  BY DEF Builder, IInv
<1>2. c \in Calls /\ c.op = o /\ c.arg = a /\ c.name = n
  BY DEF Calls
<1>3. \A x \in Names : Configured(opts.extra_headers, x) =
            IF o = "headers" \/ n = x THEN Asked(c, x) ELSE Configured(options.extra_headers, x)
  OBVIOUS
<1> HIDE DEF c
<1>4. log' \in Seq(Calls)
  BY <1>1, <1>2
<1>5. /\ LastIn(log', "interval", Default) = IF o = "interval" THEN a ELSE LastIn(log, "interval", Default)
      /\ LastIn(log', "message", None) = IF o = "message" THEN a ELSE LastIn(log, "message", None)
  <2>1. ASSUME NEW s, NEW d
        PROVE  LastIn(Append(log, c), s, d) = IF c.op = s THEN c.arg ELSE LastIn(log, s, d)
    BY <1>1, LastInAppend
  <2> QED BY <1>1, <1>2, <2>1
<1>6. ASSUME NEW x \in Names PROVE Configured(opts.extra_headers, x) = ValueIn(log', x)
  <2>1. ValueIn(log', x) = IF o = "headers" \/ n = x THEN Asked(c, x) ELSE ValueIn(log, x)
    BY <1>1, <1>2, ValueInAppend
  <2>2. Configured(options.extra_headers, x) = ValueIn(log, x)
    BY DEF IInv, FieldsSet
  <2> QED BY <1>3, <2>1, <2>2
<1>7. FieldsSet'
  <2>1. /\ opts.keepalive_interval = LastIn(log', "interval", Default)
        /\ opts.custom_keepalive_message = LastIn(log', "message", None)
    BY <1>5 DEF FieldsSet, IInv
  <2> QED BY <1>1, <1>6, <2>1 DEF FieldsSet
<1> QED BY <1>1, <1>4, <1>7 DEF IInv

LEMMA ConnectStep ==
  ASSUME IInv, Connect(options)
  PROVE  IInv'
<1>1. PICK it \in Iterations(options.extra_headers) :
        requests' = Append(requests, build_request(options, it))
  BY DEF Connect
<1>2. /\ options' = options /\ log' = log /\ stage' = "connected"
      /\ beats' = Append(beats, KeepaliveFrame(options)) /\ beats \in Seq(Beats)
      /\ requests \in Seq(Requests) /\ options.extra_headers \in HeaderMaps
  BY DEF Connect, IInv
<1>3. KeepaliveFrame(options) \in Beats /\ KeepaliveFrame(options') = KeepaliveFrame(options)
  BY <1>2 DEF KeepaliveFrame, IInv, Beats
<1>4. /\ requests' = Append(requests, Merged(options.extra_headers))
      /\ Merged(options.extra_headers) \in Requests
      /\ Merged(options'.extra_headers) = Merged(options.extra_headers)
  BY <1>1, <1>2, LoopResult DEF Requests
<1>5. /\ beats' \in Seq(Beats)
      /\ \A k \in DOMAIN beats' : \/ k \in DOMAIN beats /\ beats'[k] = beats[k]
                                  \/ beats'[k] = KeepaliveFrame(options)
  BY <1>2, <1>3
<1>6. /\ requests' \in Seq(Requests)
      /\ \A k \in DOMAIN requests' : \/ k \in DOMAIN requests /\ requests'[k] = requests[k]
                                     \/ requests'[k] = Merged(options.extra_headers)
  BY <1>2, <1>4
<1>7. /\ \A k \in DOMAIN beats' : beats'[k] = KeepaliveFrame(options)
      /\ \A k \in DOMAIN requests' : requests'[k] = Merged(options.extra_headers)
  BY <1>5, <1>6 DEF IInv
<1>8. FieldsSet'
  BY <1>2 DEF IInv, FieldsSet
<1> QED BY <1>2, <1>3, <1>4, <1>5, <1>6, <1>7, <1>8 DEF IInv

LEMMA IInvStep == IInv /\ [Next]_vars => IInv'
<1> SUFFICES ASSUME IInv, [Next]_vars PROVE IInv'
  OBVIOUS
<1>0. /\ DOMAIN options = {"extra_headers", "keepalive_interval", "custom_keepalive_message"}
      /\ options.extra_headers \in HeaderMaps
  BY DEF IInv
<1>1. ASSUME NEW n \in Names, NEW v \in Values, header(n, v) PROVE IInv'
  <2> DEFINE opts == [options EXCEPT !.extra_headers = insert(@, n, v)]
             c == [op |-> "header", name |-> n, arg |-> v]
  <2>1. /\ DOMAIN opts = DOMAIN options /\ opts.keepalive_interval = options.keepalive_interval
        /\ opts.custom_keepalive_message = options.custom_keepalive_message
        /\ opts.extra_headers = insert(options.extra_headers, n, v)
    BY <1>0
  <2>2. Builder("header", n, v, opts) /\ v \in Args
    BY <1>1 DEF header, Args
  <2>3. \A x : Asked(c, x) = v
    BY DEF Asked
  <2> HIDE DEF opts
  <2>4. /\ opts.extra_headers \in HeaderMaps
        /\ \A x \in Names : Configured(opts.extra_headers, x) =
              IF "header" = "headers" \/ n = x THEN Asked(c, x) ELSE Configured(options.extra_headers, x)
    BY <1>0, <2>1, <2>3, OneMoreHeader
  <2> QED BY <2>1, <2>2, <2>4, BuilderStep
<1>2. ASSUME NEW map \in HeaderMaps, headers(map) PROVE IInv'
  <2> DEFINE opts == [options EXCEPT !.extra_headers = map]
             c == [op |-> "headers", name |-> None, arg |-> map]
  <2>1. /\ DOMAIN opts = DOMAIN options /\ opts.keepalive_interval = options.keepalive_interval
        /\ opts.custom_keepalive_message = options.custom_keepalive_message
        /\ opts.extra_headers = map
    BY <1>0
  <2>2. Builder("headers", None, map, opts) /\ map \in Args
    BY <1>2 DEF headers, Args
  <2>3. \A x \in Names : Asked(c, x) = Configured(map, x)
    BY DEF Asked, Configured
  <2> HIDE DEF opts
  <2>4. \A x \in Names : Configured(opts.extra_headers, x) =
            IF "headers" = "headers" \/ None = x THEN Asked(c, x) ELSE Configured(options.extra_headers, x)
    BY <2>1, <2>3
  <2> QED BY <2>1, <2>2, <2>4, BuilderStep
<1>3. ASSUME NEW i \in Intervals \cup {None}, keepalive_interval(i) PROVE IInv'
  <2> DEFINE opts == [options EXCEPT !.keepalive_interval = i]
  <2>1. /\ DOMAIN opts = DOMAIN options /\ opts.keepalive_interval = i
        /\ opts.custom_keepalive_message = options.custom_keepalive_message
        /\ opts.extra_headers = options.extra_headers
    BY <1>0
  <2>2. Builder("interval", None, i, opts) /\ i \in Args
    BY <1>3 DEF keepalive_interval, Args
  <2>3. opts.extra_headers \in HeaderMaps
    BY <1>0, <2>1
  <2>4. \A x \in Names : Configured(opts.extra_headers, x) =
            IF "interval" = "headers" \/ None = x THEN Asked([op |-> "interval", name |-> None, arg |-> i], x)
            ELSE Configured(options.extra_headers, x)
    BY <2>1, OptionsConstants
  <2> HIDE DEF opts
  <2> QED BY <2>1, <2>2, <2>3, <2>4, BuilderStep
<1>4. ASSUME NEW m \in Messages \cup {None}, custom_keepalive_message(m) PROVE IInv'
  <2> DEFINE opts == [options EXCEPT !.custom_keepalive_message = m]
  <2>1. /\ DOMAIN opts = DOMAIN options /\ opts.keepalive_interval = options.keepalive_interval
        /\ opts.custom_keepalive_message = m
        /\ opts.extra_headers = options.extra_headers
    BY <1>0
  <2>2. Builder("message", None, m, opts) /\ m \in Args
    BY <1>4 DEF custom_keepalive_message, Args
  <2>3. opts.extra_headers \in HeaderMaps
    BY <1>0, <2>1
  <2>4. \A x \in Names : Configured(opts.extra_headers, x) =
            IF "message" = "headers" \/ None = x THEN Asked([op |-> "message", name |-> None, arg |-> m], x)
            ELSE Configured(options.extra_headers, x)
    BY <2>1, OptionsConstants
  <2> HIDE DEF opts
  <2> QED BY <2>1, <2>2, <2>3, <2>4, BuilderStep
<1>5. CASE build
  BY <1>5 DEF build, IInv, FieldsSet, KeepaliveFrame
<1>6. CASE connect_with \/ reconnect
  BY <1>6, ConnectStep DEF connect_with, reconnect
<1>7. CASE UNCHANGED vars
  BY <1>7 DEF vars, IInv, FieldsSet, KeepaliveFrame
<1> QED BY <1>1, <1>2, <1>3, <1>4, <1>5, <1>6, <1>7 DEF Next

\* Every connection, a reconnect included, is kept alive as the last calls of the two
\* keepalive setters say, however many builder calls and connections there are
\* (config.rs:75-113, lib.rs:283-300, send_keepalive in socket_loop.rs).
THEOREM Keepalive == Spec => []KeepaliveAsConfigured
<1>1. ASSUME IInv PROVE KeepaliveAsConfigured
  <2>1. /\ LastSet("interval", Default) = options.keepalive_interval
        /\ LastSet("message", None) = options.custom_keepalive_message
    BY <1>1, LastSetIsLastIn DEF IInv, FieldsSet
  <2> QED BY <1>1, <2>1 DEF IInv, KeepaliveFrame, KeepaliveAsConfigured
<1> QED BY <1>1, InitIInv, IInvStep, PTL DEF Spec

\* Every connection, a reconnect included, is requested with the headers the builder's
\* calls amount to, for any number of calls, names and values per name, and in whatever
\* order the loop of build_request comes by the map's entries (config.rs:53-65, 82-100).
THEOREM Requested == Spec => []RequestAsConfigured
<1>1. ASSUME IInv PROVE RequestAsConfigured
  <2> DEFINE map == options.extra_headers
  <2>1. /\ map \in HeaderMaps /\ \A n \in Names : Configured(map, n) = LastValue(n)
        /\ \A k \in DOMAIN requests : requests[k] = Merged(map)
    BY <1>1, LastValueIsValueIn DEF IInv, FieldsSet
  <2>2. DOMAIN map \subseteq Names /\ \A n \in DOMAIN map : Last(map[n]) \in Values
    <3>1. ASSUME NEW n \in DOMAIN map PROVE Last(map[n]) \in Values
      <4>1. map[n] \in Seq(Values) /\ Len(map[n]) \in 1..Len(map[n])
        BY <2>1, MapFacts, OptionsConstants
      <4> QED BY <4>1 DEF Last
    <3> QED BY <2>1, <3>1, MapFacts
  <2> HIDE DEF map
  <2>3. \A n \in Names : LastValue(n) = IF n \in DOMAIN map THEN Last(map[n]) ELSE None
    BY <2>1 DEF Configured
  <2>4. \A n \in Names : LastValue(n) # None <=> n \in DOMAIN map
    BY <2>2, <2>3, OptionsConstants
  <2>5. /\ DOMAIN Merged(map) = Generated \cup DOMAIN map
        /\ \A n \in DOMAIN Merged(map) :
              Merged(map)[n] = IF n \in DOMAIN map THEN <<Last(map[n])>> ELSE <<"generated">>
    BY DEF Merged
  <2>6. DOMAIN Merged(map) = Generated \cup {n \in Names : LastValue(n) # None}
    BY <2>2, <2>4, <2>5
  <2>7. ASSUME NEW n \in DOMAIN Merged(map)
        PROVE  Merged(map)[n] = IF LastValue(n) = None THEN <<"generated">> ELSE <<LastValue(n)>>
    <3>1. n \in Names
      BY <2>6, OptionsConstants
    <3> QED BY <2>3, <2>4, <2>5, <3>1
  <2> QED BY <2>1, <2>6, <2>7 DEF RequestAsConfigured
<1> QED BY <1>1, InitIInv, IInvStep, PTL DEF Spec

================================================================================
