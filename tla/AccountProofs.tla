--------------------------- MODULE AccountProofs ---------------------------
(***************************************************************************)
(* x/smart-account for any accounts, authenticators, signatures and JSON   *)
(* values.                                                                 *)
(*                                                                         *)
(* MessageFilter: isSuperset is containment of the pattern in the message, *)
(* place by place, and every stored pattern can be met.                    *)
(*                                                                         *)
(* SmartAccount: a tree of authenticators says yes exactly if its plain    *)
(* reading does, so a delivery acts only with consent; ids stay unique;    *)
(* what authenticated a transaction survives it.                           *)
(*                                                                         *)
(* The recursive definitions are unfolded by the recursion theorem, and    *)
(* what they compute is shown by induction on the depth of the tree or of  *)
(* the JSON value.                                                         *)
(***************************************************************************)
EXTENDS SumProofs, SmartAccount, MessageFilter

-----------------------------------------------------------------------------
(***************************************************************************)
(* MessageFilter.                                                          *)
(***************************************************************************)

Nested(x) == x.k \in {"map", "arr"}

\* The members of a JSON value are JSON values, nested less deeply.
LEMMA Members ==
  ASSUME NEW x \in Values, Nested(x), NEW f \in DOMAIN x.v
  PROVE  x.v[f] \in Values /\ Nesting[x.v[f]] < Nesting[x]
BY FilterAssumption DEF IsJson, Nested

\* The kinds of JSON values.
LEMMA JsonKinds ==
  ASSUME NEW x \in Values
  PROVE  /\ x.k \in {"null", "bool", "str", "float", "arr", "map"}
         /\ x.k = "arr" => Len(x.v) \in Nat /\ DOMAIN x.v = 1 .. Len(x.v)
<1>1. x.k \in {"null", "bool", "str", "float", "arr", "map"} /\ (x.k = "arr" => x.v \in Seq(Values))
  BY Zenon, FilterAssumption DEF IsJson
<1>2. \A s \in Seq(Values) : Len(s) \in Nat /\ DOMAIN s = 1 .. Len(s)
  OBVIOUS
<1> QED
  BY <1>1, <1>2

\* One step of checkForFloats, f giving the answers for the members.
FloatsStep(x, f) ==
  IF x.k \in {"map", "arr"} THEN \E g \in DOMAIN x.v : f[x.v[g]] ELSE x.k = "float"

\* checkForFloats looks at every member.
LEMMA FloatsRecursion ==
  \A x \in Values : checkForFloats(x) <=> IF Nested(x) THEN \E f \in DOMAIN x.v : checkForFloats(x.v[f])
                                          ELSE x.k = "float"
<1> DEFINE F == CHOOSE f : f = [x \in Values |-> FloatsStep(x, f)]
           step == [p \in Values \X [Values -> BOOLEAN] |-> FloatsStep(p[1], p[2])]
<1>1. \A x \in Values : \A f \in [Values -> BOOLEAN] :
        <<x, f>> \in Values \X [Values -> BOOLEAN] /\ step[<<x, f>>] = FloatsStep(x, f)
  BY Zenon
<1>2. ASSUME NEW x \in Values, NEW f \in [Values -> BOOLEAN] PROVE FloatsStep(x, f) \in BOOLEAN
  BY Zenon DEF FloatsStep
<1>3. step \in [Values \X [Values -> BOOLEAN] -> BOOLEAN]
  BY Zenon, <1>2
<1>4. Depends(step, Nesting, Values, BOOLEAN)
  <2> SUFFICES ASSUME NEW x \in Values, NEW f \in [Values -> BOOLEAN], NEW g \in [Values -> BOOLEAN],
                      \A y \in Values : Nesting[y] < Nesting[x] => f[y] = g[y]
               PROVE  FloatsStep(x, f) = FloatsStep(x, g)
    BY Zenon, <1>1 DEF Depends
  <2>1. Nested(x) => \A e \in DOMAIN x.v : f[x.v[e]] = g[x.v[e]]
    BY Zenon, Members
  <2> QED
    BY Zenon, <2>1 DEF FloatsStep, Nested
<1>5. HasSolution(step, Values, BOOLEAN)
  <2>1. BOOLEAN # {} /\ Nesting \in [Values -> Nat]
    BY Zenon, FilterAssumption
  <2> HIDE DEF step
  <2> QED
    BY Zenon, <1>3, <1>4, <2>1, Recursion
<1>6. PICK h \in [Values -> BOOLEAN] : \A x \in Values : h[x] = step[<<x, h>>]
  BY Zenon, <1>5 DEF HasSolution
<1>7. h = [x \in Values |-> FloatsStep(x, h)]
  <2>1. \A x \in Values : h[x] = FloatsStep(x, h)
    BY Zenon, <1>1, <1>6
  <2> QED
    BY Zenon, <2>1
<1>8. F = [x \in Values |-> FloatsStep(x, F)]
  BY Zenon, <1>7
<1>9. \A x : checkForFloats(x) = F[x]
  BY Zenon DEF checkForFloats, FloatsStep
<1> HIDE DEF F
<1>10. \A x \in Values : F[x] = FloatsStep(x, F)
  BY Zenon, <1>8
<1> QED
  BY Zenon, <1>9, <1>10 DEF FloatsStep, Nested

\* One step of isSuperset, f giving the answers for the members.
SupersetStep(p, f) ==
  LET a == p[1]
      b == p[2]
  IN  /\ a.k # "float"
      /\ a.k = b.k
      /\ a.k = "map" => \A e \in DOMAIN a.v : e \in DOMAIN b.v /\ f[<<a.v[e], b.v[e]>>]
      /\ a.k = "arr" => ListFits(a.v, b.v) /\ \A i \in DOMAIN a.v : f[<<a.v[i], b.v[i]>>]
      /\ a.k = "str" => SameString(a.v, b.v)
      /\ a.k = "bool" => a.v = b.v

\* A list that fits has an element at each place of the other.
LEMMA Fits ==
  ASSUME NEW a \in Values, NEW b \in Values, a.k = "arr", b.k = "arr"
  PROVE  ListFits(a.v, b.v) <=> \A i \in DOMAIN a.v : i \in DOMAIN b.v
<1> DEFINE m == Len(a.v)
           n == Len(b.v)
<1>1. m \in Nat /\ n \in Nat /\ DOMAIN a.v = 1 .. m /\ DOMAIN b.v = 1 .. n
  BY Zenon, JsonKinds
<1>2. ListFits(a.v, b.v) <=> m <= n
  BY Zenon DEF ListFits
<1> HIDE DEF m, n
<1>3. (\A i \in 1 .. m : i \in 1 .. n) <=> m <= n
  BY <1>1
<1> QED
  BY Zenon, <1>1, <1>2, <1>3

\* isSuperset compares the members of a map or list, and the contents.
LEMMA SupersetRecursion ==
  \A a, b \in Values :
    isSuperset(a, b) <=>
      /\ a.k # "float" /\ a.k = b.k
      /\ Nested(a) => \A f \in DOMAIN a.v : f \in DOMAIN b.v /\ isSuperset(a.v[f], b.v[f])
      /\ a.k \in {"str", "bool"} => a.v = b.v
<1> DEFINE F == CHOOSE f : f = [p \in Pairs |-> SupersetStep(p, f)]
           step == [d \in Pairs \X [Pairs -> BOOLEAN] |-> SupersetStep(d[1], d[2])]
           rank == [p \in Pairs |-> Nesting[p[1]]]
<1>1. \A p \in Pairs : \A f \in [Pairs -> BOOLEAN] :
        <<p, f>> \in Pairs \X [Pairs -> BOOLEAN] /\ step[<<p, f>>] = SupersetStep(p, f)
  BY Zenon
<1>2. ASSUME NEW p \in Pairs, NEW f \in [Pairs -> BOOLEAN] PROVE SupersetStep(p, f) \in BOOLEAN
  BY Zenon DEF SupersetStep
<1>3. step \in [Pairs \X [Pairs -> BOOLEAN] -> BOOLEAN]
  BY Zenon, <1>2
<1>4. ASSUME NEW p \in Pairs, p[1].k = p[2].k, Nested(p[1]), NEW e \in DOMAIN p[1].v, e \in DOMAIN p[2].v
      PROVE  <<p[1].v[e], p[2].v[e]>> \in Pairs /\ rank[<<p[1].v[e], p[2].v[e]>>] < rank[p]
  <2>1. p[1] \in Values /\ p[2] \in Values /\ Nested(p[2])
    BY <1>4 DEF Pairs, Nested
  <2>2. p[1].v[e] \in Values /\ p[2].v[e] \in Values /\ Nesting[p[1].v[e]] < Nesting[p[1]]
    BY Zenon, <1>4, <2>1, Members
  <2> QED
    BY <2>2 DEF Pairs
<1>5. ASSUME NEW p \in Pairs, p[1].k = p[2].k, p[1].k = "arr", ListFits(p[1].v, p[2].v), NEW e \in DOMAIN p[1].v
      PROVE  e \in DOMAIN p[2].v
  <2>1. p[1] \in Values /\ p[2] \in Values
    BY Zenon DEF Pairs
  <2> QED
    BY Zenon, <1>5, <2>1, Fits
<1>6. Depends(step, rank, Pairs, BOOLEAN)
  <2> SUFFICES ASSUME NEW p \in Pairs, NEW f \in [Pairs -> BOOLEAN], NEW g \in [Pairs -> BOOLEAN],
                      \A q \in Pairs : rank[q] < rank[p] => f[q] = g[q]
               PROVE  SupersetStep(p, f) = SupersetStep(p, g)
    BY Zenon, <1>1 DEF Depends
  <2>1. ASSUME p[1].k = p[2].k, Nested(p[1]), NEW e \in DOMAIN p[1].v, e \in DOMAIN p[2].v
        PROVE  f[<<p[1].v[e], p[2].v[e]>>] = g[<<p[1].v[e], p[2].v[e]>>]
    BY Zenon, <1>4, <2>1
  <2>2. ASSUME NEW u \in [Pairs -> BOOLEAN], NEW w \in [Pairs -> BOOLEAN], SupersetStep(p, u),
               \A e : p[1].k = p[2].k /\ Nested(p[1]) /\ e \in DOMAIN p[1].v /\ e \in DOMAIN p[2].v
                 => u[<<p[1].v[e], p[2].v[e]>>] = w[<<p[1].v[e], p[2].v[e]>>]
        PROVE  SupersetStep(p, w)
    BY ZenonT(30), <1>5, <2>2 DEF SupersetStep, Nested
  <2>3. SupersetStep(p, f) <=> SupersetStep(p, g)
    BY Zenon, <2>1, <2>2
  <2>4. SupersetStep(p, f) \in BOOLEAN /\ SupersetStep(p, g) \in BOOLEAN
    BY Zenon, <1>2
  <2> QED
    BY <2>3, <2>4
<1>7. HasSolution(step, Pairs, BOOLEAN)
  <2>1. BOOLEAN # {} /\ rank \in [Pairs -> Nat]
    BY FilterAssumption DEF Pairs
  <2> HIDE DEF step, rank
  <2> QED
    BY Zenon, <1>3, <1>6, <2>1, Recursion
<1>8. PICK h \in [Pairs -> BOOLEAN] : \A p \in Pairs : h[p] = step[<<p, h>>]
  BY Zenon, <1>7 DEF HasSolution
<1>9. h = [p \in Pairs |-> SupersetStep(p, h)]
  <2>1. \A p \in Pairs : h[p] = SupersetStep(p, h)
    BY Zenon, <1>1, <1>8
  <2> QED
    BY Zenon, <2>1
<1>10. F = [p \in Pairs |-> SupersetStep(p, F)]
  BY Zenon, <1>9
<1>11. \A a, b : isSuperset(a, b) = F[<<a, b>>]
  BY Zenon DEF isSuperset, SupersetStep
<1> HIDE DEF F
<1>12. \A p \in Pairs : F[p] = SupersetStep(p, F)
  BY Zenon, <1>10
<1> SUFFICES ASSUME NEW a \in Values, NEW b \in Values
             PROVE  isSuperset(a, b) <=>
                      /\ a.k # "float" /\ a.k = b.k
                      /\ Nested(a) => \A f \in DOMAIN a.v : f \in DOMAIN b.v /\ isSuperset(a.v[f], b.v[f])
                      /\ a.k \in {"str", "bool"} => a.v = b.v
  BY Zenon
<1>13. <<a, b>> \in Pairs /\ <<a, b>>[1] = a /\ <<a, b>>[2] = b
  BY Zenon DEF Pairs
<1>14. isSuperset(a, b) <=>
         /\ a.k # "float" /\ a.k = b.k
         /\ a.k = "map" => \A e \in DOMAIN a.v : e \in DOMAIN b.v /\ isSuperset(a.v[e], b.v[e])
         /\ a.k = "arr" => ListFits(a.v, b.v) /\ \A i \in DOMAIN a.v : isSuperset(a.v[i], b.v[i])
         /\ a.k = "str" => SameString(a.v, b.v)
         /\ a.k = "bool" => a.v = b.v
  <2>1. isSuperset(a, b) = SupersetStep(<<a, b>>, F)
    BY Zenon, <1>11, <1>12, <1>13
  <2>2. SupersetStep(<<a, b>>, F) <=>
          /\ a.k # "float" /\ a.k = b.k
          /\ a.k = "map" => \A e \in DOMAIN a.v : e \in DOMAIN b.v /\ F[<<a.v[e], b.v[e]>>]
          /\ a.k = "arr" => ListFits(a.v, b.v) /\ \A i \in DOMAIN a.v : F[<<a.v[i], b.v[i]>>]
          /\ a.k = "str" => SameString(a.v, b.v)
          /\ a.k = "bool" => a.v = b.v
    BY Zenon DEF SupersetStep
  <2>3. \A e : isSuperset(a.v[e], b.v[e]) = F[<<a.v[e], b.v[e]>>]
    BY Zenon, <1>11
  <2> QED
    BY Zenon, <2>1, <2>2, <2>3
<1>15. a.k = "arr" /\ b.k = "arr" => (ListFits(a.v, b.v) <=> \A i \in DOMAIN a.v : i \in DOMAIN b.v)
  BY Zenon, Fits
<1>16. SameString(a.v, b.v) <=> a.v = b.v
  BY Zenon DEF SameString
<1> QED
  BY ZenonT(30), <1>14, <1>15, <1>16 DEF Nested

\* The places there may be.
Steps == UNION {{Step(x, f) : f \in DOMAIN x.v} : x \in {y \in Values : Nested(y)}}
Contents == {Content(x) : x \in Values}
AllPlaces == Seq(Steps) \X Contents

\* Contents tell the kinds apart, and the strings and booleans.
LEMMA SameContent ==
  ASSUME NEW a, NEW b
  PROVE  Content(a) = Content(b) <=> a.k = b.k /\ (a.k \in {"str", "bool"} => a.v = b.v)
<1>1. \A x, y, z : <<x, y>> # <<z>>
  BY Zenon
<1>2. \A x, y : <<x>> = <<y>> => x = y
  BY Zenon
<1>3. \A x, y, u, w : <<x, y>> = <<u, w>> => x = u /\ y = w
  BY Zenon
<1>4. Content(a) \in {<<a.k, a.v>>, <<a.k>>} /\ (Content(a) = <<a.k, a.v>> <=> a.k \in {"str", "bool"})
  BY Zenon, <1>1 DEF Content
<1>5. Content(b) \in {<<b.k, b.v>>, <<b.k>>} /\ (Content(b) = <<b.k, b.v>> <=> b.k \in {"str", "bool"})
  BY Zenon, <1>1 DEF Content
<1>6. ASSUME Content(a) = Content(b) PROVE a.k = b.k /\ (a.k \in {"str", "bool"} => a.v = b.v)
  <2>1. CASE a.k \in {"str", "bool"}
    <3>1. Content(a) = <<a.k, a.v>>
      BY Zenon, <1>4, <2>1
    <3>2. Content(b) = <<b.k, b.v>>
      BY Zenon, <1>1, <1>5, <1>6, <3>1
    <3>3. <<a.k, a.v>> = <<b.k, b.v>>
      BY Zenon, <1>6, <3>1, <3>2
    <3> QED
      BY <3>3
  <2>2. CASE a.k \notin {"str", "bool"}
    <3>1. Content(a) = <<a.k>>
      BY Zenon, <1>4, <2>2
    <3>2. Content(b) = <<b.k>>
      BY Zenon, <1>1, <1>5, <1>6, <3>1
    <3> QED
      BY Zenon, <1>2, <1>6, <2>2, <3>1, <3>2
  <2> QED
    BY Zenon, <2>1, <2>2
<1>7. ASSUME a.k = b.k, a.k \in {"str", "bool"} => a.v = b.v PROVE Content(a) = Content(b)
  BY Zenon, <1>7 DEF Content
<1> QED
  BY Zenon, <1>6, <1>7

\* A place below a step is a place, not the root, and tells the step and the
\* place.
LEMMA BelowPlace ==
  ASSUME NEW e \in Steps, NEW q \in AllPlaces
  PROVE  /\ Below(e, q) \in AllPlaces
         /\ \A c : Below(e, q) # <<<<>>, c>>
         /\ \A d \in Steps : \A r \in AllPlaces : Below(e, q) = Below(d, r) => e = d /\ q = r
<1>1. q[1] \in Seq(Steps) /\ q[2] \in Contents /\ q = <<q[1], q[2]>>
  BY DEF AllPlaces
<1>2. <<e>> \o q[1] \in Seq(Steps) /\ <<e>> \o q[1] # <<>>
  BY <1>1
<1>3. \A x, y, u, w : <<x, y>> = <<u, w>> => x = u /\ y = w
  BY Zenon
<1>4. ASSUME NEW d \in Steps, NEW s \in Seq(Steps), NEW t \in Seq(Steps), <<e>> \o s = <<d>> \o t
      PROVE  e = d /\ s = t
  <2> DEFINE u == <<e>> \o s
             w == <<d>> \o t
  <2>1. Len(u) = Len(s) + 1 /\ u[1] = e /\ \A i \in 1 .. Len(s) : u[i + 1] = s[i]
    OBVIOUS
  <2>2. Len(w) = Len(t) + 1 /\ w[1] = d /\ \A i \in 1 .. Len(t) : w[i + 1] = t[i]
    OBVIOUS
  <2>3. u = w
    BY <1>4
  <2> HIDE DEF u, w
  <2>4. e = d /\ Len(s) = Len(t)
    BY <2>1, <2>2, <2>3
  <2>5. \A i \in 1 .. Len(s) : s[i] = t[i]
    BY <2>1, <2>2, <2>3, <2>4
  <2> QED
    BY <2>4, <2>5
<1>5. Below(e, q) \in AllPlaces
  BY <1>1, <1>2 DEF Below, AllPlaces
<1>6. \A c : Below(e, q) # <<<<>>, c>>
  BY Zenon, <1>2, <1>3 DEF Below
<1>7. ASSUME NEW d \in Steps, NEW r \in AllPlaces, Below(e, q) = Below(d, r) PROVE e = d /\ q = r
  <2>1. r[1] \in Seq(Steps) /\ r = <<r[1], r[2]>>
    BY DEF AllPlaces
  <2>2. <<e>> \o q[1] = <<d>> \o r[1] /\ q[2] = r[2]
    BY Zenon, <1>3, <1>7 DEF Below
  <2> QED
    BY Zenon, <1>1, <1>4, <2>1, <2>2
<1> QED
  BY Zenon, <1>5, <1>6, <1>7

\* The root is a place.
LEMMA RootPlace ==
  ASSUME NEW x \in Values
  PROVE  <<<<>>, Content(x)>> \in AllPlaces
<1>1. <<>> \in Seq(Steps)
  OBVIOUS
<1>2. Content(x) \in Contents
  BY Zenon DEF Contents
<1>3. \A S, T, u, w : u \in S /\ w \in T => <<u, w>> \in S \X T
  BY Zenon
<1> QED
  BY Zenon, <1>1, <1>2, <1>3 DEF AllPlaces

\* The steps of a map or list.
LEMMA StepOf ==
  ASSUME NEW x \in Values, Nested(x), NEW f \in DOMAIN x.v
  PROVE  /\ Step(x, f) \in Steps
         /\ \A y, g : x.k = y.k /\ Step(x, f) = Step(y, g) => f = g
<1>1. Step(x, f) \in Steps
  <2>1. x \in {y \in Values : Nested(y)} /\ Step(x, f) \in {Step(x, g) : g \in DOMAIN x.v}
    BY Zenon
  <2>2. {Step(x, g) : g \in DOMAIN x.v} \in {{Step(z, g) : g \in DOMAIN z.v} : z \in {y \in Values : Nested(y)}}
    BY Zenon, <2>1
  <2> QED
    BY Zenon, <2>1, <2>2 DEF Steps
<1>2. \A u, w : <<"key", u>> = <<"key", w>> => u = w
  BY Zenon
<1>3. \A u, w : <<"at", u>> = <<"at", w>> => u = w
  BY Zenon
<1> QED
  BY Zenon, <1>1, <1>2, <1>3 DEF Step

\* One step of Places, g giving the places of the members.
PlacesStep(x, g) ==
  {<<<<>>, Content(x)>>} \cup
  IF x.k \in {"map", "arr"}
  THEN UNION {{Below(Step(x, f), q) : q \in g[x.v[f]]} : f \in DOMAIN x.v}
  ELSE {}

\* q is the root of x, or below a step to a member, g giving the places there.
IsPlace(q, x, g) ==
  \/ q = <<<<>>, Content(x)>>
  \/ Nested(x) /\ \E f \in DOMAIN x.v : \E r \in g[x.v[f]] : q = Below(Step(x, f), r)

\* What one step of Places holds.
LEMMA InPlacesStep ==
  ASSUME NEW x, NEW g
  PROVE  \A q : q \in PlacesStep(x, g) <=> IsPlace(q, x, g)
<1> TAKE q
<1> DEFINE B(f) == {Below(Step(x, f), r) : r \in g[x.v[f]]}
<1>1. q \in UNION {B(f) : f \in DOMAIN x.v} <=> \E f \in DOMAIN x.v : q \in B(f)
  <2> HIDE DEF B
  <2> QED
    BY Zenon
<1>2. \A f : q \in B(f) <=> \E r \in g[x.v[f]] : q = Below(Step(x, f), r)
  BY Zenon
<1>3. q \in PlacesStep(x, g) <=>
        q = <<<<>>, Content(x)>> \/ (Nested(x) /\ q \in UNION {B(f) : f \in DOMAIN x.v})
  BY Zenon DEF PlacesStep, Nested
<1> HIDE DEF B
<1> QED
  BY Zenon, <1>1, <1>2, <1>3 DEF IsPlace

\* A place is the root or a place of a member, below its step.
LEMMA PlacesRecursion ==
  \A x \in Values :
    /\ Places(x) \subseteq AllPlaces
    /\ \A q : q \in Places(x) <=>
         \/ q = <<<<>>, Content(x)>>
         \/ Nested(x) /\ \E f \in DOMAIN x.v : \E r \in Places(x.v[f]) : q = Below(Step(x, f), r)
<1> DEFINE R == SUBSET AllPlaces
           F == CHOOSE g : g = [x \in Values |-> PlacesStep(x, g)]
           step == [p \in Values \X [Values -> R] |-> PlacesStep(p[1], p[2])]
<1>1. \A x \in Values : \A g \in [Values -> R] :
        <<x, g>> \in Values \X [Values -> R] /\ step[<<x, g>>] = PlacesStep(x, g)
  BY Zenon
<1>2. ASSUME NEW x \in Values, NEW g \in [Values -> R] PROVE PlacesStep(x, g) \in R
  <2>1. <<<<>>, Content(x)>> \in AllPlaces
    BY Zenon, RootPlace
  <2>2. ASSUME Nested(x), NEW f \in DOMAIN x.v, NEW q \in g[x.v[f]] PROVE Below(Step(x, f), q) \in AllPlaces
    <3>1. q \in AllPlaces
      BY <2>2, Members
    <3> QED
      BY Zenon, <2>2, <3>1, StepOf, BelowPlace
  <2>3. ASSUME NEW q \in PlacesStep(x, g) PROVE q \in AllPlaces
    <3>1. IsPlace(q, x, g)
      BY Zenon, InPlacesStep
    <3>2. q = <<<<>>, Content(x)>> \/ \E f \in DOMAIN x.v : \E r \in g[x.v[f]] : Nested(x) /\ q = Below(Step(x, f), r)
      BY Zenon, <3>1 DEF IsPlace
    <3> QED
      BY Zenon, <2>1, <2>2, <3>2
  <2> QED
    BY Zenon, <2>3
<1>3. step \in [Values \X [Values -> R] -> R]
  BY <1>2
<1>4. Depends(step, Nesting, Values, R)
  <2> SUFFICES ASSUME NEW x \in Values, NEW f \in [Values -> R], NEW g \in [Values -> R],
                      \A y \in Values : Nesting[y] < Nesting[x] => f[y] = g[y]
               PROVE  PlacesStep(x, f) = PlacesStep(x, g)
    BY Zenon, <1>1 DEF Depends
  <2>1. Nested(x) => \A e \in DOMAIN x.v : f[x.v[e]] = g[x.v[e]]
    BY Zenon, Members
  <2>2. Nested(x) => {{Below(Step(x, e), q) : q \in f[x.v[e]]} : e \in DOMAIN x.v}
                       = {{Below(Step(x, e), q) : q \in g[x.v[e]]} : e \in DOMAIN x.v}
    BY Zenon, <2>1
  <2> QED
    BY Zenon, <2>2 DEF PlacesStep, Nested
<1>5. HasSolution(step, Values, R)
  <2>1. R # {} /\ Nesting \in [Values -> Nat]
    BY FilterAssumption
  <2> HIDE DEF step, R
  <2> QED
    BY Zenon, <1>3, <1>4, <2>1, Recursion
<1>6. PICK h \in [Values -> R] : \A x \in Values : h[x] = step[<<x, h>>]
  BY Zenon, <1>5 DEF HasSolution
<1>7. h = [x \in Values |-> PlacesStep(x, h)]
  <2>1. \A x \in Values : h[x] = PlacesStep(x, h)
    BY Zenon, <1>1, <1>6
  <2> QED
    BY Zenon, <2>1
<1>8. F = [x \in Values |-> PlacesStep(x, F)]
  BY Zenon, <1>7
<1>9. \A x : Places(x) = F[x]
  BY Zenon DEF Places, PlacesStep
<1> HIDE DEF F
<1>10. \A x \in Values : F[x] = PlacesStep(x, F)
  BY Zenon, <1>8
<1>11. ASSUME NEW x \in Values PROVE \A q : q \in F[x] <=> IsPlace(q, x, F)
  BY Zenon, <1>10, InPlacesStep
<1>12. \A x \in Values : F[x] \subseteq AllPlaces
  <2> DEFINE T == {x \in Values : F[x] \subseteq AllPlaces}
  <2>1. ASSUME NEW x \in Values, \A y \in Values : Nesting[y] < Nesting[x] => y \in T PROVE x \in T
    <3>1. <<<<>>, Content(x)>> \in AllPlaces
      BY Zenon, RootPlace
    <3>2. ASSUME Nested(x), NEW f \in DOMAIN x.v, NEW r \in F[x.v[f]] PROVE Below(Step(x, f), r) \in AllPlaces
      <4>1. r \in AllPlaces
        BY Zenon, <2>1, <3>2, Members
      <4> QED
        BY Zenon, <3>2, <4>1, StepOf, BelowPlace
    <3>3. ASSUME NEW q \in F[x] PROVE q \in AllPlaces
      <4>1. IsPlace(q, x, F)
        BY Zenon, <1>11
      <4>2. q = <<<<>>, Content(x)>> \/ \E f \in DOMAIN x.v : \E r \in F[x.v[f]] : Nested(x) /\ q = Below(Step(x, f), r)
        BY Zenon, <4>1 DEF IsPlace
      <4> QED
        BY Zenon, <3>1, <3>2, <4>2
    <3> QED
      BY Zenon, <3>3
  <2>2. Inductive(T, Nesting, Values)
    BY Zenon, <2>1 DEF Inductive
  <2>3. T \in SUBSET Values /\ Nesting \in [Values -> Nat]
    BY FilterAssumption
  <2>4. T = Values
    <3> HIDE DEF T
    <3> QED
      BY Zenon, <2>2, <2>3, RankInduct
  <2> QED
    BY Zenon, <2>4
<1> QED
  BY Zenon, <1>9, <1>11, <1>12 DEF IsPlace

\* The root is a place of a value, and no other value with another content has it.
LEMMA RootOf ==
  ASSUME NEW a \in Values, NEW b \in Values
  PROVE  <<<<>>, Content(a)>> \in Places(a) /\ (<<<<>>, Content(a)>> \in Places(b) <=> Content(a) = Content(b))
<1>1. <<<<>>, Content(a)>> \in Places(a)
  BY Zenon, PlacesRecursion
<1>2. ASSUME <<<<>>, Content(a)>> \in Places(b) PROVE Content(a) = Content(b)
  <2>1. ASSUME Nested(b), NEW f \in DOMAIN b.v, NEW r \in Places(b.v[f]), <<<<>>, Content(a)>> = Below(Step(b, f), r)
        PROVE  FALSE
    <3>1. r \in AllPlaces
      BY Zenon, <2>1, Members, PlacesRecursion
    <3> QED
      BY Zenon, <2>1, <3>1, StepOf, BelowPlace
  <2>2. <<<<>>, Content(a)>> = <<<<>>, Content(b)>>
    BY Zenon, <1>2, <2>1, PlacesRecursion
  <2> QED
    BY <2>2
<1>3. ASSUME Content(a) = Content(b) PROVE <<<<>>, Content(a)>> \in Places(b)
  BY Zenon, <1>3, PlacesRecursion
<1> QED
  BY Zenon, <1>1, <1>2, <1>3

\* Below the root, the places of a are among those of b exactly if each member
\* of a has its places among those of b's member of that name.
LEMMA MembersWithin ==
  ASSUME NEW a \in Values, NEW b \in Values, Nested(a), a.k = b.k
  PROVE  Places(a) \subseteq Places(b) <=>
           \A f \in DOMAIN a.v : f \in DOMAIN b.v /\ Places(a.v[f]) \subseteq Places(b.v[f])
<1>0. Nested(b) /\ \A f : Step(a, f) = Step(b, f)
  BY Zenon DEF Nested, Step
<1>1. ASSUME Places(a) \subseteq Places(b), NEW f \in DOMAIN a.v, NEW r \in Places(a.v[f])
      PROVE  f \in DOMAIN b.v /\ r \in Places(b.v[f])
  <2>1. r \in AllPlaces /\ Step(a, f) \in Steps
    BY Zenon, Members, PlacesRecursion, StepOf
  <2>2. Below(Step(a, f), r) \in Places(b)
    BY Zenon, <1>1, PlacesRecursion
  <2>3. \A c : Below(Step(a, f), r) # <<<<>>, c>>
    BY Zenon, <2>1, BelowPlace
  <2>4. PICK g \in DOMAIN b.v : \E t \in Places(b.v[g]) : Below(Step(a, f), r) = Below(Step(b, g), t)
    BY Zenon, <2>2, <2>3, PlacesRecursion
  <2>5. PICK t \in Places(b.v[g]) : Below(Step(a, f), r) = Below(Step(b, g), t)
    BY Zenon, <2>4
  <2>6. t \in AllPlaces /\ Step(b, g) \in Steps
    BY Zenon, <1>0, Members, PlacesRecursion, StepOf
  <2>7. Step(a, f) = Step(b, g) /\ r = t
    <3>1. \A d \in Steps : \A u \in AllPlaces : Below(Step(a, f), r) = Below(d, u) => Step(a, f) = d /\ r = u
      BY Zenon, <2>1, BelowPlace
    <3> QED
      BY Zenon, <2>5, <2>6, <3>1
  <2>8. f = g
    BY Zenon, <2>7, StepOf
  <2> QED
    BY Zenon, <2>7, <2>8
<1>2. ASSUME Places(a) \subseteq Places(b), NEW f \in DOMAIN a.v
      PROVE  f \in DOMAIN b.v /\ Places(a.v[f]) \subseteq Places(b.v[f])
  <2>1. a.v[f] \in Values
    BY Zenon, Members
  <2>2. Places(a.v[f]) # {}
    BY Zenon, <2>1, RootOf
  <2> QED
    BY Zenon, <1>1, <1>2, <2>2
<1>3. ASSUME \A f \in DOMAIN a.v : f \in DOMAIN b.v /\ Places(a.v[f]) \subseteq Places(b.v[f]), NEW q \in Places(a)
      PROVE  q \in Places(b)
  <2>1. CASE q = <<<<>>, Content(a)>>
    <3>1. Content(a) = Content(b)
      BY Zenon, SameContent DEF Nested
    <3> QED
      BY Zenon, <2>1, <3>1, PlacesRecursion
  <2>2. CASE \E f \in DOMAIN a.v : \E r \in Places(a.v[f]) : q = Below(Step(a, f), r)
    <3>1. PICK f \in DOMAIN a.v : \E r \in Places(a.v[f]) : q = Below(Step(a, f), r)
      BY Zenon, <2>2
    <3>2. PICK r \in Places(a.v[f]) : q = Below(Step(a, f), r)
      BY Zenon, <3>1
    <3>3. f \in DOMAIN b.v /\ r \in Places(b.v[f]) /\ q = Below(Step(b, f), r)
      BY Zenon, <1>0, <1>3, <3>2
    <3> QED
      BY Zenon, <1>0, <3>3, PlacesRecursion
  <2>3. q = <<<<>>, Content(a)>> \/ \E f \in DOMAIN a.v : \E r \in Places(a.v[f]) : q = Below(Step(a, f), r)
    <3>1. \A u : u \in Places(a) <=>
            \/ u = <<<<>>, Content(a)>>
            \/ Nested(a) /\ \E f \in DOMAIN a.v : \E r \in Places(a.v[f]) : u = Below(Step(a, f), r)
      BY Zenon, PlacesRecursion
    <3> QED
      BY Zenon, <3>1
  <2> QED
    BY Zenon, <2>1, <2>2, <2>3
<1> QED
  BY Zenon, <1>2, <1>3

\* A pattern without numbers is met by exactly the values that contain it.
LEMMA SupersetIsContainment ==
  \A a \in Values : ~checkForFloats(a) =>
    \A b \in Values : isSuperset(a, b) <=> Places(a) \subseteq Places(b)
<1> DEFINE Exact(a) == \A b \in Values : isSuperset(a, b) <=> Places(a) \subseteq Places(b)
           T == {a \in Values : ~checkForFloats(a) => Exact(a)}
<1>1. ASSUME NEW a \in Values, \A y \in Values : Nesting[y] < Nesting[a] => y \in T, ~checkForFloats(a),
             NEW b \in Values
      PROVE  isSuperset(a, b) <=> Places(a) \subseteq Places(b)
  <2>1. a.k # "float"
    BY Zenon, <1>1, FloatsRecursion DEF Nested
  <2>2. Places(a) \subseteq Places(b) => a.k = b.k /\ (a.k \in {"str", "bool"} => a.v = b.v)
    BY Zenon, RootOf, SameContent
  <2>3. CASE Nested(a)
    <3>1. \A f \in DOMAIN a.v : a.v[f] \in Values /\ ~checkForFloats(a.v[f]) /\ Nesting[a.v[f]] < Nesting[a]
      BY Zenon, <1>1, <2>3, FloatsRecursion, Members
    <3>2. \A f \in DOMAIN a.v : Exact(a.v[f])
      BY Zenon, <1>1, <3>1
    <3>3. a.k \notin {"str", "bool"}
      BY Zenon, <2>3 DEF Nested
    <3>4. ASSUME a.k = b.k PROVE \A f \in DOMAIN b.v : b.v[f] \in Values
      BY Zenon, <2>3, <3>4, Members DEF Nested
    <3>5. ASSUME a.k = b.k PROVE isSuperset(a, b) <=> Places(a) \subseteq Places(b)
      <4>1. isSuperset(a, b) <=> \A f \in DOMAIN a.v : f \in DOMAIN b.v /\ isSuperset(a.v[f], b.v[f])
        BY Zenon, <2>1, <2>3, <3>3, <3>5, SupersetRecursion
      <4>2. Places(a) \subseteq Places(b) <=>
              \A f \in DOMAIN a.v : f \in DOMAIN b.v /\ Places(a.v[f]) \subseteq Places(b.v[f])
        BY Zenon, <2>3, <3>5, MembersWithin
      <4> QED
        BY Zenon, <3>2, <3>4, <3>5, <4>1, <4>2
    <3> QED
      BY Zenon, <2>2, <3>5, SupersetRecursion
  <2>4. CASE ~Nested(a)
    <3>1. isSuperset(a, b) <=> a.k = b.k /\ (a.k \in {"str", "bool"} => a.v = b.v)
      BY Zenon, <2>1, <2>4, SupersetRecursion
    <3>2. \A q : q \in Places(a) <=> q = <<<<>>, Content(a)>>
      BY Zenon, <2>4, PlacesRecursion
    <3> QED
      BY Zenon, <3>1, <3>2, RootOf, SameContent
  <2> QED
    BY Zenon, <2>3, <2>4
<1>2. Inductive(T, Nesting, Values)
  BY Zenon, <1>1 DEF Inductive
<1>3. T \in SUBSET Values /\ Nesting \in [Values -> Nat]
  BY Zenon, FilterAssumption
<1>4. T = Values
  <2> HIDE DEF T
  <2> QED
    BY Zenon, <1>2, <1>3, RankInduct
<1> QED
  BY Zenon, <1>4

\* The stored pattern has no numbers, and each answer is for it.
FilterInv ==
  /\ pattern = None \/ (pattern \in Values /\ ~checkForFloats(pattern))
  /\ message # None => message \in Values /\ pattern # None /\ accepted = isSuperset(pattern, message)

\* A message passes the filter exactly if it contains the stored pattern, and
\* every pattern that OnAuthenticatorAdded stores is met by a message that looks
\* like it (MessageFilter.Authenticate, isSuperset, checkForFloats).
THEOREM FilterExactHolds == FilterSpec => []FilterExact
<1>1. FilterInit => FilterInv
  BY Zenon DEF FilterInit, FilterInv
<1>2. None \notin Values
  BY JsonKinds DEF None
<1>3. FilterInv /\ [FilterNext]_filterVars => FilterInv'
  <2> SUFFICES ASSUME FilterInv, [FilterNext]_filterVars PROVE FilterInv'
    BY Zenon
  <2>1. CASE UNCHANGED filterVars
    BY Zenon, <2>1 DEF FilterInv, filterVars
  <2>2. ASSUME NEW p \in Patterns, pattern = None, OnFilterAdded(p) PROVE FilterInv'
    <3>1. message = None
      BY Zenon, <2>2 DEF FilterInv
    <3> QED
      BY Zenon, <2>2, <3>1 DEF FilterInv, OnFilterAdded, Values
  <2>3. ASSUME NEW m \in Messages, pattern # None, FilterAuthenticate(m) PROVE FilterInv'
    BY Zenon, <2>3 DEF FilterInv, FilterAuthenticate, Values
  <2> QED
    BY Zenon, <2>1, <2>2, <2>3 DEF FilterNext
<1>4. FilterInv => FilterExact
  <2> SUFFICES ASSUME FilterInv PROVE FilterExact
    BY Zenon
  <2>1. AcceptsContained
    BY Zenon, SupersetIsContainment DEF FilterInv, AcceptsContained
  <2>2. StoredIsSatisfiable
    BY Zenon, SupersetIsContainment DEF FilterInv, StoredIsSatisfiable
  <2> QED
    BY Zenon, <2>1, <2>2 DEF FilterExact
<1> QED
  BY <1>1, <1>3, <1>4, PTL DEF FilterSpec

-----------------------------------------------------------------------------
(***************************************************************************)
(* SmartAccount: the store.                                                *)
(***************************************************************************)

\* The authenticators of an account, by id.
Lists == UNION {[D -> Trees] : D \in SUBSET Nat}

\* An id belongs to one account, and the counter is past it.
Fresh(s) ==
  /\ \A a \in Accounts : \A i \in DOMAIN s.auths[a] : i < s.next
  /\ \A a, b \in Accounts : a # b => DOMAIN s.auths[a] \cap DOMAIN s.auths[b] = {}

StoreRecords ==
  [active : BOOLEAN, failed : BOOLEAN, next : Nat, auths : [Accounts -> Lists], sent : SUBSET Accounts]

Stores == {s \in StoreRecords : Fresh(s)}

\* The lists of authenticators.
LEMMA ListOf ==
  ASSUME NEW f
  PROVE  f \in Lists <=> /\ f = [i \in DOMAIN f |-> f[i]]
                         /\ \A i \in DOMAIN f : i \in Nat /\ f[i] \in Trees
<1>1. ASSUME f \in Lists PROVE f = [i \in DOMAIN f |-> f[i]] /\ \A i \in DOMAIN f : i \in Nat /\ f[i] \in Trees
  <2>1. PICK D \in SUBSET Nat : f \in [D -> Trees]
    BY Zenon, <1>1 DEF Lists
  <2> QED
    BY Zenon, <2>1
<1>2. ASSUME f = [i \in DOMAIN f |-> f[i]], \A i \in DOMAIN f : i \in Nat /\ f[i] \in Trees PROVE f \in Lists
  <2>1. DOMAIN f \in SUBSET Nat /\ f \in [DOMAIN f -> Trees]
    BY Zenon, <1>2
  <2> QED
    BY Zenon, <2>1 DEF Lists
<1> QED
  BY Zenon, <1>1, <1>2

\* Every genesis state is a store.
LEMMA GenesisStore ==
  ASSUME NEW s \in Genesis
  PROVE  s \in Stores
<1>1. IsGenesis(s)
  BY Zenon, SmartAccountAssumption
<1>2. s.auths \in [Accounts -> Lists]
  <2>1. \A a \in Accounts : s.auths[a] \in Lists
    BY Zenon, <1>1, ListOf DEF IsGenesis
  <2>2. s.auths = [a \in Accounts |-> s.auths[a]]
    BY Zenon, <1>1 DEF IsGenesis
  <2> QED
    BY Zenon, <2>1, <2>2
<1>3. s \in StoreRecords
  <2>1. \A b \in BOOLEAN, n \in Nat, l \in [Accounts -> Lists], x \in SUBSET Accounts :
          [active |-> b, failed |-> FALSE, next |-> n, auths |-> l, sent |-> x] \in StoreRecords
    BY Zenon DEF StoreRecords
  <2>2. s.active \in BOOLEAN /\ s.next \in Nat /\ s.sent \in SUBSET Accounts
    BY Zenon, <1>1 DEF IsGenesis
  <2>3. [active |-> s.active, failed |-> FALSE, next |-> s.next, auths |-> s.auths, sent |-> s.sent] \in StoreRecords
    BY Zenon, <1>2, <2>1, <2>2
  <2> QED
    BY Zenon, <1>1, <2>3 DEF IsGenesis
<1>4. Fresh(s)
  BY Zenon, <1>1 DEF IsGenesis, Fresh
<1> QED
  BY Zenon, <1>3, <1>4 DEF Stores

\* What the keeper writes to the store.
LEMMA Written ==
  ASSUME NEW s \in StoreRecords, NEW a \in Accounts, NEW l \in Lists
  PROVE  /\ [s EXCEPT !.auths[a] = l] \in StoreRecords
         /\ [s EXCEPT !.auths[a] = l].next = s.next
         /\ \A b \in Accounts : [s EXCEPT !.auths[a] = l].auths[b] = IF b = a THEN l ELSE s.auths[b]
BY Zenon DEF StoreRecords

\* Whatever leaves the authenticators alone and lets the counter grow gives a store.
LEMMA FreshStays ==
  ASSUME NEW s \in Stores, NEW t \in StoreRecords, t.auths = s.auths, t.next >= s.next
  PROVE  t \in Stores
<1>1. \A a \in Accounts : \A i \in DOMAIN s.auths[a] : i \in Nat /\ i < s.next
  BY Zenon, ListOf DEF Stores, StoreRecords, Fresh
<1>2. s.next \in Nat /\ t.next \in Nat
  BY Zenon DEF Stores, StoreRecords
<1>3. \A a \in Accounts : \A i \in DOMAIN t.auths[a] : i < t.next
  BY <1>1, <1>2
<1> QED
  BY Zenon, <1>3 DEF Stores, Fresh

\* A refused message leaves a store.
LEMMA RefusedStore ==
  ASSUME NEW s \in Stores
  PROVE  Refused(s) \in Stores
<1>1. s \in StoreRecords
  BY Zenon DEF Stores
<1>2. Refused(s) \in StoreRecords
  BY <1>1 DEF Refused, StoreRecords
<1>3. Refused(s).auths = s.auths /\ Refused(s).next >= s.next
  BY <1>1 DEF Refused, StoreRecords
<1> QED
  BY Zenon, <1>2, <1>3, FreshStays

\* AddAuthenticator hands out an id that no account has.
LEMMA AddKeeps ==
  ASSUME NEW s \in Stores, NEW m, IsMessage(m), NEW v
  PROVE  AddAuthenticator(s, m, v) \in Stores
<1>0. s \in StoreRecords /\ s.next \in Nat /\ Fresh(s) /\ m.from \in Accounts /\ m.tree \in Trees
      /\ \A a \in Accounts : s.auths[a] \in Lists
  BY Zenon DEF Stores, StoreRecords, IsMessage
<1> DEFINE old == s.auths[m.from]
           new == [i \in DOMAIN old \cup {s.next} |-> IF i = s.next THEN m.tree ELSE old[i]]
           added == [s EXCEPT !.auths[m.from] = new]
           t == [added EXCEPT !.next = @ + 1]
<1>1. [Add(s, m.from, s.next, m.tree) EXCEPT !.next = @ + 1] = t
  BY Zenon DEF Add
<1>2. \A i \in DOMAIN old : i \in Nat /\ old[i] \in Trees
  BY Zenon, <1>0, ListOf
<1>3. new \in Lists
  <2>1. \A i \in DOMAIN new : i \in Nat /\ new[i] \in Trees
    BY Zenon, <1>0, <1>2
  <2>2. new = [i \in DOMAIN new |-> new[i]]
    BY Zenon
  <2> QED
    BY Zenon, <2>1, <2>2, ListOf
<1>4. DOMAIN new = DOMAIN old \cup {s.next}
  BY Zenon
<1> HIDE DEF new
<1>5. /\ added \in StoreRecords /\ added.next = s.next
      /\ \A a \in Accounts : added.auths[a] = IF a = m.from THEN new ELSE s.auths[a]
  BY Zenon, <1>0, <1>3, Written
<1> HIDE DEF added
<1>6. t \in StoreRecords /\ t.next = s.next + 1 /\ t.auths = added.auths
  BY <1>0, <1>5 DEF StoreRecords
<1>7. \A a \in Accounts : t.auths[a] = IF a = m.from THEN new ELSE s.auths[a]
  BY Zenon, <1>5, <1>6
<1> HIDE DEF t
<1>8. \A a \in Accounts : \A i \in DOMAIN s.auths[a] : i \in Nat /\ i < s.next
  BY Zenon, <1>0, ListOf DEF Fresh
<1>9. \A a \in Accounts : \A i \in DOMAIN t.auths[a] : i \in DOMAIN s.auths[a] \/ (a = m.from /\ i = s.next)
  BY Zenon, <1>4, <1>7
<1>10. Fresh(t)
  <2>1. ASSUME NEW a \in Accounts, NEW i \in DOMAIN t.auths[a] PROVE i < t.next
    <3>1. i \in DOMAIN s.auths[a] \/ i = s.next
      BY Zenon, <1>9
    <3> QED
      BY <1>0, <1>6, <1>8, <3>1
  <2>2. \A a \in Accounts : s.next \notin DOMAIN s.auths[a]
    BY <1>0, <1>8
  <2>3. ASSUME NEW a \in Accounts, NEW b \in Accounts, a # b, NEW i \in DOMAIN t.auths[a], i \in DOMAIN t.auths[b]
        PROVE  FALSE
    <3>1. CASE i = s.next
      BY Zenon, <1>9, <2>2, <2>3, <3>1
    <3>2. CASE i # s.next
      <4>1. i \in DOMAIN s.auths[a] /\ i \in DOMAIN s.auths[b]
        BY Zenon, <1>9, <2>3, <3>2
      <4> QED
        BY Zenon, <1>0, <2>3, <4>1 DEF Fresh
    <3> QED
      BY Zenon, <3>1, <3>2
  <2> QED
    BY Zenon, <2>1, <2>3 DEF Fresh
<1> QED
  BY Zenon, <1>1, <1>6, <1>10, RefusedStore DEF AddAuthenticator, Stores

\* Removal takes an id away from its account.
LEMMA RemoveKeeps ==
  ASSUME NEW s \in Stores, NEW m, IsMessage(m), NEW v
  PROVE  RemoveAuthenticator(s, m, v) \in Stores
<1>0. s \in StoreRecords /\ Fresh(s) /\ m.from \in Accounts /\ \A a \in Accounts : s.auths[a] \in Lists
  BY Zenon DEF Stores, StoreRecords, IsMessage
<1> DEFINE old == s.auths[m.from]
           new == [i \in DOMAIN old \ {m.id} |-> old[i]]
           t == [s EXCEPT !.auths[m.from] = new]
<1>1. Delete(s, m.from, m.id) = t
  BY Zenon DEF Delete
<1>2. \A i \in DOMAIN old : i \in Nat /\ old[i] \in Trees
  BY Zenon, <1>0, ListOf
<1>3. new \in Lists
  <2>1. \A i \in DOMAIN new : i \in Nat /\ new[i] \in Trees
    BY Zenon, <1>0, <1>2
  <2>2. new = [i \in DOMAIN new |-> new[i]]
    BY Zenon
  <2> QED
    BY Zenon, <2>1, <2>2, ListOf
<1>4. DOMAIN new \subseteq DOMAIN old
  BY Zenon
<1> HIDE DEF new
<1>5. t \in StoreRecords /\ t.next = s.next /\ \A a \in Accounts : t.auths[a] = IF a = m.from THEN new ELSE s.auths[a]
  BY Zenon, <1>0, <1>3, Written
<1> HIDE DEF t
<1>6. \A a \in Accounts : \A i \in DOMAIN t.auths[a] : i \in DOMAIN s.auths[a]
  BY Zenon, <1>4, <1>5
<1>7. Fresh(t)
  BY Zenon, <1>0, <1>5, <1>6 DEF Fresh
<1> QED
  BY Zenon, <1>1, <1>5, <1>7, RefusedStore DEF RemoveAuthenticator, Stores

\* Every message leaves a store.
LEMMA ExecuteKeeps ==
  ASSUME NEW s \in Stores, NEW m, IsMessage(m), NEW v
  PROVE  Execute(s, m, v) \in Stores
<1>0. s \in StoreRecords /\ m.from \in Accounts
  BY Zenon DEF Stores, IsMessage
<1>1. SetActiveState(s, m, v) \in Stores
  <2>1. [s EXCEPT !.active = FALSE] \in StoreRecords
    BY <1>0 DEF StoreRecords
  <2>2. [s EXCEPT !.active = FALSE].auths = s.auths /\ [s EXCEPT !.active = FALSE].next >= s.next
    BY <1>0 DEF StoreRecords
  <2>3. [s EXCEPT !.active = FALSE] \in Stores
    BY Zenon, <2>1, <2>2, FreshStays
  <2> QED
    BY Zenon, <2>3, RefusedStore DEF SetActiveState
<1>2. [s EXCEPT !.sent = @ \cup {m.from}] \in Stores
  <2> DEFINE t == [s EXCEPT !.sent = @ \cup {m.from}]
  <2>1. t \in StoreRecords
    BY <1>0 DEF StoreRecords
  <2>2. t.auths = s.auths /\ t.next >= s.next
    BY <1>0 DEF StoreRecords
  <2> HIDE DEF t
  <2>3. t \in Stores
    BY Zenon, <2>1, <2>2, FreshStays
  <2> QED
    BY Zenon, <2>3 DEF t
<1>3. AddAuthenticator(s, m, v) \in Stores /\ RemoveAuthenticator(s, m, v) \in Stores
  BY Zenon, AddKeeps, RemoveKeeps
<1>4. m.kind \in {"add", "remove", "off", "send"}
  BY Zenon DEF IsMessage
<1> QED
  BY <1>1, <1>2, <1>3, <1>4 DEF Execute

\* One step of RunMessages from the store s.
RunStep(n, f, s, msgs, v) == IF n = 0 THEN s ELSE Execute(f[n - 1], msgs[n], v)

\* A list of messages leaves a store.
LEMMA RunKeeps ==
  ASSUME store \in Stores, NEW msgs \in MsgLists, NEW v
  PROVE  RunMessages(msgs, v) \in Stores
<1> DEFINE D == 0 .. Len(msgs)
           F == CHOOSE f : f = [n \in D |-> RunStep(n, f, store, msgs, v)]
           step == [p \in D \X [D -> Stores] |-> RunStep(p[1], p[2], store, msgs, v)]
           rank == [n \in D |-> n]
<1>0. /\ Len(msgs) \in Nat /\ \A i \in 1 .. Len(msgs) : IsMessage(msgs[i])
      /\ 0 \in D /\ Len(msgs) \in D
  <2>1. msgs \in Seq(Range(msgs)) /\ \A i \in DOMAIN msgs : IsMessage(msgs[i])
    BY Zenon, SmartAccountAssumption
  <2> QED
    BY <2>1
<1>1. \A n \in D : \A f \in [D -> Stores] :
        <<n, f>> \in D \X [D -> Stores] /\ step[<<n, f>>] = RunStep(n, f, store, msgs, v)
  BY Zenon
<1>2. \A n \in D : n # 0 => n - 1 \in D /\ n \in 1 .. Len(msgs) /\ rank[n - 1] < rank[n]
  BY <1>0
<1>3. rank \in [D -> Nat]
  BY <1>0
<1> HIDE DEF D, rank
<1>4. ASSUME NEW n \in D, NEW f \in [D -> Stores] PROVE RunStep(n, f, store, msgs, v) \in Stores
  <2>1. n # 0 => f[n - 1] \in Stores /\ IsMessage(msgs[n])
    BY Zenon, <1>0, <1>2
  <2> QED
    BY Zenon, <2>1, ExecuteKeeps DEF RunStep
<1>5. step \in [D \X [D -> Stores] -> Stores]
  BY <1>4
<1>6. Depends(step, rank, D, Stores)
  <2> SUFFICES ASSUME NEW n \in D, NEW f \in [D -> Stores], NEW g \in [D -> Stores],
                      \A e \in D : rank[e] < rank[n] => f[e] = g[e]
               PROVE  RunStep(n, f, store, msgs, v) = RunStep(n, g, store, msgs, v)
    BY Zenon, <1>1 DEF Depends
  <2>1. n # 0 => f[n - 1] = g[n - 1]
    BY Zenon, <1>2
  <2> QED
    BY Zenon, <2>1 DEF RunStep
<1>7. HasSolution(step, D, Stores)
  <2>1. Stores # {}
    BY Zenon
  <2> HIDE DEF step
  <2> QED
    BY Zenon, <1>3, <1>5, <1>6, <2>1, Recursion
<1>8. PICK h \in [D -> Stores] : \A n \in D : h[n] = step[<<n, h>>]
  BY Zenon, <1>7 DEF HasSolution
<1>9. h = [n \in D |-> RunStep(n, h, store, msgs, v)]
  <2>1. \A n \in D : h[n] = RunStep(n, h, store, msgs, v)
    BY Zenon, <1>1, <1>8
  <2> QED
    BY Zenon, <2>1
<1>10. F = [n \in D |-> RunStep(n, F, store, msgs, v)]
  BY Zenon, <1>9
<1>11. RunMessages(msgs, v) = F[Len(msgs)]
  BY Zenon DEF RunMessages, RunStep, D
<1> HIDE DEF F
<1>12. \A n \in D : F[n] = RunStep(n, F, store, msgs, v)
  BY Zenon, <1>10
<1>13. \A n \in D : F[n] \in Stores
  <2> DEFINE T == {n \in D : F[n] \in Stores}
  <2>1. ASSUME NEW n \in D, \A e \in D : rank[e] < rank[n] => e \in T PROVE n \in T
    <3>1. n # 0 => F[n - 1] \in Stores /\ IsMessage(msgs[n])
      BY Zenon, <1>0, <1>2, <2>1
    <3>2. RunStep(n, F, store, msgs, v) \in Stores
      BY Zenon, <3>1, ExecuteKeeps DEF RunStep
    <3> QED
      BY Zenon, <1>12, <3>2
  <2>2. Inductive(T, rank, D) /\ T \in SUBSET D
    BY Zenon, <2>1 DEF Inductive
  <2>3. T = D
    <3> HIDE DEF T
    <3> QED
      BY Zenon, <1>3, <2>2, RankInduct
  <2> QED
    BY Zenon, <2>3
<1> QED
  BY Zenon, <1>0, <1>11, <1>13

-----------------------------------------------------------------------------
(***************************************************************************)
(* SmartAccount: authenticator trees.                                      *)
(***************************************************************************)

\* One step of Authenticate, f giving the answers of the children.
AuthStep(p, f, msg, v) ==
  LET x == p[1]
      sig == p[2]
      r == [i \in DOMAIN x.subs |-> f[<<x.subs[i], SubSignature(x, sig, i)>>]]
      ok == [i \in DOMAIN x.subs |-> r[i].ok]
      gas == [i \in DOMAIN x.subs |-> r[i].gas]
  IN  CASE x.t = "Sig" -> [ok |-> "key" \in DOMAIN sig /\ sig.key = x.key, gas |-> 1]
        [] x.t = "Filter" -> [ok |-> msg.kind \in x.kinds, gas |-> 1]
        [] x.t = "Cw" -> [ok |-> v[x.c]["authenticate"], gas |-> 1]
        [] Composite(x) /\ ~Splits(x, sig) -> [ok |-> FALSE, gas |-> 0]
        [] OTHER -> [ok |-> Verdict(x, ok), gas |-> SumFunctionOnSet(gas, Visited(x, ok))]

\* One step of Approves.
ApprovesStep(p, f, m, v) ==
  LET x == p[1]
      sig == p[2]
      Sub(i) == f[<<x.subs[i], IF x.part THEN sig.parts[i] ELSE sig>>]
  IN  CASE x.t = "Sig" -> sig = [key |-> x.key]
        [] x.t = "Filter" -> m.kind \in x.kinds
        [] x.t = "Cw" -> v[x.c]["authenticate"]
        [] x.t = "AllOf" -> Splits(x, sig) /\ \A i \in DOMAIN x.subs : Sub(i)
        [] x.t = "AnyOf" -> Splits(x, sig) /\ \E i \in DOMAIN x.subs : Sub(i)

Results == [ok : BOOLEAN, gas : Nat]
TreeRank == [p \in SignedTrees |-> Depth[p[1]]]

\* What the children of a node are asked.
Child(p, i) == <<p[1].subs[i], SubSignature(p[1], p[2], i)>>

\* The kinds of nodes.
LEMMA TreeKinds ==
  ASSUME NEW p \in SignedTrees
  PROVE  /\ p[1] \in Trees /\ p[2] \in Signatures
         /\ p[1].t \in {"Sig", "Filter", "Cw", "AllOf", "AnyOf"}
         /\ p[1].t = "Cw" => p[1].c \in Contracts
         /\ Composite(p[1]) <=> p[1].t \in {"AllOf", "AnyOf"}
         /\ Composite(p[1]) => Len(p[1].subs) \in Nat /\ DOMAIN p[1].subs = 1 .. Len(p[1].subs)
<1>1. p[1] \in Trees /\ p[2] \in Signatures
  BY Zenon DEF SignedTrees
<1>2. IsTree(p[1])
  BY Zenon, <1>1, SmartAccountAssumption
<1>3. \A s \in Seq(Trees) : Len(s) \in Nat /\ DOMAIN s = 1 .. Len(s)
  OBVIOUS
<1>4. Composite(p[1]) => Len(p[1].subs) \in Nat /\ DOMAIN p[1].subs = 1 .. Len(p[1].subs)
  BY Zenon, <1>2, <1>3 DEF IsTree
<1>5. p[1].t \in {"Sig", "Filter", "Cw", "AllOf", "AnyOf"} /\ (p[1].t = "Cw" => p[1].c \in Contracts)
  BY <1>2 DEF IsTree, Composite
<1> QED
  BY Zenon, <1>1, <1>4, <1>5 DEF Composite

\* The children of a node whose signature splits are trees with signatures.
LEMMA ChildOf ==
  ASSUME NEW p \in SignedTrees, Composite(p[1]), Splits(p[1], p[2]), NEW i \in DOMAIN p[1].subs
  PROVE  Child(p, i) \in SignedTrees /\ TreeRank[Child(p, i)] < TreeRank[p]
<1>1. p[1] \in Trees /\ p[2] \in Signatures /\ Len(p[1].subs) \in Nat /\ DOMAIN p[1].subs = 1 .. Len(p[1].subs)
  BY Zenon, TreeKinds
<1>2. IsTree(p[1]) /\ IsSignature(p[2])
  BY Zenon, <1>1, SmartAccountAssumption
<1>3. p[1].subs \in Seq(Trees) /\ Depth[p[1].subs[i]] < Depth[p[1]]
  BY Zenon, <1>2 DEF IsTree
<1>4. p[1].subs[i] \in Trees
  BY <1>3
<1>5. SubSignature(p[1], p[2], i) \in Signatures
  <2>1. CASE p[1].part
    <3>1. p[2].parts \in Seq(Signatures) /\ Len(p[2].parts) = Len(p[1].subs)
      BY Zenon, <1>2, <2>1 DEF Splits, IsSignature
    <3>2. p[2].parts[i] \in Signatures
      BY <1>1, <3>1
    <3> QED
      BY Zenon, <2>1, <3>2 DEF SubSignature
  <2>2. CASE ~p[1].part
    BY Zenon, <1>1, <2>2 DEF SubSignature
  <2> QED
    BY Zenon, <2>1, <2>2
<1>6. Child(p, i) \in SignedTrees /\ Child(p, i)[1] = p[1].subs[i]
  BY <1>4, <1>5 DEF Child, SignedTrees
<1> QED
  BY Zenon, <1>3, <1>6 DEF TreeRank

\* The children that are asked are children.
LEMMA VisitedChildren ==
  ASSUME NEW x, NEW n \in Nat, Len(x.subs) = n, NEW ok, DOMAIN ok = 1 .. n
  PROVE  Visited(x, ok) \in SUBSET (1 .. n)
<1> DEFINE S == Settling(x, ok)
<1>1. S \in SUBSET (1 .. n)
  BY Zenon DEF Settling
<1>2. ASSUME S # {} PROVE Min(S) \in 1 .. n
  <2> HIDE DEF S
  <2>1. S \in SUBSET Nat
    BY <1>1
  <2>2. \E y \in S : \A z \in S : y <= z
    BY Zenon, <1>2, <2>1, Least
  <2>3. Min(S) \in S
    BY Zenon, <2>2 DEF Min
  <2> QED
    BY Zenon, <1>1, <2>3
<1> HIDE DEF S
<1>3. Visited(x, ok) = 1 .. (IF S = {} THEN n ELSE Min(S))
  BY Zenon DEF Visited, S
<1> QED
  BY <1>2, <1>3

\* The answers of the children, and what they cost.
Oks(p, f) == [i \in DOMAIN p[1].subs |-> f[Child(p, i)].ok]
Gases(p, f) == [i \in DOMAIN p[1].subs |-> f[Child(p, i)].gas]

\* The cases of Authenticate.
AnswersAs(p, f, msg, v) ==
  /\ p[1].t = "Sig" => AuthStep(p, f, msg, v)
       = [ok |-> "key" \in DOMAIN p[2] /\ p[2].key = p[1].key, gas |-> 1]
  /\ p[1].t = "Filter" => AuthStep(p, f, msg, v) = [ok |-> msg.kind \in p[1].kinds, gas |-> 1]
  /\ p[1].t = "Cw" => AuthStep(p, f, msg, v) = [ok |-> v[p[1].c]["authenticate"], gas |-> 1]
  /\ Composite(p[1]) /\ ~Splits(p[1], p[2]) => AuthStep(p, f, msg, v) = [ok |-> FALSE, gas |-> 0]
  /\ Composite(p[1]) /\ Splits(p[1], p[2]) => AuthStep(p, f, msg, v)
       = [ok |-> Verdict(p[1], Oks(p, f)), gas |-> SumFunctionOnSet(Gases(p, f), Visited(p[1], Oks(p, f)))]

\* Authenticate answers by these cases.
LEMMA AuthCases ==
  ASSUME NEW p \in SignedTrees, NEW f, NEW msg, NEW v
  PROVE  AnswersAs(p, f, msg, v)
<1> DEFINE r == [i \in DOMAIN p[1].subs |-> f[<<p[1].subs[i], SubSignature(p[1], p[2], i)>>]]
           ok == [i \in DOMAIN p[1].subs |-> r[i].ok]
           gas == [i \in DOMAIN p[1].subs |-> r[i].gas]
           A(o, g) == CASE p[1].t = "Sig" -> [ok |-> "key" \in DOMAIN p[2] /\ p[2].key = p[1].key, gas |-> 1]
                        [] p[1].t = "Filter" -> [ok |-> msg.kind \in p[1].kinds, gas |-> 1]
                        [] p[1].t = "Cw" -> [ok |-> v[p[1].c]["authenticate"], gas |-> 1]
                        [] Composite(p[1]) /\ ~Splits(p[1], p[2]) -> [ok |-> FALSE, gas |-> 0]
                        [] OTHER -> [ok |-> Verdict(p[1], o), gas |-> SumFunctionOnSet(g, Visited(p[1], o))]
<1>1. ok = Oks(p, f) /\ gas = Gases(p, f)
  BY Zenon DEF Oks, Gases, Child
<1>2. AuthStep(p, f, msg, v) = A(ok, gas)
  BY Zenon DEF AuthStep
<1> HIDE DEF ok, gas
<1>3. AuthStep(p, f, msg, v) = A(Oks(p, f), Gases(p, f))
  BY Zenon, <1>1, <1>2
<1>4. Composite(p[1]) <=> p[1].t \in {"AllOf", "AnyOf"}
  BY Zenon, TreeKinds
<1> DEFINE o == Oks(p, f)
           g == Gases(p, f)
           split == Splits(p[1], p[2])
           one == [ok |-> "key" \in DOMAIN p[2] /\ p[2].key = p[1].key, gas |-> 1]
           two == [ok |-> msg.kind \in p[1].kinds, gas |-> 1]
           three == [ok |-> v[p[1].c]["authenticate"], gas |-> 1]
           four == [ok |-> FALSE, gas |-> 0]
           five == [ok |-> Verdict(p[1], o), gas |-> SumFunctionOnSet(g, Visited(p[1], o))]
<1>5. AuthStep(p, f, msg, v) =
        CASE p[1].t = "Sig" -> one [] p[1].t = "Filter" -> two [] p[1].t = "Cw" -> three
          [] Composite(p[1]) /\ ~split -> four [] OTHER -> five
  BY Zenon, <1>3
<1> HIDE DEF o, g, split, one, two, three, four, five
<1>6. /\ p[1].t = "Sig" => AuthStep(p, f, msg, v) = one
      /\ p[1].t = "Filter" => AuthStep(p, f, msg, v) = two
      /\ p[1].t = "Cw" => AuthStep(p, f, msg, v) = three
      /\ Composite(p[1]) /\ ~split => AuthStep(p, f, msg, v) = four
      /\ Composite(p[1]) /\ split => AuthStep(p, f, msg, v) = five
  BY <1>4, <1>5
<1> QED
  BY Zenon, <1>6 DEF o, g, split, one, two, three, four, five, AnswersAs

\* One step of Authenticate answers, and asks only the children.
LEMMA AuthStepType ==
  ASSUME NEW p \in SignedTrees, NEW f, NEW msg, NEW v \in Verdicts,
         Composite(p[1]) /\ Splits(p[1], p[2]) => \A i \in DOMAIN p[1].subs : f[Child(p, i)] \in Results
  PROVE  AuthStep(p, f, msg, v) \in Results
<1>0. \A b \in BOOLEAN, n \in Nat : [ok |-> b, gas |-> n] \in Results
  BY Zenon DEF Results
<1>1. 0 \in Nat /\ 1 \in Nat
  BY Zenon
<1>2. CASE p[1].t = "Sig"
  <2>1. ("key" \in DOMAIN p[2] /\ p[2].key = p[1].key) \in BOOLEAN
    BY Zenon
  <2>2. AuthStep(p, f, msg, v) = [ok |-> "key" \in DOMAIN p[2] /\ p[2].key = p[1].key, gas |-> 1]
    BY Zenon, <1>2, AuthCases DEF AnswersAs
  <2> QED
    BY Zenon, <1>0, <1>1, <2>1, <2>2
<1>3. CASE p[1].t = "Filter"
  <2>1. (msg.kind \in p[1].kinds) \in BOOLEAN
    OBVIOUS
  <2>2. AuthStep(p, f, msg, v) = [ok |-> msg.kind \in p[1].kinds, gas |-> 1]
    BY Zenon, <1>3, AuthCases DEF AnswersAs
  <2> QED
    BY Zenon, <1>0, <1>1, <2>1, <2>2
<1>4. CASE p[1].t = "Cw"
  <2>1. p[1].c \in Contracts /\ v \in [Contracts -> [Hooks -> BOOLEAN]] /\ "authenticate" \in Hooks
    BY Zenon, <1>4, TreeKinds, SmartAccountAssumption DEF Hooks
  <2>2. v[p[1].c]["authenticate"] \in BOOLEAN
    BY Zenon, <2>1
  <2>3. AuthStep(p, f, msg, v) = [ok |-> v[p[1].c]["authenticate"], gas |-> 1]
    BY Zenon, <1>4, AuthCases DEF AnswersAs
  <2> QED
    BY Zenon, <1>0, <1>1, <2>2, <2>3
<1>5. CASE Composite(p[1]) /\ ~Splits(p[1], p[2])
  <2>1. AuthStep(p, f, msg, v) = [ok |-> FALSE, gas |-> 0]
    BY Zenon, <1>5, AuthCases DEF AnswersAs
  <2> QED
    BY <2>1 DEF Results
<1>6. CASE Composite(p[1]) /\ Splits(p[1], p[2])
  <2> DEFINE n == Len(p[1].subs)
             o == Oks(p, f)
             g == Gases(p, f)
             S == Visited(p[1], o)
  <2>1. n \in Nat /\ DOMAIN p[1].subs = 1 .. n
    BY Zenon, <1>6, TreeKinds
  <2>2. DOMAIN o = 1 .. n /\ DOMAIN g = 1 .. n
    BY Zenon, <2>1 DEF Oks, Gases
  <2>3. S \in SUBSET (1 .. n)
    <3> HIDE DEF o
    <3> QED
      BY Zenon, <2>1, <2>2, VisitedChildren
  <2>4. \A i \in 1 .. n : g[i] \in Nat
    <3>1. \A i \in 1 .. n : f[Child(p, i)] \in Results
      BY Zenon, <1>6, <2>1
    <3>2. \A q \in Results : q.gas \in Nat
      BY Zenon DEF Results
    <3> QED
      BY Zenon, <2>1, <3>1, <3>2 DEF Gases
  <2>5. IsFiniteSet(S)
    <3> HIDE DEF n, S
    <3>1. 1 \in Int /\ n \in Int
      BY <2>1
    <3>2. IsFiniteSet(1 .. n)
      BY Zenon, <3>1, FS_Interval
    <3> QED
      BY Zenon, <2>3, <3>2, FS_Subset
  <2>6. SumFunctionOnSet(g, S) \in Nat
    <3> HIDE DEF g, S
    <3>1. \A i \in S : g[i] \in Nat
      BY Zenon, <2>3, <2>4
    <3> QED
      BY Zenon, <2>5, <3>1, SumNat
  <2>7. Verdict(p[1], o) \in BOOLEAN
    BY Zenon DEF Verdict
  <2>8. AuthStep(p, f, msg, v) = [ok |-> Verdict(p[1], o), gas |-> SumFunctionOnSet(g, S)]
    BY Zenon, <1>6, AuthCases DEF AnswersAs
  <2> HIDE DEF o, g, S
  <2> QED
    BY Zenon, <1>0, <2>6, <2>7, <2>8
<1> QED
  BY Zenon, <1>2, <1>3, <1>4, <1>5, <1>6, TreeKinds

\* Authenticate asks the children, and settles as the loops do.
LEMMA AuthRecursion ==
  ASSUME NEW msg, NEW v \in Verdicts
  PROVE  \E f \in [SignedTrees -> Results] :
           \A p \in SignedTrees : f[p] = Authenticate(p[1], p[2], msg, v) /\ f[p] = AuthStep(p, f, msg, v)
<1> DEFINE F == CHOOSE f : f = [p \in SignedTrees |-> AuthStep(p, f, msg, v)]
           step == [d \in SignedTrees \X [SignedTrees -> Results] |-> AuthStep(d[1], d[2], msg, v)]
<1>1. \A p \in SignedTrees : \A f \in [SignedTrees -> Results] :
        <<p, f>> \in SignedTrees \X [SignedTrees -> Results] /\ step[<<p, f>>] = AuthStep(p, f, msg, v)
  BY Zenon
<1>2. step \in [SignedTrees \X [SignedTrees -> Results] -> Results]
  <2>1. \A p \in SignedTrees : \A f \in [SignedTrees -> Results] : AuthStep(p, f, msg, v) \in Results
    BY Zenon, AuthStepType, ChildOf
  <2> QED
    BY <2>1
<1>3. Depends(step, TreeRank, SignedTrees, Results)
  <2> SUFFICES ASSUME NEW p \in SignedTrees, NEW f \in [SignedTrees -> Results], NEW g \in [SignedTrees -> Results],
                      \A q \in SignedTrees : TreeRank[q] < TreeRank[p] => f[q] = g[q]
               PROVE  AuthStep(p, f, msg, v) = AuthStep(p, g, msg, v)
    BY Zenon, <1>1 DEF Depends
  <2>1. AnswersAs(p, f, msg, v) /\ AnswersAs(p, g, msg, v)
    BY Zenon, AuthCases
  <2>2. CASE Composite(p[1]) /\ Splits(p[1], p[2])
    <3>1. \A i \in DOMAIN p[1].subs : f[Child(p, i)] = g[Child(p, i)]
      BY Zenon, <2>2, ChildOf
    <3>2. Oks(p, f) = Oks(p, g) /\ Gases(p, f) = Gases(p, g)
      BY Zenon, <3>1 DEF Oks, Gases
    <3> QED
      BY Zenon, <2>1, <2>2, <3>2 DEF AnswersAs
  <2> QED
    BY Zenon, <2>1, <2>2, TreeKinds DEF AnswersAs
<1>4. TreeRank \in [SignedTrees -> Nat]
  BY TreeKinds, SmartAccountAssumption DEF TreeRank
<1>5. HasSolution(step, SignedTrees, Results)
  <2>1. [ok |-> TRUE, gas |-> 0] \in Results
    BY Zenon DEF Results
  <2> HIDE DEF step
  <2> QED
    BY Zenon, <1>2, <1>3, <1>4, <2>1, Recursion
<1>6. PICK h \in [SignedTrees -> Results] : \A p \in SignedTrees : h[p] = step[<<p, h>>]
  BY Zenon, <1>5 DEF HasSolution
<1>7. h = [p \in SignedTrees |-> AuthStep(p, h, msg, v)]
  <2>1. \A p \in SignedTrees : h[p] = AuthStep(p, h, msg, v)
    BY Zenon, <1>1, <1>6
  <2> QED
    BY Zenon, <2>1
<1>8. F = [p \in SignedTrees |-> AuthStep(p, F, msg, v)]
  BY Zenon, <1>7
<1>9. \A p \in SignedTrees : Authenticate(p[1], p[2], msg, v) = F[p]
  <2>1. \A x, g : Authenticate(x, g, msg, v) = F[<<x, g>>]
    BY Zenon DEF Authenticate, AuthStep
  <2>2. \A p \in SignedTrees : p = <<p[1], p[2]>>
    BY DEF SignedTrees
  <2> HIDE DEF F
  <2> QED
    <3> TAKE p \in SignedTrees
    <3>1. Authenticate(p[1], p[2], msg, v) = F[<<p[1], p[2]>>]
      BY Zenon, <2>1
    <3>2. p = <<p[1], p[2]>>
      BY Zenon, <2>2
    <3> QED
      BY <3>1, <3>2
<1> HIDE DEF F
<1>10. \A p \in SignedTrees : F[p] = AuthStep(p, F, msg, v)
  BY Zenon, <1>8
<1>11. F \in [SignedTrees -> Results]
  <2> DEFINE T == {p \in SignedTrees : F[p] \in Results}
  <2>1. ASSUME NEW p \in SignedTrees, \A q \in SignedTrees : TreeRank[q] < TreeRank[p] => q \in T PROVE p \in T
    <3>1. Composite(p[1]) /\ Splits(p[1], p[2]) => \A i \in DOMAIN p[1].subs : F[Child(p, i)] \in Results
      BY Zenon, <2>1, ChildOf
    <3>2. AuthStep(p, F, msg, v) \in Results
      BY Zenon, <3>1, AuthStepType
    <3> QED
      BY Zenon, <1>10, <3>2
  <2>2. Inductive(T, TreeRank, SignedTrees) /\ T \in SUBSET SignedTrees
    BY Zenon, <2>1 DEF Inductive
  <2>3. T = SignedTrees
    <3> HIDE DEF T
    <3> QED
      BY Zenon, <1>4, <2>2, RankInduct
  <2> QED
    BY Zenon, <1>8, <2>3
<1> QED
  BY Zenon, <1>9, <1>10, <1>11

\* What the children approve.
SubApproval(p, f) ==
  Splits(p[1], p[2]) /\ IF p[1].t = "AllOf" THEN \A i \in DOMAIN p[1].subs : f[Child(p, i)]
                        ELSE \E i \in DOMAIN p[1].subs : f[Child(p, i)]

\* The cases of Approves.
ApprovesAs(p, f, m, v) ==
  /\ p[1].t = "Sig" => ApprovesStep(p, f, m, v) = (p[2] = [key |-> p[1].key])
  /\ p[1].t = "Filter" => ApprovesStep(p, f, m, v) = (m.kind \in p[1].kinds)
  /\ p[1].t = "Cw" => ApprovesStep(p, f, m, v) = v[p[1].c]["authenticate"]
  /\ Composite(p[1]) => ApprovesStep(p, f, m, v) = SubApproval(p, f)

\* Approves answers by these cases.
LEMMA ApprovesCases ==
  ASSUME NEW p \in SignedTrees, NEW f, NEW m, NEW v
  PROVE  ApprovesAs(p, f, m, v)
<1> DEFINE split == Splits(p[1], p[2])
           all == split /\ \A i \in DOMAIN p[1].subs : f[Child(p, i)]
           any == split /\ \E i \in DOMAIN p[1].subs : f[Child(p, i)]
           one == p[2] = [key |-> p[1].key]
           two == m.kind \in p[1].kinds
           three == v[p[1].c]["authenticate"]
<1>1. ApprovesStep(p, f, m, v) =
        CASE p[1].t = "Sig" -> one [] p[1].t = "Filter" -> two [] p[1].t = "Cw" -> three
          [] p[1].t = "AllOf" -> all [] p[1].t = "AnyOf" -> any
  BY Zenon DEF ApprovesStep, Child, SubSignature
<1>2. Composite(p[1]) => SubApproval(p, f) = IF p[1].t = "AllOf" THEN all ELSE any
  BY Zenon DEF SubApproval
<1>3. Composite(p[1]) <=> p[1].t \in {"AllOf", "AnyOf"}
  BY Zenon, TreeKinds
<1> HIDE DEF split, all, any, one, two, three
<1>4. /\ p[1].t = "Sig" => ApprovesStep(p, f, m, v) = one
      /\ p[1].t = "Filter" => ApprovesStep(p, f, m, v) = two
      /\ p[1].t = "Cw" => ApprovesStep(p, f, m, v) = three
      /\ p[1].t = "AllOf" => ApprovesStep(p, f, m, v) = all
      /\ p[1].t = "AnyOf" => ApprovesStep(p, f, m, v) = any
  BY <1>1
<1>5. Composite(p[1]) => ApprovesStep(p, f, m, v) = SubApproval(p, f)
  BY Zenon, <1>2, <1>3, <1>4
<1> QED
  BY Zenon, <1>4, <1>5 DEF ApprovesAs, one, two, three

\* Approves for a tree is one step of it over the answers for the children.
LEMMA ApprovesRecursion ==
  ASSUME NEW m, NEW v \in Verdicts
  PROVE  \E f \in [SignedTrees -> BOOLEAN] :
           \A p \in SignedTrees : f[p] = Approves(p[1], p[2], m, v) /\ f[p] = ApprovesStep(p, f, m, v)
<1> DEFINE F == CHOOSE f : f = [p \in SignedTrees |-> ApprovesStep(p, f, m, v)]
           step == [d \in SignedTrees \X [SignedTrees -> BOOLEAN] |-> ApprovesStep(d[1], d[2], m, v)]
<1>1. \A p \in SignedTrees : \A f \in [SignedTrees -> BOOLEAN] :
        <<p, f>> \in SignedTrees \X [SignedTrees -> BOOLEAN] /\ step[<<p, f>>] = ApprovesStep(p, f, m, v)
  BY Zenon
<1>2. \A p \in SignedTrees : \A f : ApprovesStep(p, f, m, v) \in BOOLEAN
  <2> TAKE p \in SignedTrees
  <2> TAKE f
  <2>1. ApprovesAs(p, f, m, v)
    BY Zenon, ApprovesCases
  <2>2. CASE p[1].t = "Sig"
    <3>1. (p[2] = [key |-> p[1].key]) \in BOOLEAN
      BY Zenon
    <3> QED
      BY Zenon, <2>1, <2>2, <3>1 DEF ApprovesAs
  <2>3. CASE p[1].t = "Filter"
    <3>1. (m.kind \in p[1].kinds) \in BOOLEAN
      OBVIOUS
    <3> QED
      BY Zenon, <2>1, <2>3, <3>1 DEF ApprovesAs
  <2>4. CASE p[1].t = "Cw"
    <3>1. p[1].c \in Contracts /\ v \in [Contracts -> [Hooks -> BOOLEAN]] /\ "authenticate" \in Hooks
      BY Zenon, <2>4, TreeKinds, SmartAccountAssumption DEF Hooks
    <3>2. v[p[1].c]["authenticate"] \in BOOLEAN
      BY Zenon, <3>1
    <3> QED
      BY Zenon, <2>1, <2>4, <3>2 DEF ApprovesAs
  <2>5. CASE Composite(p[1])
    <3>1. SubApproval(p, f) \in BOOLEAN
      BY Zenon DEF SubApproval
    <3> QED
      BY Zenon, <2>1, <2>5, <3>1 DEF ApprovesAs
  <2> QED
    BY Zenon, <2>2, <2>3, <2>4, <2>5, TreeKinds
<1>3. step \in [SignedTrees \X [SignedTrees -> BOOLEAN] -> BOOLEAN]
  BY <1>2
<1>4. Depends(step, TreeRank, SignedTrees, BOOLEAN)
  <2> SUFFICES ASSUME NEW p \in SignedTrees, NEW f \in [SignedTrees -> BOOLEAN], NEW g \in [SignedTrees -> BOOLEAN],
                      \A q \in SignedTrees : TreeRank[q] < TreeRank[p] => f[q] = g[q]
               PROVE  ApprovesStep(p, f, m, v) = ApprovesStep(p, g, m, v)
    BY Zenon, <1>1 DEF Depends
  <2>1. ApprovesAs(p, f, m, v) /\ ApprovesAs(p, g, m, v)
    BY Zenon, ApprovesCases
  <2>2. CASE Composite(p[1])
    <3>1. Splits(p[1], p[2]) => \A i \in DOMAIN p[1].subs : f[Child(p, i)] = g[Child(p, i)]
      BY Zenon, <2>2, ChildOf
    <3>2. SubApproval(p, f) <=> SubApproval(p, g)
      BY Zenon, <3>1 DEF SubApproval
    <3>3. SubApproval(p, f) \in BOOLEAN /\ SubApproval(p, g) \in BOOLEAN
      BY Zenon DEF SubApproval
    <3>4. SubApproval(p, f) = SubApproval(p, g)
      BY <3>2, <3>3
    <3>5. ApprovesStep(p, f, m, v) = SubApproval(p, f) /\ ApprovesStep(p, g, m, v) = SubApproval(p, g)
      BY Zenon, <2>1, <2>2 DEF ApprovesAs
    <3> QED
      BY Zenon, <3>4, <3>5
  <2> QED
    BY Zenon, <2>1, <2>2, TreeKinds DEF ApprovesAs
<1>5. TreeRank \in [SignedTrees -> Nat]
  BY TreeKinds, SmartAccountAssumption DEF TreeRank
<1>6. HasSolution(step, SignedTrees, BOOLEAN)
  <2> HIDE DEF step
  <2> QED
    BY Zenon, <1>3, <1>4, <1>5, Recursion
<1>7. PICK h \in [SignedTrees -> BOOLEAN] : \A p \in SignedTrees : h[p] = step[<<p, h>>]
  BY Zenon, <1>6 DEF HasSolution
<1>8. h = [p \in SignedTrees |-> ApprovesStep(p, h, m, v)]
  <2>1. \A p \in SignedTrees : h[p] = ApprovesStep(p, h, m, v)
    BY Zenon, <1>1, <1>7
  <2> QED
    BY Zenon, <2>1
<1>9. F = [p \in SignedTrees |-> ApprovesStep(p, F, m, v)]
  BY Zenon, <1>8
<1>10. \A p \in SignedTrees : Approves(p[1], p[2], m, v) = F[p]
  <2>1. \A x, g : Approves(x, g, m, v) = F[<<x, g>>]
    BY Zenon DEF Approves, ApprovesStep
  <2>2. \A p \in SignedTrees : p = <<p[1], p[2]>>
    BY DEF SignedTrees
  <2> HIDE DEF F
  <2> TAKE p \in SignedTrees
  <2>3. Approves(p[1], p[2], m, v) = F[<<p[1], p[2]>>]
    BY Zenon, <2>1
  <2>4. p = <<p[1], p[2]>>
    BY Zenon, <2>2
  <2> QED
    BY <2>3, <2>4
<1> HIDE DEF F
<1>11. \A p \in SignedTrees : F[p] = ApprovesStep(p, F, m, v)
  BY Zenon, <1>9
<1>12. F \in [SignedTrees -> BOOLEAN]
  BY Zenon, <1>2, <1>9, <1>11
<1> QED
  BY Zenon, <1>10, <1>11, <1>12

\* Authenticate says yes exactly if the plain reading of the tree does.
LEMMA AuthenticateIsApproval ==
  ASSUME NEW p \in SignedTrees, NEW m, NEW v \in Verdicts
  PROVE  Authenticate(p[1], p[2], m, v).ok <=> Approves(p[1], p[2], m, v)
<1>1. PICK f \in [SignedTrees -> Results] :
        \A q \in SignedTrees : f[q] = Authenticate(q[1], q[2], m, v) /\ f[q] = AuthStep(q, f, m, v)
  BY Zenon, AuthRecursion
<1>2. PICK g \in [SignedTrees -> BOOLEAN] :
        \A q \in SignedTrees : g[q] = Approves(q[1], q[2], m, v) /\ g[q] = ApprovesStep(q, g, m, v)
  BY Zenon, ApprovesRecursion
<1> DEFINE T == {q \in SignedTrees : f[q].ok = g[q]}
<1>3. ASSUME NEW q \in SignedTrees, \A r \in SignedTrees : TreeRank[r] < TreeRank[q] => r \in T PROVE q \in T
  <2>1. AnswersAs(q, f, m, v) /\ ApprovesAs(q, g, m, v) /\ f[q] = AuthStep(q, f, m, v) /\ g[q] = ApprovesStep(q, g, m, v)
    BY Zenon, <1>1, <1>2, AuthCases, ApprovesCases
  <2>2. CASE q[1].t = "Sig"
    <3> DEFINE b == "key" \in DOMAIN q[2] /\ q[2].key = q[1].key
    <3>0. f[q] = [ok |-> b, gas |-> 1] /\ g[q] = (q[2] = [key |-> q[1].key])
      BY Zenon, <2>1, <2>2 DEF AnswersAs, ApprovesAs
    <3>1. f[q].ok = b
      <4> HIDE DEF b
      <4> QED
        BY <3>0
    <3>2. IsSignature(q[2])
      BY Zenon, TreeKinds, SmartAccountAssumption
    <3>3. ("key" \in DOMAIN q[2] /\ q[2].key = q[1].key) <=> q[2] = [key |-> q[1].key]
      <4>1. \A x : "key" \notin DOMAIN [parts |-> x]
        BY Zenon
      <4>2. \A x : "key" \in DOMAIN [key |-> x] /\ "parts" \notin DOMAIN [key |-> x] /\ [key |-> x].key = x
        BY Zenon
      <4> QED
        BY Zenon, <3>2, <4>1, <4>2 DEF IsSignature
    <3> QED
      BY Zenon, <3>0, <3>1, <3>3
  <2>3. CASE q[1].t = "Filter"
    <3> DEFINE b == m.kind \in q[1].kinds
    <3>1. f[q] = [ok |-> b, gas |-> 1]
      BY Zenon, <2>1, <2>3 DEF AnswersAs
    <3>2. g[q] = b
      BY Zenon, <2>1, <2>3 DEF ApprovesAs
    <3> HIDE DEF b
    <3>3. f[q].ok = b
      BY <3>1
    <3> QED
      BY Zenon, <3>2, <3>3
  <2>4. CASE q[1].t = "Cw"
    <3> DEFINE b == v[q[1].c]["authenticate"]
    <3>1. f[q] = [ok |-> b, gas |-> 1]
      BY Zenon, <2>1, <2>4 DEF AnswersAs
    <3>2. g[q] = b
      BY Zenon, <2>1, <2>4 DEF ApprovesAs
    <3> HIDE DEF b
    <3>3. f[q].ok = b
      BY <3>1
    <3> QED
      BY Zenon, <3>2, <3>3
  <2>5. CASE Composite(q[1]) /\ ~Splits(q[1], q[2])
    <3>0. f[q] = [ok |-> FALSE, gas |-> 0] /\ g[q] = SubApproval(q, g)
      BY Zenon, <2>1, <2>5 DEF AnswersAs, ApprovesAs
    <3>1. f[q].ok = FALSE /\ g[q] = SubApproval(q, g)
      BY <3>0
    <3> QED
      BY Zenon, <2>5, <3>1 DEF SubApproval
  <2>6. CASE Composite(q[1]) /\ Splits(q[1], q[2])
    <3> DEFINE o == Oks(q, f)
    <3>0. f[q] = [ok |-> Verdict(q[1], o), gas |-> SumFunctionOnSet(Gases(q, f), Visited(q[1], o))]
      BY Zenon, <2>1, <2>6 DEF AnswersAs
    <3>1. f[q].ok = Verdict(q[1], o) /\ g[q] = SubApproval(q, g)
      <4>1. \A b, n : f[q] = [ok |-> b, gas |-> n] => f[q].ok = b
        OBVIOUS
      <4>2. f[q].ok = Verdict(q[1], o)
        BY Zenon, <3>0, <4>1
      <4> QED
        BY Zenon, <2>1, <2>6, <4>2 DEF ApprovesAs
    <3>2. \A i \in DOMAIN q[1].subs : f[Child(q, i)].ok = g[Child(q, i)] /\ g[Child(q, i)] \in BOOLEAN
      BY Zenon, <1>2, <1>3, <2>6, ChildOf
    <3>3. DOMAIN o = DOMAIN q[1].subs /\ \A i \in DOMAIN q[1].subs : o[i] = g[Child(q, i)] /\ o[i] \in BOOLEAN
      BY Zenon, <3>2 DEF Oks
    <3> HIDE DEF o
    <3>4. Verdict(q[1], o) = IF q[1].t = "AnyOf" THEN \E i \in DOMAIN o : o[i] ELSE \A i \in DOMAIN o : o[i]
      <4>1. CASE q[1].t = "AnyOf"
        <5>1. Settling(q[1], o) # {} <=> \E i \in DOMAIN o : o[i]
          BY Zenon, <3>3, <4>1 DEF Settling
        <5> QED
          BY Zenon, <4>1, <5>1 DEF Verdict
      <4>2. CASE q[1].t # "AnyOf"
        <5>1. Settling(q[1], o) # {} <=> \E i \in DOMAIN o : ~o[i]
          BY Zenon, <3>3, <4>2 DEF Settling
        <5> QED
          BY Zenon, <4>2, <5>1 DEF Verdict
      <4> QED
        BY Zenon, <4>1, <4>2
    <3>5. q[1].t = "AllOf" <=> q[1].t # "AnyOf"
      BY <2>6 DEF Composite
    <3>6. SubApproval(q, g) <=> Verdict(q[1], o)
      BY Zenon, <2>6, <3>3, <3>4, <3>5 DEF SubApproval
    <3>7. SubApproval(q, g) \in BOOLEAN /\ Verdict(q[1], o) \in BOOLEAN
      BY Zenon DEF SubApproval, Verdict
    <3> QED
      BY Zenon, <3>1, <3>6, <3>7
  <2> QED
    BY Zenon, <2>2, <2>3, <2>4, <2>5, <2>6, TreeKinds
<1>4. TreeRank \in [SignedTrees -> Nat]
  BY TreeKinds, SmartAccountAssumption DEF TreeRank
<1>5. Inductive(T, TreeRank, SignedTrees) /\ T \in SUBSET SignedTrees
  BY Zenon, <1>3 DEF Inductive
<1>6. T = SignedTrees
  <2> HIDE DEF T
  <2> QED
    BY Zenon, <1>4, <1>5, RankInduct
<1>7. f[p].ok = g[p]
  BY Zenon, <1>6
<1> QED
  BY Zenon, <1>1, <1>2, <1>7

-----------------------------------------------------------------------------
(***************************************************************************)
(* SmartAccount: transactions.                                             *)
(***************************************************************************)

AccountInv ==
  /\ store \in Stores
  /\ seq \in [Accounts -> Nat]
  /\ funds \in [Accounts -> Nat]

\* A transaction as Next builds it.
IsTx(tx) ==
  /\ tx.msgs \in MsgLists /\ DOMAIN tx.sel = 1 .. Len(tx.sel)
  /\ \A i \in DOMAIN tx.msgs : tx.sigs[tx.msgs[i].from] \in Signatures

\* What is selected is a list.
LEMMA SelectionList ==
  ASSUME NEW n \in Nat, NEW sel \in Selections(n)
  PROVE  DOMAIN sel = 1 .. Len(sel)
<1>1. CASE sel \in [1 .. n -> 1 .. MaxId - 1]
  <2> DEFINE S == 1 .. MaxId - 1
  <2>1. sel \in [1 .. n -> S]
    BY Zenon, <1>1
  <2> HIDE DEF S
  <2>2. sel \in Seq(S)
    BY <2>1
  <2> QED
    BY <2>2
<1>2. CASE sel = <<>> \/ sel = <<1>>
  BY <1>2
<1>3. sel \in [1 .. n -> 1 .. MaxId - 1] \/ sel = <<>> \/ sel = <<1>>
  BY Zenon DEF Selections
<1> QED
  BY Zenon, <1>1, <1>2, <1>3

\* The messages of a transaction.
LEMMA MessageList ==
  ASSUME NEW msgs \in MsgLists
  PROVE  /\ Len(msgs) \in Nat /\ DOMAIN msgs = 1 .. Len(msgs) /\ 1 \in DOMAIN msgs
         /\ \A i \in DOMAIN msgs : IsMessage(msgs[i]) /\ msgs[i].from \in Accounts
<1>1. msgs \in Seq(Range(msgs)) /\ msgs # <<>> /\ \A i \in DOMAIN msgs : IsMessage(msgs[i])
  BY Zenon, SmartAccountAssumption
<1>2. Len(msgs) \in Nat /\ DOMAIN msgs = 1 .. Len(msgs) /\ 1 \in DOMAIN msgs
  BY <1>1
<1> QED
  BY Zenon, <1>1, <1>2 DEF IsMessage

\* The steps there are.
LEMMA AccountSteps ==
  ASSUME Next
  PROVE  (\E tx : \E v \in Verdicts : IsTx(tx) /\ Deliver(tx, v)) \/ Reactivate \/ Restart
<1> SUFFICES ASSUME ~Reactivate, ~Restart
             PROVE  \E tx : \E v \in Verdicts : IsTx(tx) /\ Deliver(tx, v)
  BY Zenon
<1>1. PICK msgs \in MsgLists :
        \E sel \in Selections(Len(msgs)),
           sigs \in {f \in [{msgs[i].from : i \in DOMAIN msgs} -> UNION Range(Sigs)] :
                       \A a \in DOMAIN f : f[a] \in Sigs[a]},
           old \in {FALSE} \cup {seq # Zero}, v \in Verdicts :
          Deliver([msgs |-> msgs, sel |-> sel, sigs |-> sigs,
                   seqs |-> [a \in DOMAIN sigs |-> IF old THEN 0 ELSE seq[a]]], v)
  BY Zenon DEF Next
<1>2. PICK sel \in Selections(Len(msgs)),
           sigs \in {f \in [{msgs[i].from : i \in DOMAIN msgs} -> UNION Range(Sigs)] :
                       \A a \in DOMAIN f : f[a] \in Sigs[a]},
           old \in {FALSE} \cup {seq # Zero}, v \in Verdicts :
          Deliver([msgs |-> msgs, sel |-> sel, sigs |-> sigs,
                   seqs |-> [a \in DOMAIN sigs |-> IF old THEN 0 ELSE seq[a]]], v)
  BY Zenon, <1>1
<1> DEFINE tx == [msgs |-> msgs, sel |-> sel, sigs |-> sigs,
                  seqs |-> [a \in DOMAIN sigs |-> IF old THEN 0 ELSE seq[a]]]
<1>3. tx.msgs = msgs /\ tx.sel = sel /\ tx.sigs = sigs
  BY Zenon
<1>4. DOMAIN sel = 1 .. Len(sel)
  BY Zenon, MessageList, SelectionList
<1>5. \A i \in DOMAIN msgs : sigs[msgs[i].from] \in Signatures
  <2>1. DOMAIN sigs = {msgs[i].from : i \in DOMAIN msgs} /\ \A a \in DOMAIN sigs : sigs[a] \in Sigs[a]
    BY Zenon
  <2>2. \A i \in DOMAIN msgs : msgs[i].from \in DOMAIN sigs /\ msgs[i].from \in Accounts
    BY Zenon, <2>1, MessageList
  <2>3. \A a \in Accounts : Sigs[a] \in SUBSET Signatures
    BY Zenon, SmartAccountAssumption
  <2> QED
    BY Zenon, <2>1, <2>2, <2>3
<1>6. Deliver(tx, v)
  BY Zenon, <1>2
<1> HIDE DEF tx
<1>7. IsTx(tx)
  BY Zenon, <1>3, <1>4, <1>5 DEF IsTx
<1> QED
  BY Zenon, <1>6, <1>7

\* The ante handler admits a message of the authenticator flow only with the
\* consent of its signer.
LEMMA AdmitConsents ==
  ASSUME AccountInv, NEW tx, IsTx(tx), NEW v \in Verdicts, NEW i \in DOMAIN tx.msgs, i \in DOMAIN tx.sel,
         store.active, tx.sel # <<>>, Admit(tx, i, v).ok
  PROVE  Consents(tx, i, v)
<1> DEFINE m == tx.msgs[i]
           x == Selected(store, tx, i)
<1>1. m.from \in Accounts /\ tx.sigs[m.from] \in Signatures
  BY Zenon, MessageList DEF IsTx
<1>2. Found(store, tx, i) /\ SequenceMatch(tx, i)
  <2>1. [ok |-> FALSE, gas |-> 0].ok = FALSE
    BY Zenon
  <2> QED
    BY Zenon, <2>1 DEF Admit
<1>3. x \in Trees
  <2>1. store.auths[m.from] \in Lists
    BY <1>1 DEF AccountInv, Stores, StoreRecords
  <2> QED
    BY Zenon, <1>2, <2>1, ListOf DEF Found, Selected
<1>4. Authenticate(x, tx.sigs[m.from], m, v).ok
  BY Zenon, <1>2 DEF Admit
<1> DEFINE p == <<x, tx.sigs[m.from]>>
<1>5. p \in SignedTrees /\ p[1] = x /\ p[2] = tx.sigs[m.from]
  <2> HIDE DEF x, m
  <2> QED
    BY <1>1, <1>3 DEF SignedTrees
<1>6. Approves(x, tx.sigs[m.from], m, v)
  <2> HIDE DEF p, x, m
  <2>1. Authenticate(p[1], p[2], m, v).ok <=> Approves(p[1], p[2], m, v)
    BY Zenon, <1>5, AuthenticateIsApproval
  <2> QED
    BY Zenon, <1>4, <1>5, <2>1
<1> QED
  BY Zenon, <1>2, <1>6 DEF Consents, Found, Selected, SequenceMatch

\* What the ante handler's answer means.
AnteMeans(tx, v) ==
  /\ Ante(tx, v).ok => Ante(tx, v).paid
  /\ Ante(tx, v).paid => funds[Payer(tx)] > 0 /\ Consents(tx, 1, v)
  /\ Ante(tx, v).ok => \A i \in DOMAIN tx.msgs : Consents(tx, i, v)
  /\ Ante(tx, v).told # <<>> => Ante(tx, v).ok

\* The ante handler takes the fee, lets messages through and tells contracts
\* only with consent.
LEMMA AnteConsents ==
  ASSUME AccountInv, NEW tx, IsTx(tx), NEW v \in Verdicts
  PROVE  AnteMeans(tx, v)
<1>0. Len(tx.msgs) \in Nat /\ DOMAIN tx.msgs = 1 .. Len(tx.msgs) /\ 1 \in DOMAIN tx.msgs
  BY Zenon, MessageList DEF IsTx
<1>1. CASE IsCircuitBreakActive(store, tx)
  <2> DEFINE ok == /\ CanPay(tx)
                   /\ \A i \in DOMAIN tx.msgs :
                        /\ SequenceMatch(tx, i)
                        /\ tx.sigs[tx.msgs[i].from] = [key |-> Own[tx.msgs[i].from]]
  <2>1. Ante(tx, v) = [ok |-> ok, paid |-> ok, told |-> <<>>]
    BY Zenon, <1>1 DEF Ante, ClassicAnte
  <2>2. ok => \A i \in DOMAIN tx.msgs : Consents(tx, i, v)
    BY Zenon, <1>1 DEF Consents, SequenceMatch, IsCircuitBreakActive
  <2>3. ok => funds[Payer(tx)] > 0
    BY Zenon DEF CanPay
  <2> HIDE DEF ok
  <2>4. Ante(tx, v).ok = ok /\ Ante(tx, v).paid = ok /\ Ante(tx, v).told = <<>>
    BY <2>1
  <2> QED
    BY Zenon, <1>0, <2>2, <2>3, <2>4 DEF AnteMeans
<1>2. CASE ~IsCircuitBreakActive(store, tx)
  <2> DEFINE n == Len(tx.msgs)
             r == [i \in 1 .. n |-> Admit(tx, i, v)]
             paid == /\ Len(tx.sel) = n
                     /\ r[1].ok
                     /\ r[1].gas <= MaximumUnauthenticatedGas
                     /\ CanPay(tx)
             all == paid /\ \A i \in 2 .. n : r[i].ok
             t == [i \in 1 .. n |-> Track(Selected(store, tx, i), <<tx.sel[i]>>, v)]
             ok == all /\ \A i \in 1 .. n : t[i].ok
             told == IF ok THEN [i \in 1 .. n |-> t[i].told] ELSE <<>>
  <2>1. Ante(tx, v) = [ok |-> ok, paid |-> paid, told |-> told]
    BY Zenon, <1>2 DEF Ante, AuthenticatorAnte
  <2>2. store.active /\ tx.sel # <<>>
    BY Zenon, <1>2 DEF IsCircuitBreakActive
  <2>3. \A i \in 1 .. n : r[i] = Admit(tx, i, v)
    BY Zenon
  <2>4. ok => paid /\ \A i \in 2 .. n : r[i].ok
    BY Zenon
  <2>5. paid => Len(tx.sel) = n /\ r[1].ok /\ funds[Payer(tx)] > 0
    BY Zenon DEF CanPay
  <2>6. told # <<>> => ok
    BY Zenon
  <2> HIDE DEF r, paid, ok, told
  <2>7. ASSUME NEW i \in 1 .. n, Len(tx.sel) = n, r[i].ok PROVE Consents(tx, i, v)
    <3>1. DOMAIN tx.sel = 1 .. n
      BY Zenon, <2>7 DEF IsTx
    <3> QED
      BY Zenon, <1>0, <2>2, <2>3, <2>7, <3>1, AdmitConsents
  <2>8. Ante(tx, v).ok = ok /\ Ante(tx, v).paid = paid /\ Ante(tx, v).told = told
    BY <2>1
  <2>9. \A i \in 1 .. n : i = 1 \/ i \in 2 .. n
    BY <1>0
  <2>10. paid => Consents(tx, 1, v)
    BY Zenon, <1>0, <2>5, <2>7
  <2>11. ok => \A i \in DOMAIN tx.msgs : Consents(tx, i, v)
    BY Zenon, <1>0, <2>4, <2>5, <2>7, <2>9
  <2> QED
    BY Zenon, <2>4, <2>5, <2>6, <2>8, <2>10, <2>11 DEF AnteMeans
<1> QED
  BY Zenon, <1>1, <1>2

\* What a delivery may do.
Delivered ==
  /\ AccountInv' /\ SelectedSurvives'
  /\ tracked' # tracked => last'.ante /\ funds' # funds
  /\ funds' # funds => last'.payer
  /\ store' # store \/ tracked' # tracked => last'.all /\ seq' # seq

\* Deliver does no more.
LEMMA DeliverStep ==
  ASSUME AccountInv, NEW tx, IsTx(tx), NEW v \in Verdicts, Deliver(tx, v)
  PROVE  Delivered
<1> DEFINE ante == Ante(tx, v)
           auth == ~IsCircuitBreakActive(store, tx)
           run == RunMessages(tx.msgs, v)
           done == ante.ok /\ ~run.failed /\ PostHandle(run, tx, v)
           agreed == [i \in DOMAIN tx.msgs |-> Consents(tx, i, v)]
           kept == done /\ auth => \A i \in DOMAIN tx.msgs : Found(run, tx, i)
           all == \A i \in DOMAIN tx.msgs : agreed[i]
           pay == Payer(tx)
<1>1. /\ store' = IF done THEN run ELSE store
      /\ funds' = IF ante.paid THEN [funds EXCEPT ![pay] = @ - 1] ELSE funds
      /\ seq' = IF ante.ok THEN [a \in Accounts |-> IF a \in Signers(tx) THEN seq[a] + 1 ELSE seq[a]] ELSE seq
      /\ tracked' = IF ante.told = <<>> THEN tracked ELSE tracked (+) Told(ante.told)
      /\ last' = [tx |-> TRUE, ante |-> ante.ok, kept |-> kept, payer |-> agreed[1], all |-> all]
  BY Zenon DEF Deliver
<1>2. run \in Stores
  BY Zenon, RunKeeps DEF AccountInv, IsTx
<1>3. AnteMeans(tx, v)
  BY Zenon, AnteConsents
<1>4. ante.ok => ante.paid
  BY Zenon, <1>3 DEF AnteMeans
<1>5. 1 \in DOMAIN tx.msgs /\ pay \in Accounts /\ pay \in Signers(tx)
  BY Zenon, MessageList DEF IsTx, Payer, Signers
<1>6. ante.paid => funds[pay] > 0 /\ agreed[1]
  BY Zenon, <1>3, <1>5 DEF AnteMeans
<1>7. ante.ok => all
  BY Zenon, <1>3 DEF AnteMeans
<1>8. done => ante.ok
  BY Zenon
<1>9. ante.told # <<>> => ante.ok
  BY Zenon, <1>3 DEF AnteMeans
<1>10. run.active /\ done => kept
  BY Zenon DEF PostHandle, IsCircuitBreakActive
<1>11. ~done => kept
  BY Zenon
<1> DEFINE okay == ante.ok
           paid == ante.paid
           payer == agreed[1]
<1>12. last'.ante = okay /\ last'.kept = kept /\ last'.payer = payer /\ last'.all = all
  <2> HIDE DEF okay, kept, payer, all
  <2>1. last' = [tx |-> TRUE, ante |-> okay, kept |-> kept, payer |-> payer, all |-> all]
    BY Zenon, <1>1 DEF okay, payer
  <2> QED
    BY <2>1
<1>13. store' \in Stores
  BY Zenon, <1>1, <1>2 DEF AccountInv
<1> HIDE DEF okay, paid, payer, kept, all, run, done, pay
<1>14. funds' \in [Accounts -> Nat] /\ (paid => funds' # funds) /\ (~paid => funds' = funds)
  <2>1. funds' = IF paid THEN [funds EXCEPT ![pay] = @ - 1] ELSE funds
    BY Zenon, <1>1 DEF paid
  <2>2. funds \in [Accounts -> Nat] /\ (paid => funds[pay] > 0) /\ pay \in Accounts
    BY Zenon, <1>5, <1>6 DEF AccountInv, paid
  <2>3. CASE paid
    <3>1. funds[pay] \in Nat /\ funds[pay] - 1 \in Nat /\ funds[pay] - 1 # funds[pay]
      BY <2>2, <2>3
    <3>2. funds' = [funds EXCEPT ![pay] = funds[pay] - 1]
      BY Zenon, <2>1, <2>3
    <3> QED
      BY <2>2, <2>3, <3>1, <3>2
  <2>4. CASE ~paid
    BY Zenon, <2>1, <2>2, <2>4
  <2> QED
    BY Zenon, <2>3, <2>4
<1>15. seq' \in [Accounts -> Nat] /\ (okay => seq' # seq)
  <2> DEFINE S == Signers(tx)
  <2>1. seq' = IF okay THEN [a \in Accounts |-> IF a \in S THEN seq[a] + 1 ELSE seq[a]] ELSE seq
    BY Zenon, <1>1 DEF okay
  <2>2. seq \in [Accounts -> Nat] /\ pay \in Accounts /\ pay \in S
    BY Zenon, <1>5 DEF AccountInv
  <2> HIDE DEF S
  <2>3. \A a \in Accounts : seq[a] \in Nat /\ seq[a] + 1 \in Nat /\ seq[a] + 1 # seq[a]
    BY <2>2
  <2>4. CASE okay
    <3>1. seq' = [a \in Accounts |-> IF a \in S THEN seq[a] + 1 ELSE seq[a]]
      BY Zenon, <2>1, <2>4
    <3>2. seq'[pay] = seq[pay] + 1
      BY Zenon, <2>2, <3>1
    <3>3. seq' \in [Accounts -> Nat]
      BY <2>3, <3>1
    <3> QED
      BY Zenon, <2>2, <2>3, <3>2, <3>3
  <2> QED
    BY Zenon, <2>1, <2>2, <2>4
<1>16. AccountInv'
  BY Zenon, <1>13, <1>14, <1>15 DEF AccountInv
<1>17. SelectedSurvives'
  <2>1. store'.active => kept
    BY Zenon, <1>1, <1>10, <1>11
  <2> QED
    BY Zenon, <1>12, <2>1 DEF SelectedSurvives
<1>18. tracked' # tracked => okay
  BY Zenon, <1>1, <1>9 DEF okay
<1>19. store' # store => okay
  BY Zenon, <1>1, <1>8 DEF okay
<1>20. okay => paid /\ all
  BY Zenon, <1>4, <1>7 DEF okay, paid
<1>21. paid => payer
  BY Zenon, <1>6 DEF paid, payer
<1> QED
  BY Zenon, <1>12, <1>14, <1>15, <1>16, <1>17, <1>18, <1>19, <1>20, <1>21 DEF Delivered

\* Every step keeps the invariant, and only a delivery moves fees or tells
\* contracts.
LEMMA AccountStep ==
  ASSUME AccountInv, SelectedSurvives, [Next]_vars
  PROVE  /\ AccountInv' /\ SelectedSurvives'
         /\ Next => Delivered \/ (~last'.tx /\ UNCHANGED tracked)
<1>1. CASE UNCHANGED vars /\ ~Next
  BY Zenon, <1>1 DEF vars, AccountInv, SelectedSurvives
<1>2. CASE \E tx : \E v \in Verdicts : IsTx(tx) /\ Deliver(tx, v)
  <2>1. Delivered
    BY Zenon, <1>2, DeliverStep
  <2> QED
    BY Zenon, <2>1 DEF Delivered
<1>3. CASE Reactivate \/ Restart
  <2>1. /\ last' = Idle /\ UNCHANGED <<seq, funds, tracked>>
        /\ store' \in {[store EXCEPT !.active = TRUE], [store EXCEPT !.next = IF @ = 0 THEN 1 ELSE @]}
    BY Zenon, <1>3 DEF Reactivate, Restart
  <2>2. Idle.kept = TRUE /\ Idle.tx = FALSE
    BY Zenon DEF Idle
  <2>3. store \in Stores /\ store \in StoreRecords
    BY Zenon DEF AccountInv, Stores
  <2>4. store' \in StoreRecords /\ store'.auths = store.auths /\ store'.next >= store.next
    <3>1. CASE store' = [store EXCEPT !.active = TRUE]
      <4>1. store' \in StoreRecords
        BY <2>3, <3>1 DEF StoreRecords
      <4>2. store'.auths = store.auths /\ store'.next = store.next /\ store.next \in Nat
        BY <2>3, <3>1 DEF StoreRecords
      <4> QED
        BY <4>1, <4>2
    <3>2. CASE store' = [store EXCEPT !.next = IF @ = 0 THEN 1 ELSE @]
      <4>1. store' \in StoreRecords
        BY <2>3, <3>2 DEF StoreRecords
      <4>2. store'.auths = store.auths /\ store'.next >= store.next
        BY <2>3, <3>2 DEF StoreRecords
      <4> QED
        BY <4>1, <4>2
    <3> QED
      BY Zenon, <2>1, <3>1, <3>2
  <2>5. store' \in Stores
    BY Zenon, <2>3, <2>4, FreshStays
  <2>6. AccountInv'
    BY Zenon, <2>1, <2>5 DEF AccountInv
  <2> QED
    BY Zenon, <2>1, <2>2, <2>6 DEF SelectedSurvives
<1> QED
  BY Zenon, <1>1, <1>2, <1>3, AccountSteps

\* The first state.
LEMMA AccountInit ==
  ASSUME Init
  PROVE  AccountInv /\ SelectedSurvives
<1>1. store \in Stores
  BY Zenon, GenesisStore DEF Init
<1>2. seq \in [Accounts -> Nat] /\ funds \in [Accounts -> Nat]
  BY SmartAccountAssumption DEF Init, Zero
<1>3. last.kept = TRUE
  BY Zenon DEF Init, Idle
<1> QED
  BY Zenon, <1>1, <1>2, <1>3 DEF AccountInv, SelectedSurvives

\* An authenticator id belongs to one account and the counter is past it,
\* through every add, removal, failed delivery and restart from an export
\* (AddAuthenticator, RemoveAuthenticator, InitGenesis).
THEOREM IdsUniqueHolds == Spec => []IdsUnique
<1>1. Init => AccountInv /\ SelectedSurvives
  BY AccountInit
<1>2. AccountInv /\ SelectedSurvives /\ [Next]_vars => AccountInv' /\ SelectedSurvives'
  BY AccountStep
<1>3. AccountInv => IdsUnique
  BY Zenon DEF AccountInv, Stores, Fresh, IdsUnique, Ids
<1> QED
  BY <1>1, <1>2, <1>3, PTL DEF Spec

\* After a delivery of the authenticator flow that took effect, every
\* authenticator it was authenticated by is still stored, unless it switched
\* the module off (PostHandler fetches each one again).
THEOREM SelectedSurvivesHolds == Spec => []SelectedSurvives
<1>1. Init => AccountInv /\ SelectedSurvives
  BY AccountInit
<1>2. AccountInv /\ SelectedSurvives /\ [Next]_vars => AccountInv' /\ SelectedSurvives'
  BY AccountStep
<1> QED
  BY <1>1, <1>2, PTL DEF Spec

\* The contracts hear of a transaction by Track only if every message of it was
\* authenticated and the fee is paid (the ante handler keeps what Track wrote
\* only if all succeed).
THEOREM TrackedArePaidHolds == Spec => TrackedArePaid
<1>1. Init => AccountInv /\ SelectedSurvives
  BY AccountInit
<1>2. AccountInv /\ SelectedSurvives /\ [Next]_vars => AccountInv' /\ SelectedSurvives'
  BY AccountStep
<1>3. AccountInv /\ SelectedSurvives /\ [Next]_vars
        => [tracked' # tracked => last'.ante /\ funds' # funds]_vars
  BY Zenon, AccountStep DEF Delivered
<1> QED
  BY <1>1, <1>2, <1>3, PTL DEF Spec, TrackedArePaid

\* A delivery takes the fee only with the payer's consent, and changes the store
\* or tells the contracts only with the consent of every signer, by the plain
\* reading of the authenticator trees, for the current sequence number, which
\* then moves on (the ante handler, Authenticate of every kind of node).
THEOREM ConsentOnlyHolds == Spec => ConsentOnly
<1>1. Init => AccountInv /\ SelectedSurvives
  BY AccountInit
<1>2. AccountInv /\ SelectedSurvives /\ [Next]_vars => AccountInv' /\ SelectedSurvives'
  BY AccountStep
<1>3. AccountInv /\ SelectedSurvives /\ [Next]_vars
        => [last'.tx => /\ funds' # funds => last'.payer
                        /\ store' # store \/ tracked' # tracked => last'.all /\ seq' # seq]_vars
  BY Zenon, AccountStep DEF Delivered
<1> QED
  BY <1>1, <1>2, <1>3, PTL DEF Spec, ConsentOnly
=============================================================================
