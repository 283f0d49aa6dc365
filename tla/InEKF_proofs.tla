---------------------------- MODULE InEKF_proofs ----------------------------
(***************************************************************************)
(* The filter's maps always name the columns of X, whatever the number of  *)
(* contacts and landmarks, as long as init is not called on a filter that  *)
(* holds points.                                                           *)
(***************************************************************************)
EXTENDS InEKF, TLAPS

\* The lists of the loops: the column read for a point that is to be removed is
\* the one it has now, a point to be added has none, and a foot in contact is
\* never on the list of the removals.
ListInv ==
  /\ indicated \cap released = {}
  /\ \A a \in DOMAIN removing : a \in Estimated /\ removing[a] = index[a]
  /\ \A a \in adding : a \notin Estimated
  /\ \A id \in indicated : Contact(id) \notin DOMAIN removing

\* The inductive invariant.
FilterInv ==
  TypeOK /\ IndexesOwnColumn /\ NoOrphanColumn /\ CovarianceFollowsState /\ ListInv

\* The helpers by their values: one step of the removal loop takes a line out of the
\* sequence and keeps the order of the others.
LEMMA WithoutValue ==
  ASSUME NEW S, NEW lines \in Seq(S), NEW place \in 1 .. Len(lines)
  PROVE  /\ Without(lines, place) \in Seq(S)
         /\ Len(Without(lines, place)) = Len(lines) - 1
         /\ \A k \in 1 .. Len(lines) - 1 :
              Without(lines, place)[k] = IF k < place THEN lines[k] ELSE lines[k + 1]
<1>1. Len(lines) \in Nat /\ Len(lines) - 1 \in Nat /\ place \in Nat
  OBVIOUS
<1>2. \A k \in 1 .. Len(lines) - 1 :
        (IF k < place THEN lines[k] ELSE lines[k + 1]) \in S
  BY <1>1
<1>3. Without(lines, place) \in [1 .. Len(lines) - 1 -> S]
  BY <1>2 DEF Without
<1> QED
  BY <1>1, <1>3 DEF Without

\* The three removals take out three lines in a row.
LEMMA WithoutRowsValue ==
  ASSUME NEW S, NEW lines \in Seq(S), NEW start \in Nat, start + 3 <= Len(lines)
  PROVE  /\ WithoutRows(lines, start) \in Seq(S)
         /\ Len(WithoutRows(lines, start)) = Len(lines) - 3
         /\ \A k \in 1 .. Len(lines) - 3 :
              WithoutRows(lines, start)[k] = IF k <= start THEN lines[k] ELSE lines[k + 3]
<1> DEFINE one == Without(lines, start + 1)
           two == Without(one, start + 1)
           three == Without(two, start + 1)
<1> HIDE DEF one, two, three
<1>1. Len(lines) \in Nat /\ start + 1 \in 1 .. Len(lines)
  OBVIOUS
<1>2. /\ one \in Seq(S) /\ Len(one) = Len(lines) - 1
      /\ \A k \in 1 .. Len(lines) - 1 : one[k] = IF k < start + 1 THEN lines[k] ELSE lines[k + 1]
  BY <1>1, WithoutValue DEF one
<1>3. /\ two \in Seq(S) /\ Len(two) = Len(one) - 1
      /\ \A k \in 1 .. Len(one) - 1 : two[k] = IF k < start + 1 THEN one[k] ELSE one[k + 1]
  <2>1. start + 1 \in 1 .. Len(one)
    BY <1>1, <1>2
  <2> QED
    BY <1>2, <2>1, WithoutValue DEF two
<1>4. /\ three \in Seq(S) /\ Len(three) = Len(two) - 1
      /\ \A k \in 1 .. Len(two) - 1 : three[k] = IF k < start + 1 THEN two[k] ELSE two[k + 1]
  <2>1. start + 1 \in 1 .. Len(two)
    BY <1>1, <1>2, <1>3
  <2> QED
    BY <1>3, <2>1, WithoutValue DEF three
<1>5. WithoutRows(lines, start) = three
  BY DEF WithoutRows, one, two, three
<1>6. ASSUME NEW k \in 1 .. Len(lines) - 3
      PROVE  three[k] = IF k <= start THEN lines[k] ELSE lines[k + 3]
  <2>1. CASE k <= start
    <3>1. k < start + 1 /\ k \in 1 .. Len(one) - 1 /\ k \in 1 .. Len(two) - 1 /\ k \in 1 .. Len(lines) - 1
      BY <1>1, <1>2, <1>3, <2>1
    <3>2. three[k] = two[k] /\ two[k] = one[k] /\ one[k] = lines[k]
      BY <1>2, <1>3, <1>4, <3>1
    <3> QED
      BY <2>1, <3>2
  <2>2. CASE ~(k <= start)
    <3>1. three[k] = two[k + 1] /\ k + 1 \in 1 .. Len(one) - 1 /\ ~(k + 1 < start + 1)
      BY <1>1, <1>2, <1>3, <1>4, <2>2
    <3>2. two[k + 1] = one[(k + 1) + 1] /\ (k + 1) + 1 = k + 2 /\ k + 2 \in 1 .. Len(lines) - 1
      BY <1>1, <1>2, <1>3, <3>1
    <3>3. one[k + 2] = lines[(k + 2) + 1] /\ (k + 2) + 1 = k + 3
      BY <1>1, <1>2, <2>2, <3>2
    <3> QED
      BY <2>2, <3>1, <3>2, <3>3
  <2> QED
    BY <2>1, <2>2
<1> QED
  BY <1>1, <1>2, <1>3, <1>4, <1>5, <1>6

\* An added point has the three rows before those of the biases.
LEMMA WithRowsValue ==
  ASSUME NEW a \in Vector, NEW lines \in Seq(Label), DimTheta <= Len(lines)
  PROVE  /\ WithRows(lines, a) \in Seq(Label)
         /\ Len(WithRows(lines, a)) = Len(lines) + 3
         /\ \A r \in 1 .. Len(lines) + 3 :
              WithRows(lines, a)[r] =
                IF r <= Len(lines) - DimTheta THEN lines[r]
                ELSE IF r <= Len(lines) - DimTheta + 3
                     THEN <<a, r - (Len(lines) - DimTheta) - 1>> ELSE lines[r - 3]
<1> DEFINE RowAt(r) == IF r <= Len(lines) - DimTheta THEN lines[r]
                       ELSE IF r <= Len(lines) - DimTheta + 3
                            THEN <<a, r - (Len(lines) - DimTheta) - 1>> ELSE lines[r - 3]
<1>1. Len(lines) \in Nat /\ Len(lines) - DimTheta \in Nat
  BY DEF DimTheta
<1>2. ASSUME NEW r \in 1 .. Len(lines) + 3 PROVE RowAt(r) \in Label
  <2>1. CASE r <= Len(lines) - DimTheta
    BY <1>1, <2>1 DEF DimTheta
  <2>2. CASE Len(lines) - DimTheta < r /\ r <= Len(lines) - DimTheta + 3
    <3>1. r - (Len(lines) - DimTheta) - 1 \in 0 .. 2 /\ ~(r <= Len(lines) - DimTheta)
      BY <1>1, <2>2
    <3>2. <<a, r - (Len(lines) - DimTheta) - 1>> \in Label
      BY <3>1 DEF Label
    <3> QED
      BY <2>2, <3>1, <3>2
  <2>3. CASE Len(lines) - DimTheta + 3 < r
    <3>1. r - 3 \in 1 .. Len(lines) /\ ~(r <= Len(lines) - DimTheta)
           /\ ~(r <= Len(lines) - DimTheta + 3)
      BY <1>1, <2>3
    <3> QED
      BY <3>1
  <2> QED
    BY <1>1, <2>1, <2>2, <2>3
<1>3. WithRows(lines, a) = [r \in 1 .. Len(lines) + 3 |-> RowAt(r)]
  BY DEF WithRows
<1> HIDE DEF RowAt
<1>4. WithRows(lines, a) \in [1 .. Len(lines) + 3 -> Label]
  BY <1>2, <1>3
<1>5. /\ WithRows(lines, a) \in Seq(Label) /\ Len(WithRows(lines, a)) = Len(lines) + 3
  BY <1>1, <1>4
<1> QED
  BY <1>3, <1>5 DEF RowAt

\* The maps of a step of the removal loop: the removed point leaves, the points
\* behind it move one column forward.
LEMMA MovedValue ==
  ASSUME NEW map, NEW a, NEW column
  PROVE  /\ DOMAIN Except(Moved(map, column), a) = DOMAIN map \ {a}
         /\ \A b \in DOMAIN map \ {a} :
              Except(Moved(map, column), a)[b] =
                IF map[b] > column THEN map[b] - 1 ELSE map[b]
         /\ DOMAIN Pending(Except(map, a), column) = DOMAIN map \ {a}
         /\ \A b \in DOMAIN map \ {a} :
              Pending(Except(map, a), column)[b] =
                IF map[b] > column THEN map[b] - 1 ELSE map[b]
BY DEF Except, Moved, Pending

\* A new state has the rows of the base and of the biases.
LEMMA NewRowsValue ==
  /\ NewRows \in Seq(Label) /\ Len(NewRows) = 15
  /\ \A r \in 1 .. 9 : NewRows[r] = BaseRow(r)
  /\ \A k \in 1 .. DimTheta : NewRows[15 - DimTheta + k] = BiasRow(k)
<1>1. \A r \in 1 .. 9 : BaseRow(r) \in Label
  BY DEF BaseRow, Vector, Label
<1>2. \A k \in 1 .. 6 : BiasRow(k) \in Label
  BY DEF BiasRow, Vector, Label
<1>3. NewRows = [r \in 1 .. 15 |-> IF r <= 9 THEN BaseRow(r) ELSE BiasRow(r - 9)]
  BY DEF NewRows, DimTheta
<1>4. \A r \in 1 .. 15 :
        (IF r <= 9 THEN BaseRow(r) ELSE BiasRow(r - 9)) \in Label
  <2> TAKE r \in 1 .. 15
  <2>1. CASE r <= 9
    BY <1>1, <2>1
  <2>2. CASE ~(r <= 9)
    <3>1. r - 9 \in 1 .. 6
      BY <2>2
    <3> QED
      BY <1>2, <2>2, <3>1
  <2> QED
    BY <2>1, <2>2
<1>5. NewRows \in [1 .. 15 -> Label]
  BY <1>3, <1>4
<1>6. NewRows \in Seq(Label) /\ Len(NewRows) = 15
  <2>1. ASSUME NEW n \in Nat, NewRows \in [1 .. n -> Label]
        PROVE  NewRows \in Seq(Label) /\ Len(NewRows) = n
    BY <2>1
  <2> QED
    BY <1>5, <2>1
<1>7. \A k \in 1 .. DimTheta : NewRows[15 - DimTheta + k] = BiasRow(k)
  <2> SUFFICES ASSUME NEW k \in 1 .. 6 PROVE NewRows[15 - 6 + k] = BiasRow(k)
    BY DEF DimTheta
  <2>1. 15 - 6 + k \in 1 .. 15 /\ ~(15 - 6 + k <= 9) /\ (15 - 6 + k) - 9 = k
    OBVIOUS
  <2> QED
    BY <1>3, <2>1
<1> QED
  BY <1>3, <1>6, <1>7

\* A state without points satisfies the parts of the invariant about X and P.
LEMMA NewState ==
  columns = <<>> /\ rows = NewRows /\ Estimated = {} =>
    columns \in Seq(Anchor) /\ rows \in Seq(Label) /\ CovarianceFollowsState
<1> SUFFICES ASSUME columns = <<>>, rows = NewRows, Estimated = {}
             PROVE  columns \in Seq(Anchor) /\ rows \in Seq(Label) /\ CovarianceFollowsState
  OBVIOUS
<1>1. /\ columns \in Seq(Anchor) /\ Len(columns) = 0
      /\ rows \in Seq(Label) /\ Len(rows) = 15
  BY NewRowsValue
<1>2. \A k \in 1 .. DimTheta : rows[BiasPlace(k)] = BiasRow(k)
  BY <1>1, NewRowsValue DEF BiasPlace
<1>3. Len(rows) = 3 * (Base + Len(columns)) + DimTheta - 6
  BY <1>1 DEF Base, DimTheta
<1>4. \A r \in 1 .. 9 : rows[r] = BaseRow(r)
  BY NewRowsValue
<1> QED
  BY <1>1, <1>2, <1>3, <1>4 DEF CovarianceFollowsState

LEMMA NewStateNext ==
  columns' = <<>> /\ rows' = NewRows /\ Estimated' = {} =>
    columns' \in Seq(Anchor) /\ rows' \in Seq(Label) /\ CovarianceFollowsState'
<1> SUFFICES ASSUME columns' = <<>>, rows' = NewRows, Estimated' = {}
             PROVE  columns' \in Seq(Anchor) /\ rows' \in Seq(Label) /\ CovarianceFollowsState'
  OBVIOUS
<1>1. /\ columns' \in Seq(Anchor) /\ Len(columns') = 0
      /\ rows' \in Seq(Label) /\ Len(rows') = 15
  BY NewRowsValue
<1>2. \A k \in 1 .. DimTheta : rows'[BiasPlace(k)'] = BiasRow(k)
  BY <1>1, NewRowsValue DEF BiasPlace
<1>3. Len(rows') = 3 * (Base + Len(columns')) + DimTheta - 6
  BY <1>1 DEF Base, DimTheta
<1>4. \A r \in 1 .. 9 : rows'[r] = BaseRow(r)
  BY NewRowsValue
<1> QED
  BY <1>1, <1>2, <1>3, <1>4 DEF CovarianceFollowsState

\* An empty filter satisfies the invariant.
LEMMA FilterInit == Init => FilterInv
BY NewState DEF Init, FilterInv, TypeOK, IndexesOwnColumn, NoOrphanColumn, ListInv, Estimated,
       NoMap, Base

\* One step of the removal loop keeps the invariant.
LEMMA FilterRemove == FilterInv /\ RemoveOne => FilterInv'
<1> SUFFICES ASSUME FilterInv, RemoveOne PROVE FilterInv'
  OBVIOUS
<1>1. PICK a \in DOMAIN removing :
        /\ columns' = Without(columns, removing[a] - Base + 1)
        /\ rows' = WithoutRows(rows, StartIndex(removing[a]))
        /\ index' = Except(Moved(index, removing[a]), a)
        /\ removing' = Pending(Except(removing, a), removing[a])
        /\ UNCHANGED <<indicated, released, adding>>
  BY DEF RemoveOne
<1>2. PICK column \in Nat : a \in Estimated /\ removing[a] = column /\ index[a] = column
  BY DEF FilterInv, ListInv, TypeOK, Column
<1>3. PICK size \in Nat : size = Len(columns) /\ DOMAIN columns = 1 .. size
  BY DEF FilterInv, TypeOK
<1>4. PICK place \in 1 .. size : place = column - Base + 1 /\ columns[place] = a
  BY <1>2, <1>3 DEF FilterInv, IndexesOwnColumn
<1>5. /\ columns' \in Seq(Anchor) /\ DOMAIN columns' = 1 .. size - 1
      /\ \A k \in 1 .. size - 1 : columns'[k] = IF k < place THEN columns[k] ELSE columns[k + 1]
  <2>1. place \in 1 .. Len(columns)
    BY <1>3
  <2>2. columns \in Seq(Anchor)
    BY DEF FilterInv, TypeOK
  <2> QED
    BY <1>1, <1>2, <1>3, <1>4, <2>1, <2>2, WithoutValue
<1>6. /\ Estimated' = Estimated \ {a}
      /\ \A b \in Estimated' : index'[b] = IF index[b] > column THEN index[b] - 1 ELSE index[b]
      /\ DOMAIN removing' = DOMAIN removing \ {a}
      /\ \A b \in DOMAIN removing' :
           removing'[b] = IF removing[b] > column THEN removing[b] - 1 ELSE removing[b]
  BY <1>1, <1>2 DEF Estimated, Except, Moved, Pending
<1>7. ASSUME NEW b \in Estimated'
      PROVE  \E p \in 1 .. size : /\ index[b] = Base + p - 1 /\ columns[p] = b /\ p # place
                                  /\ index'[b] = Base + (IF p > place THEN p - 1 ELSE p) - 1
  <2>1. b \in Estimated /\ b # a /\ index[b] \in Nat
    BY <1>6 DEF FilterInv, TypeOK, Column
  <2>2. PICK p \in 1 .. size : p = index[b] - Base + 1 /\ columns[p] = b
    BY <1>3, <2>1 DEF FilterInv, IndexesOwnColumn
  <2>3. index[b] = Base + p - 1 /\ p # place
    BY <1>4, <2>1, <2>2 DEF Base
  <2>4. index[b] > column <=> p > place
    BY <1>2, <1>4, <2>1, <2>3 DEF Base
  <2>5. index'[b] = IF p > place THEN index[b] - 1 ELSE index[b]
    BY <1>6, <2>4
  <2>6. index'[b] = Base + (IF p > place THEN p - 1 ELSE p) - 1
    <3>1. CASE p > place
      BY <2>3, <2>5, <3>1 DEF Base
    <3>2. CASE ~(p > place)
      BY <2>3, <2>5, <3>2 DEF Base
    <3> QED
      BY <3>1, <3>2
  <2> QED
    BY <2>2, <2>3, <2>6
<1>13. /\ rows \in Seq(Label) /\ Len(rows) = 15 + 3 * size
       /\ rows' \in Seq(Label) /\ Len(rows') = 12 + 3 * size
       /\ \A r \in 1 .. 12 + 3 * size :
            rows'[r] = IF r <= 6 + 3 * place THEN rows[r] ELSE rows[r + 3]
  <2>1. rows \in Seq(Label) /\ Len(rows) = 15 + 3 * size
    BY <1>3 DEF FilterInv, TypeOK, CovarianceFollowsState, Base, DimTheta
  <2>2. StartIndex(column) = 6 + 3 * place /\ 6 + 3 * place \in Nat
    BY <1>2, <1>4 DEF StartIndex, Base
  <2>3. (6 + 3 * place) + 3 <= Len(rows)
    BY <1>3, <1>4, <2>1
  <2>4. Len(rows) - 3 = 12 + 3 * size
    BY <1>3, <2>1
  <2>5. /\ WithoutRows(rows, 6 + 3 * place) \in Seq(Label)
        /\ Len(WithoutRows(rows, 6 + 3 * place)) = Len(rows) - 3
        /\ \A r \in 1 .. Len(rows) - 3 :
             WithoutRows(rows, 6 + 3 * place)[r] =
               IF r <= 6 + 3 * place THEN rows[r] ELSE rows[r + 3]
    BY <2>1, <2>2, <2>3, WithoutRowsValue
  <2>6. rows' = WithoutRows(rows, 6 + 3 * place)
    BY <1>1, <1>2, <2>2
  <2> QED
    BY <2>1, <2>4, <2>5, <2>6
<1>8. TypeOK'
  <2>1. index' \in [Estimated' -> Column]
    <3>1. \A b \in Estimated' : index'[b] \in Column
      BY <1>3, <1>4, <1>7 DEF Base, Column
    <3>2. index' = [b \in Estimated' |-> index'[b]]
      BY <1>1, <1>6 DEF Except, Estimated
    <3> QED
      BY <3>1, <3>2
  <2>2. removing' \in [DOMAIN removing' -> Column]
    <3>1. \A b \in DOMAIN removing' : removing'[b] \in Column
      <4>1. ASSUME NEW b \in DOMAIN removing' PROVE removing'[b] = index'[b] /\ b \in Estimated'
        BY <1>6, <4>1 DEF FilterInv, ListInv
      <4> QED
        BY <2>1, <4>1
    <3>2. removing' = [b \in DOMAIN removing' |-> removing'[b]]
      BY <1>1, <1>6 DEF Pending, Moved
    <3> QED
      BY <3>1, <3>2
  <2> QED
    BY <1>1, <1>5, <1>6, <1>13, <2>1, <2>2 DEF FilterInv, TypeOK
<1>9. IndexesOwnColumn'
  <2> SUFFICES ASSUME NEW b \in Estimated'
               PROVE  /\ index'[b] - Base + 1 \in DOMAIN columns'
                      /\ columns'[index'[b] - Base + 1] = b
    BY DEF IndexesOwnColumn
  <2>1. PICK p \in 1 .. size : /\ columns[p] = b /\ p # place
                               /\ index'[b] = Base + (IF p > place THEN p - 1 ELSE p) - 1
    BY <1>7
  <2>2. CASE p > place
    <3>1. index'[b] - Base + 1 = p - 1 /\ p - 1 \in 1 .. size - 1 /\ ~(p - 1 < place)
      BY <1>4, <2>1, <2>2 DEF Base
    <3>2. columns'[p - 1] = columns[(p - 1) + 1] /\ (p - 1) + 1 = p
      BY <1>5, <3>1
    <3> QED
      BY <1>5, <2>1, <3>1, <3>2
  <2>3. CASE ~(p > place)
    <3>1. index'[b] - Base + 1 = p /\ p \in 1 .. size - 1 /\ p < place
      BY <1>4, <2>1, <2>3 DEF Base
    <3> QED
      BY <1>5, <2>1, <3>1
  <2> QED
    BY <2>2, <2>3
<1>10. NoOrphanColumn'
  <2> SUFFICES ASSUME NEW k \in 1 .. size - 1
               PROVE  columns'[k] \in Estimated' /\ index'[columns'[k]] = Base + k - 1
    BY <1>5 DEF NoOrphanColumn
  <2>1. PICK p \in 1 .. size : p = (IF k < place THEN k ELSE k + 1) /\ columns'[k] = columns[p]
    BY <1>5
  <2>2. columns[p] \in Estimated /\ index[columns[p]] = Base + p - 1
    BY <1>3 DEF FilterInv, NoOrphanColumn
  <2>3. p # place /\ Base + p - 1 # column
    BY <1>4, <2>1 DEF Base
  <2>4. columns[p] \in Estimated'
    BY <1>2, <1>6, <2>2, <2>3
  <2>5. PICK b : b = columns[p] /\ b \in Estimated' /\ index[b] = Base + p - 1
    BY <2>2, <2>4
  <2>6. index'[b] = IF index[b] > column THEN index[b] - 1 ELSE index[b]
    BY <1>6, <2>5
  <2>7. index'[b] = Base + k - 1
    <3>1. CASE k < place
      BY <1>2, <1>4, <2>1, <2>5, <2>6, <3>1 DEF Base
    <3>2. CASE ~(k < place)
      BY <1>2, <1>4, <2>1, <2>5, <2>6, <3>2 DEF Base
    <3> QED
      BY <3>1, <3>2
  <2> QED
    BY <2>1, <2>5, <2>7
<1>11. CovarianceFollowsState'
  <2>1. Len(columns') = size - 1 /\ Len(rows') = 3 * (Base + Len(columns')) + DimTheta - 6
    <3>1. Len(columns') \in Nat /\ DOMAIN columns' = 1 .. Len(columns') /\ size - 1 \in Nat
      BY <1>4, <1>5
    <3>2. Len(columns') = size - 1
      BY <1>5, <3>1
    <3> QED
      BY <1>3, <1>4, <1>13, <3>2 DEF Base, DimTheta
  <2>2. \A r \in 1 .. 9 : rows'[r] = BaseRow(r)
    <3> TAKE r \in 1 .. 9
    <3>1. r \in 1 .. 12 + 3 * size /\ r <= 6 + 3 * place
      BY <1>3, <1>4
    <3> QED
      BY <1>13, <3>1 DEF FilterInv, CovarianceFollowsState
  <2>3. \A k \in 1 .. DimTheta : rows'[BiasPlace(k)'] = BiasRow(k)
    <3> TAKE k \in 1 .. DimTheta
    <3>1. BiasPlace(k)' = 6 + 3 * size + k /\ BiasPlace(k) = (6 + 3 * size + k) + 3
      BY <1>3, <1>13 DEF BiasPlace, DimTheta
    <3>2. 6 + 3 * size + k \in 1 .. 12 + 3 * size /\ ~(6 + 3 * size + k <= 6 + 3 * place)
      BY <1>3, <1>4 DEF DimTheta
    <3>3. rows[BiasPlace(k)] = BiasRow(k)
      BY DEF FilterInv, CovarianceFollowsState
    <3> QED
      BY <1>13, <3>1, <3>2, <3>3
  <2>4. ASSUME NEW b \in Estimated', NEW axis \in 0 .. 2,
               NEW row \in {TransitionRow(index'[b]), NoiseRow(index'[b]),
                            ObservationRow(index'[b]), PositionRow(index'[b])}
        PROVE  rows'[row + axis + 1] = <<b, axis>>
    <3>1. PICK p \in 1 .. size :
            /\ index[b] = Base + p - 1 /\ p # place
            /\ index'[b] = Base + (IF p > place THEN p - 1 ELSE p) - 1
      BY <1>7
    <3>2. b \in Estimated
      BY <1>6
    <3>3. rows[PositionRow(index[b]) + axis + 1] = <<b, axis>>
      BY <3>2 DEF FilterInv, CovarianceFollowsState
    <3>4. PositionRow(index[b]) = 6 + 3 * p
      BY <3>1 DEF PositionRow, Base
    <3>5. CASE p > place
      <4>1. index'[b] = p + 3
        BY <3>1, <3>5 DEF Base
      <4>2. row = 3 + 3 * p
        BY <4>1 DEF TransitionRow, NoiseRow, ObservationRow, PositionRow, DimTheta
      <4>3. /\ row + axis + 1 \in 1 .. 12 + 3 * size /\ ~(row + axis + 1 <= 6 + 3 * place)
            /\ (row + axis + 1) + 3 = (6 + 3 * p) + axis + 1
        BY <1>3, <1>4, <3>5, <4>2
      <4> QED
        BY <1>13, <3>3, <3>4, <4>3
    <3>6. CASE ~(p > place)
      <4>1. index'[b] = p + 4 /\ p < place
        BY <1>4, <3>1, <3>6 DEF Base
      <4>2. row = 6 + 3 * p
        BY <4>1 DEF TransitionRow, NoiseRow, ObservationRow, PositionRow, DimTheta
      <4>3. row + axis + 1 \in 1 .. 12 + 3 * size /\ row + axis + 1 <= 6 + 3 * place
        BY <1>3, <1>4, <4>1, <4>2
      <4> QED
        BY <1>13, <3>3, <3>4, <4>2, <4>3
    <3> QED
      BY <3>5, <3>6
  <2> QED
    BY <2>1, <2>2, <2>3, <2>4 DEF CovarianceFollowsState
<1>12. ListInv'
  <2>1. \A b \in DOMAIN removing' : b \in Estimated' /\ removing'[b] = index'[b]
    BY <1>6 DEF FilterInv, ListInv
  <2> QED
    BY <1>1, <1>6, <2>1 DEF FilterInv, ListInv
<1> QED
  BY <1>8, <1>9, <1>10, <1>11, <1>12 DEF FilterInv

\* One step of the loop that adds points keeps the invariant.
LEMMA FilterAdd == FilterInv /\ AddOne => FilterInv'
<1> SUFFICES ASSUME FilterInv, AddOne PROVE FilterInv'
  OBVIOUS
<1>1. PICK a \in adding :
        /\ DOMAIN removing = {}
        /\ columns' = Append(columns, a)
        /\ rows' = WithRows(rows, a)
        /\ index' = [b \in Estimated \cup {a} |->
                       IF b \in Estimated THEN index[b] ELSE Base + Len(columns)]
        /\ adding' = adding \ {a}
        /\ UNCHANGED <<indicated, released, removing>>
  BY DEF AddOne
<1>2. a \in Anchor /\ a \notin Estimated
  BY DEF FilterInv, ListInv, TypeOK, Column
<1>3. PICK size \in Nat : size = Len(columns) /\ DOMAIN columns = 1 .. size
  BY DEF FilterInv, TypeOK
<1>4. /\ columns' \in Seq(Anchor) /\ DOMAIN columns' = 1 .. size + 1
      /\ columns'[size + 1] = a /\ \A k \in 1 .. size : columns'[k] = columns[k]
  BY <1>1, <1>2, <1>3 DEF FilterInv, TypeOK
<1>5. /\ Estimated' = Estimated \cup {a} /\ index'[a] = Base + size
      /\ \A b \in Estimated : index'[b] = index[b]
  BY <1>1, <1>2, <1>3 DEF Estimated
<1>6. index' \in [Estimated' -> Column]
  BY <1>1, <1>3, <1>5 DEF FilterInv, TypeOK, Base, Column
<1>11. /\ rows \in Seq(Label) /\ Len(rows) = 15 + 3 * size
       /\ rows' \in Seq(Label) /\ Len(rows') = 18 + 3 * size
       /\ \A r \in 1 .. 18 + 3 * size :
            rows'[r] = IF r <= 9 + 3 * size THEN rows[r]
                       ELSE IF r <= 12 + 3 * size THEN <<a, r - (9 + 3 * size) - 1>>
                            ELSE rows[r - 3]
  <2>1. rows \in Seq(Label) /\ Len(rows) = 15 + 3 * size
    BY <1>3 DEF FilterInv, TypeOK, CovarianceFollowsState, Base, DimTheta
  <2>2. /\ DimTheta <= Len(rows) /\ Len(rows) - DimTheta = 9 + 3 * size
        /\ Len(rows) + 3 = 18 + 3 * size /\ (9 + 3 * size) + 3 = 12 + 3 * size
    BY <1>3, <2>1 DEF DimTheta
  <2>3. a \in Vector
    BY <1>2 DEF Vector
  <2>4. /\ WithRows(rows, a) \in Seq(Label)
        /\ Len(WithRows(rows, a)) = Len(rows) + 3
        /\ \A r \in 1 .. Len(rows) + 3 :
             WithRows(rows, a)[r] =
               IF r <= Len(rows) - DimTheta THEN rows[r]
               ELSE IF r <= Len(rows) - DimTheta + 3
                    THEN <<a, r - (Len(rows) - DimTheta) - 1>> ELSE rows[r - 3]
    BY <2>1, <2>2, <2>3, WithRowsValue
  <2> QED
    BY <1>1, <2>1, <2>2, <2>4
<1>7. TypeOK'
  BY <1>1, <1>2, <1>4, <1>5, <1>6, <1>11 DEF FilterInv, TypeOK
<1>8. IndexesOwnColumn'
  <2> SUFFICES ASSUME NEW b \in Estimated'
               PROVE  /\ index'[b] - Base + 1 \in DOMAIN columns'
                      /\ columns'[index'[b] - Base + 1] = b
    BY DEF IndexesOwnColumn
  <2>1. CASE b = a
    <3>1. index'[b] - Base + 1 = size + 1 /\ size + 1 \in 1 .. size + 1
      BY <1>3, <1>5, <2>1 DEF Base
    <3> QED
      BY <1>4, <2>1, <3>1
  <2>2. CASE b # a
    <3>1. index'[b] - Base + 1 \in 1 .. size /\ columns[index'[b] - Base + 1] = b
      BY <1>3, <1>5, <2>2 DEF FilterInv, IndexesOwnColumn
    <3> QED
      BY <1>4, <3>1
  <2> QED
    BY <2>1, <2>2
<1>9. NoOrphanColumn'
  <2> SUFFICES ASSUME NEW k \in 1 .. size + 1
               PROVE  columns'[k] \in Estimated' /\ index'[columns'[k]] = Base + k - 1
    BY <1>4 DEF NoOrphanColumn
  <2>1. CASE k = size + 1
    BY <1>4, <1>5, <2>1 DEF Base
  <2>2. CASE k \in 1 .. size
    BY <1>3, <1>4, <1>5, <2>2 DEF FilterInv, NoOrphanColumn
  <2> QED
    BY <2>1, <2>2
<1>10. ListInv'
  BY <1>1, <1>2, <1>5 DEF FilterInv, ListInv
<1>12. CovarianceFollowsState'
  <2>1. Len(columns') = size + 1 /\ Len(rows') = 3 * (Base + Len(columns')) + DimTheta - 6
    <3>1. Len(columns') \in Nat /\ DOMAIN columns' = 1 .. Len(columns') /\ size + 1 \in Nat
      BY <1>4
    <3>2. Len(columns') = size + 1
      BY <1>4, <3>1
    <3> QED
      BY <1>3, <1>11, <3>2 DEF Base, DimTheta
  <2>2. \A r \in 1 .. 9 : rows'[r] = BaseRow(r)
    <3> TAKE r \in 1 .. 9
    <3>1. r \in 1 .. 18 + 3 * size /\ r <= 9 + 3 * size
      BY <1>3
    <3> QED
      BY <1>11, <3>1 DEF FilterInv, CovarianceFollowsState
  <2>3. \A k \in 1 .. DimTheta : rows'[BiasPlace(k)'] = BiasRow(k)
    <3> TAKE k \in 1 .. DimTheta
    <3>1. BiasPlace(k)' = 12 + 3 * size + k /\ BiasPlace(k) = (12 + 3 * size + k) - 3
      BY <1>3, <1>11 DEF BiasPlace, DimTheta
    <3>2. /\ 12 + 3 * size + k \in 1 .. 18 + 3 * size /\ ~(12 + 3 * size + k <= 9 + 3 * size)
          /\ ~(12 + 3 * size + k <= 12 + 3 * size)
      BY <1>3 DEF DimTheta
    <3>3. rows[BiasPlace(k)] = BiasRow(k)
      BY DEF FilterInv, CovarianceFollowsState
    <3> QED
      BY <1>11, <3>1, <3>2, <3>3
  <2>4. ASSUME NEW b \in Estimated', NEW axis \in 0 .. 2,
               NEW row \in {TransitionRow(index'[b]), NoiseRow(index'[b]),
                            ObservationRow(index'[b]), PositionRow(index'[b])}
        PROVE  rows'[row + axis + 1] = <<b, axis>>
    <3>1. row = 3 * index'[b] - 6
      <4>1. index'[b] \in Nat
        BY <1>6 DEF Column
      <4> QED
        BY <4>1 DEF TransitionRow, NoiseRow, ObservationRow, PositionRow, DimTheta
    <3>2. CASE b = a
      <4>1. row = 9 + 3 * size
        BY <1>3, <1>5, <3>1, <3>2 DEF Base
      <4>2. /\ row + axis + 1 \in 1 .. 18 + 3 * size /\ ~(row + axis + 1 <= 9 + 3 * size)
            /\ row + axis + 1 <= 12 + 3 * size
            /\ (row + axis + 1) - (9 + 3 * size) - 1 = axis
        BY <1>3, <4>1
      <4> QED
        BY <1>11, <3>2, <4>2
    <3>3. CASE b # a
      <4>1. b \in Estimated /\ index'[b] = index[b]
        BY <1>5, <3>3
      <4>2. PICK p \in 1 .. size : index[b] = p + 4
        <5>1. index[b] \in Nat /\ index[b] - Base + 1 \in 1 .. size
          BY <1>3, <4>1 DEF FilterInv, TypeOK, Column, IndexesOwnColumn
        <5> QED
          BY <5>1 DEF Base
      <4>3. PositionRow(index[b]) = row
        BY <3>1, <4>1 DEF PositionRow
      <4>4. rows[row + axis + 1] = <<b, axis>>
        BY <4>1, <4>3 DEF FilterInv, CovarianceFollowsState
      <4>5. row + axis + 1 \in 1 .. 18 + 3 * size /\ row + axis + 1 <= 9 + 3 * size
        BY <1>3, <3>1, <4>1, <4>2
      <4> QED
        BY <1>11, <4>4, <4>5
    <3> QED
      BY <3>2, <3>3
  <2> QED
    BY <2>1, <2>2, <2>3, <2>4 DEF CovarianceFollowsState
<1> QED
  BY <1>7, <1>8, <1>9, <1>10, <1>12 DEF FilterInv

\* The lists a call makes for its loops: the column of a point that is estimated,
\* and points that are not.
LEMMA FilterChange ==
  ASSUME FilterInv, NEW old, NEW new, Idle, Change(old, new),
         old \subseteq Estimated, new \subseteq Anchor, new \cap Estimated = {},
         \A id \in indicated : Contact(id) \notin old
  PROVE  FilterInv'
<1>1. /\ removing' = [a \in old |-> index[a]] /\ adding' = new
      /\ UNCHANGED <<columns, rows, index, indicated, released>>
  BY DEF Change
<1>2. TypeOK'
  BY <1>1 DEF FilterInv, TypeOK, Estimated
<1>3. IndexesOwnColumn' /\ NoOrphanColumn' /\ CovarianceFollowsState'
  BY <1>1 DEF FilterInv, IndexesOwnColumn, NoOrphanColumn, CovarianceFollowsState, BiasPlace,
              Estimated
<1>4. ListInv'
  BY <1>1 DEF FilterInv, ListInv, Estimated
<1> QED
  BY <1>2, <1>3, <1>4 DEF FilterInv

\* A contact is not a landmark, and two contacts differ by their ids.
LEMMA AnchorsDiffer ==
  /\ \A i, j : Contact(i) = Contact(j) => i = j
  /\ \A i, j : Contact(i) # Landmark(j)
BY DEF Contact, Landmark

\* What is said of the rows follows them and the columns.
LEMMA CovarianceKept ==
  CovarianceFollowsState /\ UNCHANGED <<columns, rows, index>> => CovarianceFollowsState'
BY DEF CovarianceFollowsState, BiasPlace, Estimated

\* Every step keeps the invariant, as long as init finds no points.
LEMMA FilterNext == ~MayReset /\ FilterInv /\ [Next]_vars => FilterInv'
<1> SUFFICES ASSUME ~MayReset, FilterInv, [Next]_vars PROVE FilterInv'
  OBVIOUS
<1>1. ASSUME NEW on \in SUBSET ContactIds, NEW off \in SUBSET ContactIds,
             on \cap off = {}, SetContacts(on, off)
      PROVE  FilterInv'
  <2>1. /\ indicated' = (indicated \ off) \cup on /\ released' = (released \ on) \cup off
        /\ UNCHANGED <<columns, rows, index, removing, adding>> /\ DOMAIN removing = {}
    BY <1>1 DEF SetContacts, Idle
  <2>2. indicated' \cap released' = {}
    BY <1>1, <2>1 DEF FilterInv, ListInv
  <2> QED
    BY <1>1, <2>1, <2>2, CovarianceKept DEF FilterInv, TypeOK, IndexesOwnColumn,
       NoOrphanColumn, ListInv, Estimated
<1>2. ASSUME NEW measured \in SUBSET ContactIds, CorrectKinematics(measured) PROVE FilterInv'
  <2>1. \A id \in indicated : Contact(id) \notin LostContacts(measured)
    BY AnchorsDiffer DEF FilterInv, ListInv, LostContacts
  <2>2. /\ LostContacts(measured) \subseteq Estimated
        /\ NewContacts(measured) \subseteq Anchor /\ NewContacts(measured) \cap Estimated = {}
    BY DEF LostContacts, NewContacts, Anchor, Contacts
  <2> QED
    BY <1>2, <2>1, <2>2, FilterChange DEF CorrectKinematics
<1>3. ASSUME NEW measured \in SUBSET LandmarkIds, CorrectLandmarks(measured) PROVE FilterInv'
  <2>1. {Landmark(id) : id \in measured} \ Estimated \subseteq Anchor
    BY DEF Anchor, Landmarks
  <2> QED
    BY <1>3, <2>1, FilterChange DEF CorrectLandmarks
<1>4. ASSUME NEW ids \in SUBSET LandmarkIds, RemoveLandmarks(ids) PROVE FilterInv'
  <2>1. \A id \in indicated : Contact(id) \notin {Landmark(i) : i \in ids} \cap Estimated
    BY AnchorsDiffer
  <2> QED
    BY <1>4, <2>1, FilterChange DEF RemoveLandmarks
<1>5. ASSUME NEW ids \in SUBSET LandmarkIds, KeepLandmarks(ids) PROVE FilterInv'
  <2>1. \A id \in indicated :
          Contact(id) \notin (Landmarks \ {Landmark(i) : i \in ids}) \cap Estimated
    BY AnchorsDiffer DEF Landmarks
  <2> QED
    BY <1>5, <2>1, FilterChange DEF KeepLandmarks
<1>6. CASE SetState
  <2>1. Estimated = {} /\ columns' = <<>> /\ rows' = NewRows
        /\ UNCHANGED <<index, indicated, released, removing, adding>>
    BY <1>6 DEF SetState
  <2> QED
    BY <2>1, NewStateNext DEF FilterInv, TypeOK, IndexesOwnColumn, NoOrphanColumn,
                ListInv, Estimated
<1>7. CASE Clear
  BY <1>7, NewStateNext DEF Clear, ClearMap, NoMap, Idle, FilterInv, TypeOK,
              IndexesOwnColumn, NoOrphanColumn, ListInv, Estimated
<1>8. CASE UNCHANGED vars
  BY <1>8, CovarianceKept DEF vars, FilterInv, TypeOK, IndexesOwnColumn, NoOrphanColumn,
              ListInv, Estimated
<1> QED
  BY <1>1, <1>2, <1>3, <1>4, <1>5, <1>6, <1>7, <1>8, FilterRemove, FilterAdd DEF Next

\* The invariant holds for every number of contacts and landmarks, over every
\* sequence of calls that does not initialize a filter that holds points.
THEOREM FilterCorrect == ~MayReset /\ Spec => []FilterInv
<1> SUFFICES ASSUME ~MayReset PROVE Spec => []FilterInv
  OBVIOUS
<1>1. Init => FilterInv
  BY FilterInit
<1>2. FilterInv /\ [Next]_vars => FilterInv'
  BY FilterNext
<1> QED
  BY <1>1, <1>2, PTL DEF Spec

\* The index reported for a contact or a landmark is its column of X.
THEOREM IndexesCorrect == ~MayReset /\ Spec => []IndexesOwnColumn
<1>1. FilterInv => IndexesOwnColumn
  BY DEF FilterInv
<1> QED
  BY <1>1, FilterCorrect, PTL

\* X holds a column for every estimated point and no other.
THEOREM ColumnsCorrect == ~MayReset /\ Spec => []NoOrphanColumn
<1>1. FilterInv => NoOrphanColumn
  BY DEF FilterInv
<1> QED
  BY <1>1, FilterCorrect, PTL

\* The rows of the covariance that are addressed for a point are its own, and its
\* last rows are those of the biases.
THEOREM CovarianceCorrect == ~MayReset /\ Spec => []CovarianceFollowsState
<1>1. FilterInv => CovarianceFollowsState
  BY DEF FilterInv
<1> QED
  BY <1>1, FilterCorrect, PTL

\* The variables keep their types.
THEOREM TypeCorrect == ~MayReset /\ Spec => []TypeOK
<1>1. FilterInv => TypeOK
  BY DEF FilterInv
<1> QED
  BY <1>1, FilterCorrect, PTL

\* A foot in contact keeps its column from one step to the next, whatever is
\* added or removed around it, unless the filter is cleared.
THEOREM StanceKept == ~MayReset /\ Spec => StanceFootKeepsColumn
<1> DEFINE Kept == \A id \in indicated :
                     Contact(id) \in Estimated /\ ~Clear => Contact(id) \in DOMAIN index'
<1>1. FilterInv /\ [Next]_vars => [Kept]_vars
  <2> SUFFICES ASSUME FilterInv, [Next]_vars, NEW id \in indicated,
                      Contact(id) \in Estimated, ~Clear
               PROVE  Contact(id) \in DOMAIN index'
    OBVIOUS
  <2>1. CASE RemoveOne
    BY <2>1 DEF RemoveOne, Except, Moved, FilterInv, ListInv, Estimated
  <2>2. CASE AddOne
    BY <2>2 DEF AddOne, Estimated
  <2>3. CASE index' = index
    BY <2>3 DEF Estimated
  <2> QED
    BY <2>1, <2>2, <2>3 DEF Next, vars, SetContacts, CorrectKinematics, CorrectLandmarks,
       RemoveLandmarks, KeepLandmarks, SetState, Change
<1> QED
  BY <1>1, FilterCorrect, PTL DEF Spec, StanceFootKeepsColumn

-----------------------------------------------------------------------------
(* The filter implements a set of points.                                  *)

\* The points the filter shows to its callers: the ones a loop has still to remove
\* are out of it, the ones it has still to add are in it.
Shown == (Estimated \ DOMAIN removing) \cup adding

\* Outside the loops the points shown are the points estimated, and a call shows
\* what its loops will do.
LEMMA ShownChange ==
  ASSUME NEW old, NEW new, Idle, Change(old, new)
  PROVE  Shown = Estimated /\ Shown' = (Estimated \ old) \cup new
BY DEF Shown, Idle, Change, Estimated

\* A step of a loop shows nothing new; a call is one step of the set.
LEMMA StepImplements ==
  FilterInv /\ [Next]_vars => [Abstract!Next]_<<Shown, indicated, released>>
<1> SUFFICES ASSUME FilterInv, [Next]_vars
             PROVE  [Abstract!Next]_<<Shown, indicated, released>>
  OBVIOUS
<1>1. ASSUME NEW on \in SUBSET ContactIds, NEW off \in SUBSET ContactIds,
             on \cap off = {}, SetContacts(on, off)
      PROVE  Abstract!Next
  <2>1. Abstract!SetContacts(on, off)
    BY <1>1 DEF SetContacts, Abstract!SetContacts, Estimated
  <2> QED
    BY <1>1, <2>1 DEF Abstract!Next
<1>2. ASSUME NEW measured \in SUBSET ContactIds, CorrectKinematics(measured)
      PROVE  Abstract!Next
  <2>1. /\ Shown = Estimated
        /\ Shown' = (Estimated \ LostContacts(measured)) \cup NewContacts(measured)
        /\ UNCHANGED <<indicated, released>>
    BY <1>2, ShownChange DEF CorrectKinematics, Change
  <2>2. Shown' = (Shown \ {Contact(id) : id \in measured \cap released})
                    \cup {Contact(id) : id \in measured \cap indicated}
    <3>1. \A i, j : Contact(i) = Contact(j) => i = j
      BY AnchorsDiffer
    <3>2. indicated \cap released = {}
      BY DEF FilterInv, ListInv
    <3> QED
      BY <2>1, <3>1, <3>2 DEF LostContacts, NewContacts
  <2>3. Abstract!CorrectKinematics(measured)
    BY <2>1, <2>2 DEF Abstract!CorrectKinematics, Abstract!Contact, Contact, Shown
  <2> QED
    BY <2>3 DEF Abstract!Next
<1>3. ASSUME NEW measured \in SUBSET LandmarkIds, CorrectLandmarks(measured)
      PROVE  Abstract!Next
  <2>1. /\ Shown = Estimated /\ UNCHANGED <<indicated, released>>
        /\ Shown' = Estimated \cup {Landmark(id) : id \in measured}
    BY <1>3, ShownChange DEF CorrectLandmarks, Change
  <2>2. Abstract!CorrectLandmarks(measured)
    BY <2>1 DEF Abstract!CorrectLandmarks, Abstract!Landmark, Landmark, Shown
  <2> QED
    BY <2>2 DEF Abstract!Next
<1>4. ASSUME NEW ids \in SUBSET LandmarkIds, RemoveLandmarks(ids)
      PROVE  Abstract!Next
  <2>1. /\ Shown = Estimated /\ UNCHANGED <<indicated, released>>
        /\ Shown' = Estimated \ {Landmark(id) : id \in ids}
    BY <1>4, ShownChange DEF RemoveLandmarks, Change
  <2>2. Abstract!Remove(ids)
    BY <2>1 DEF Abstract!Remove, Abstract!Landmark, Landmark, Shown
  <2> QED
    BY <2>2 DEF Abstract!Next
<1>5. ASSUME NEW ids \in SUBSET LandmarkIds, KeepLandmarks(ids)
      PROVE  Abstract!Next
  <2>1. /\ Shown = Estimated /\ UNCHANGED <<indicated, released>>
        /\ Shown' = Estimated \ (Landmarks \ {Landmark(id) : id \in ids})
    <3> DEFINE old == (Landmarks \ {Landmark(id) : id \in ids}) \cap Estimated
    <3> HIDE DEF old
    <3>1. Idle /\ Change(old, {})
      BY <1>5 DEF KeepLandmarks, old
    <3>2. /\ Shown = Estimated /\ Shown' = (Estimated \ old) \cup {}
          /\ UNCHANGED <<indicated, released>>
      BY <3>1, ShownChange DEF Change
    <3>3. Estimated \ old = Estimated \ (Landmarks \ {Landmark(id) : id \in ids})
      BY DEF old
    <3> QED
      BY <3>2, <3>3
  <2>2. \A i, j : Landmark(i) = Landmark(j) => i = j
    BY DEF Landmark
  <2>3. Landmarks \ {Landmark(id) : id \in ids} = {Landmark(id) : id \in LandmarkIds \ ids}
    BY <2>2 DEF Landmarks
  <2>4. Abstract!Remove(LandmarkIds \ ids)
    BY <2>1, <2>3 DEF Abstract!Remove, Abstract!Landmark, Landmark, Shown
  <2> QED
    BY <2>4 DEF Abstract!Next
<1>6. CASE SetState
  BY <1>6 DEF SetState, Shown, Estimated
<1>7. CASE Clear
  <2>1. Abstract!Clear
    BY <1>7 DEF Clear, ClearMap, NoMap, Idle, Abstract!Clear, Shown, Estimated
  <2> QED
    BY <2>1 DEF Abstract!Next
<1>8. CASE RemoveOne
  <2>1. PICK a \in DOMAIN removing :
          /\ DOMAIN index' = DOMAIN index \ {a} /\ DOMAIN removing' = DOMAIN removing \ {a}
          /\ UNCHANGED <<indicated, released, adding>>
    BY <1>8 DEF RemoveOne, Pending, Except, Moved
  <2>2. Shown' = Shown
    BY <2>1 DEF Shown, Estimated
  <2> QED
    BY <2>1, <2>2
<1>9. CASE AddOne
  <2>1. PICK a \in adding :
          /\ DOMAIN index' = DOMAIN index \cup {a} /\ adding' = adding \ {a}
          /\ DOMAIN removing = {} /\ UNCHANGED <<indicated, released, removing>>
    BY <1>9 DEF AddOne, Estimated
  <2>2. Shown' = Shown
    BY <2>1 DEF Shown, Estimated
  <2> QED
    BY <2>1, <2>2
<1>10. CASE UNCHANGED vars
  BY <1>10 DEF vars, Shown, Estimated
<1> QED
  BY <1>1, <1>2, <1>3, <1>4, <1>5, <1>6, <1>7, <1>8, <1>9, <1>10 DEF Next

\* Every call of the filter changes the set of its points at once, whatever the
\* steps of its loops.
THEOREM FilterImplementsAnchorSet == ~MayReset /\ Spec => ImplementsAnchorSet
<1>1. Init => Abstract!Init
  BY DEF Init, Abstract!Init, NoMap, Estimated
<1>2. FilterInv /\ [Next]_vars =>
        [Abstract!Next]_<<(Estimated \ DOMAIN removing) \cup adding, indicated, released>>
  BY StepImplements DEF Shown
<1> QED
  BY <1>1, <1>2, FilterCorrect, PTL DEF Spec, ImplementsAnchorSet, Abstract!Spec
=============================================================================
