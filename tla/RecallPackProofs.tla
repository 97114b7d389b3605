-------------------------- MODULE RecallPackProofs --------------------------
(***************************************************************************)
(* For any number of facts and insights and every question: the packing of *)
(* select_recall counts what it injects, keeps to the budget, injects no   *)
(* row twice, keeps the reserved slots it promises and loses no fact to an *)
(* insight that it leaves out; and nothing that a gate must hold back is   *)
(* injected.                                                               *)
(*                                                                         *)
(* The argument.  Three things relate the walk to what it has passed       *)
(* (PackInv): every row included so far, or paid for and still to come, was *)
(* found; a fact counts as covered only because an included insight covers *)
(* it; and of the facts passed none is missing.  The first makes appending *)
(* the row of the walk injective, because no result is found twice.  What  *)
(* the tokens counted are the cost of, is the second invariant (PaidInv):  *)
(* the rows included and those that were paid for and are still to come.   *)
(* The gates are a matter of the selection before, stage by stage.         *)
(***************************************************************************)
EXTENDS RecallSelect, Inductions

Passed == {asked.results[k] : k \in 1..(place - 1)}

Walking == phase = "fill" => ToSet(included) \subseteq Passed

NothingYet == phase = "reserve" => included = <<>> /\ covered = {}

CoveredByIncluded == \A f \in covered : \E i \in ToSet(included) : f \in asked.covers[i]

NonePassedMissing ==
    phase # "reserve" =>
        \A k \in 1..Len(asked.results) :
            k < place /\ asked.results[k] \in Facts =>
                asked.results[k] \in ToSet(included) \cup covered

EndsAtAFact ==
    phase \in {"tail", "done"} /\ RowLeft => Row \in Facts /\ ~Fits(Row)

PackInv ==
    /\ PackTypeOK
    /\ NothingYet
    /\ Walking
    /\ NoneTwice
    /\ CoveredByIncluded
    /\ NonePassedMissing
    /\ EndsAtAFact
    /\ WithinBudget

(* The tokens that were paid for in advance and are still to come. *)
Owed == TotalCost(committed, Items \ ToSet(included))

Paid == used = Header + TotalCost(included, Items) + Owed

InReserve ==
    phase = "reserve" =>
        /\ ToSet(committed) = Passed \cap asked.reserved
        /\ used = Header + Costs(asked.results, asked.reserved)[place - 1]

ReservedFit == Header + TotalCost(asked.results, asked.reserved) <= asked.budget

Guaranteed ==
    phase # "reserve" /\ ReservedFit =>
        ToSet(asked.results) \cap asked.reserved \subseteq ToSet(committed) \cup ToSet(included)

PaidInv ==
    /\ IsInjective(committed)
    /\ Paid
    /\ InReserve
    /\ Guaranteed

-----------------------------------------------------------------------------
LEMMA ToSetAppend ==
    ASSUME NEW S, NEW s \in Seq(S), NEW x \in S
    PROVE  ToSet(Append(s, x)) = ToSet(s) \cup {x}
<1>1. Append(s, x) \in Seq(S) /\ Len(Append(s, x)) = Len(s) + 1
  OBVIOUS
<1>2. ASSUME NEW y \in ToSet(Append(s, x))
      PROVE  y \in ToSet(s) \cup {x}
  BY <1>1, <1>2 DEF ToSet
<1>3. ASSUME NEW y \in ToSet(s)
      PROVE  y \in ToSet(Append(s, x))
  <2>1. PICK k \in 1..Len(s) : y = s[k]
    BY <1>3 DEF ToSet
  <2>2. k \in DOMAIN Append(s, x) /\ Append(s, x)[k] = y
    BY <2>1, <1>1
  <2> QED  BY <2>2 DEF ToSet
<1>4. x \in ToSet(Append(s, x))
  <2>1. Len(s) + 1 \in DOMAIN Append(s, x) /\ Append(s, x)[Len(s) + 1] = x
    BY <1>1
  <2> QED  BY <2>1 DEF ToSet
<1> QED  BY <1>2, <1>3, <1>4

LEMMA LongerInjective ==
    ASSUME NEW n \in Nat, NEW s, NEW t, NEW x,
           DOMAIN s = 1..n, DOMAIN t = 1..(n + 1),
           \A k \in 1..n : t[k] = s[k] /\ s[k] # x, t[n + 1] = x, IsInjective(s)
    PROVE  IsInjective(t)
<1>1. \A a, b \in 1..n : s[a] = s[b] => a = b
  BY DEF IsInjective
<1>2. \A a, b \in 1..(n + 1) : t[a] = t[b] => a = b
  BY <1>1
<1> QED  BY <1>2 DEF IsInjective

LEMMA StaysInjective ==
    ASSUME NEW S, NEW s \in Seq(S), NEW x \in S, x \notin ToSet(s), IsInjective(s)
    PROVE  IsInjective(Append(s, x))
<1> DEFINE n == Len(s)
           t == Append(s, x)
<1>1. n \in Nat /\ DOMAIN s = 1..n /\ DOMAIN t = 1..(n + 1) /\ t[n + 1] = x
  OBVIOUS
<1>2. \A k \in 1..n : t[k] = s[k]
  OBVIOUS
<1>3. \A k \in 1..n : s[k] # x
  BY <1>1 DEF ToSet
<1> HIDE DEF n, t
<1>4. IsInjective(t)
  BY <1>1, <1>2, <1>3, LongerInjective
<1> QED  BY <1>4 DEF t

(* The row of the walk is new: no result is found twice. *)
LEMMA RowIsNew ==
    ASSUME PackTypeOK, RowLeft
    PROVE  Row \in Items /\ Row \notin Passed
<1>1. asked.results \in Seq(Items) /\ IsInjective(asked.results) /\ place \in Nat \ {0}
  BY DEF PackTypeOK, Question
<1>2. place \in 1..Len(asked.results)
  BY <1>1 DEF RowLeft
<1>3. ASSUME NEW k \in 1..(place - 1)
      PROVE  asked.results[k] # Row
  BY <1>1, <1>2, <1>3 DEF IsInjective, Row
<1> QED  BY <1>1, <1>2, <1>3 DEF Passed, Row

LEMMA InitHolds == PackInit => PackInv
<1> SUFFICES ASSUME PackInit  PROVE PackInv
  OBVIOUS
<1> USE DEF PackInit
<1>1. asked.results \in Seq(Items) /\ asked.reserved \subseteq Facts /\ asked.budget \in Nat
  BY DEF Question
<1>2. PackTypeOK
  <2>1. phase \in {"reserve", "fill", "tail", "done"}
    OBVIOUS
  <2>2. place \in 1..(Len(asked.results) + 1) /\ used \in Nat
    BY <1>1, PackAssumption DEF PackAssumption
  <2>3. committed \in Seq(Items) /\ included \in Seq(Items) /\ covered \subseteq Facts
    OBVIOUS
  <2>4. asked \in Question /\ truncated \in BOOLEAN
    OBVIOUS
  <2> QED  BY <2>1, <2>2, <2>3, <2>4, Zenon DEF PackTypeOK
<1>3. ToSet(included) = {}
  BY DEF ToSet
<1>4. NothingYet /\ CoveredByIncluded /\ EndsAtAFact /\ WithinBudget
  BY DEF NothingYet, CoveredByIncluded, EndsAtAFact, WithinBudget
<1>5. Walking
  BY <1>3 DEF Walking
<1>6. NoneTwice
  BY DEF NoneTwice, IsInjective
<1>7. NonePassedMissing
  BY <1>1 DEF NonePassedMissing
<1> QED  BY <1>2, <1>4, <1>5, <1>6, <1>7 DEF PackInv

(* What a row that is included next means for the three relations. *)
LEMMA IncludeRow ==
    ASSUME PackInv, phase = "fill", RowLeft, UNCHANGED <<asked, phase>>,
           included' = Append(included, Row), place' = place + 1,
           covered' \in {covered, covered \cup asked.covers[Row]}
    PROVE  /\ included' \in Seq(Items) /\ Walking' /\ NoneTwice'
           /\ CoveredByIncluded' /\ NonePassedMissing'
<1>1. PackTypeOK /\ asked.results \in Seq(Items) /\ place \in 1..Len(asked.results)
  BY DEF PackInv, PackTypeOK, Question, RowLeft
<1>2. Row \in Items /\ Row \notin Passed
  BY <1>1, RowIsNew
<1>3. ToSet(included) \subseteq Passed
  BY DEF PackInv, Walking
<1>4. included \in Seq(Items)
  BY <1>1 DEF PackTypeOK
<1>5. included' \in Seq(Items)
  BY <1>2, <1>4
<1>6. ToSet(included') = ToSet(included) \cup {Row}
  BY <1>2, <1>4, ToSetAppend
<1>7. Passed' = Passed \cup {Row}
  BY <1>1 DEF Passed, Row
<1>8. Walking'
  BY <1>3, <1>6, <1>7 DEF Walking
<1>9. NoneTwice'
  <2>1. Row \notin ToSet(included)
    BY <1>2, <1>3
  <2>2. IsInjective(included)
    BY DEF PackInv, NoneTwice
  <2>3. IsInjective(Append(included, Row))
    BY <1>2, <1>4, <2>1, <2>2, StaysInjective
  <2> QED  BY <2>3 DEF NoneTwice
<1>10. CoveredByIncluded'
  BY <1>6 DEF PackInv, CoveredByIncluded
<1>11. NonePassedMissing'
  <2> SUFFICES ASSUME NEW k \in 1..Len(asked.results), k < place + 1, asked.results[k] \in Facts
               PROVE  asked.results[k] \in ToSet(included') \cup covered'
    BY DEF NonePassedMissing
  <2>1. CASE k = place
    BY <1>6, <2>1 DEF Row
  <2>2. CASE k < place
    BY <1>6, <2>2 DEF PackInv, NonePassedMissing
  <2> QED  BY <1>1, <2>1, <2>2
<1> QED  BY <1>5, <1>8, <1>9, <1>10, <1>11

(* What leaving a row out means for them, when it need not be included. *)
LEMMA PassRow ==
    ASSUME PackInv, phase = "fill", RowLeft, UNCHANGED <<asked, phase, included, covered>>,
           place' = place + 1, Row \in covered \/ Row \notin Facts
    PROVE  Walking' /\ NoneTwice' /\ CoveredByIncluded' /\ NonePassedMissing'
<1>1. asked.results \in Seq(Items) /\ place \in 1..Len(asked.results)
  BY DEF PackInv, PackTypeOK, Question, RowLeft
<1>2. Passed \subseteq Passed'
  BY <1>1 DEF Passed
<1>3. Walking' /\ NoneTwice' /\ CoveredByIncluded'
  BY <1>2 DEF PackInv, Walking, NoneTwice, CoveredByIncluded
<1>4. NonePassedMissing'
  <2> SUFFICES ASSUME NEW k \in 1..Len(asked.results), k < place + 1, asked.results[k] \in Facts
               PROVE  asked.results[k] \in ToSet(included) \cup covered
    BY DEF NonePassedMissing
  <2>1. CASE k = place
    BY <2>1 DEF Row
  <2>2. CASE k < place
    BY <2>2 DEF PackInv, NonePassedMissing
  <2> QED  BY <1>1, <2>1, <2>2
<1> QED  BY <1>3, <1>4

LEMMA ReservePreserves ==
    ASSUME PackInv, PassOver \/ Commit \/ EndReserve
    PROVE  PackInv'
<1> USE DEF PackInv
<1>1. phase = "reserve" /\ included = <<>> /\ covered = {}
  BY DEF PassOver, Commit, EndReserve, NothingYet
<1>2. UNCHANGED <<asked, included, covered, truncated>>
  BY DEF PassOver, Commit, EndReserve
<1>3. asked \in Question /\ asked.results \in Seq(Items) /\ asked.budget \in Nat
      /\ asked.cost \in [Items -> Nat] /\ place \in 1..(Len(asked.results) + 1)
      /\ used \in Nat /\ committed \in Seq(Items)
  BY DEF PackTypeOK, Question
<1>4. ToSet(included) = {}
  BY <1>1 DEF ToSet
<1>5. RowLeft => Row \in Items
  BY <1>3 DEF RowLeft, Row
<1>6. phase' \in {"reserve", "fill"}
  BY <1>1 DEF PassOver, Commit, EndReserve
<1>7. place' \in 1..(Len(asked.results) + 1)
  BY <1>3 DEF PassOver, Commit, EndReserve, RowLeft
<1>8. used' \in Nat /\ committed' \in Seq(Items)
  <2>1. CASE Commit
    <3>1. Row \in Items /\ committed' = Append(committed, Row) /\ used' = used + asked.cost[Row]
      BY <1>5, <2>1 DEF Commit
    <3>2. asked.cost[Row] \in Nat
      BY <1>3, <3>1
    <3> QED  BY <1>3, <3>1, <3>2
  <2>2. CASE PassOver \/ EndReserve
    BY <1>3, <2>2 DEF PassOver, EndReserve
  <2> QED  BY <2>1, <2>2
<1>9. WithinBudget'
  <2>1. CASE Commit
    BY <2>1 DEF Commit, Fits, WithinBudget
  <2>2. CASE PassOver \/ EndReserve
    BY <2>2 DEF PassOver, EndReserve, WithinBudget
  <2> QED  BY <2>1, <2>2
<1>10. PackTypeOK'
  <2>1. phase' \in {"reserve", "fill", "tail", "done"}
    BY <1>6
  <2>2. asked' \in Question /\ place' \in 1..(Len(asked'.results) + 1)
    BY <1>2, <1>3, <1>7
  <2>3. included' \in Seq(Items) /\ covered' \subseteq Facts /\ truncated' \in BOOLEAN
    BY <1>2 DEF PackTypeOK
  <2> QED  BY <1>8, <2>1, <2>2, <2>3, Zenon DEF PackTypeOK
<1>11. NothingYet' /\ NoneTwice' /\ CoveredByIncluded'
  BY <1>1, <1>2 DEF NothingYet, NoneTwice, CoveredByIncluded
<1>12. Walking'
  BY <1>2, <1>4 DEF Walking
<1>13. NonePassedMissing'
  <2>1. CASE EndReserve
    BY <1>2, <1>3, <2>1 DEF EndReserve, NonePassedMissing
  <2>2. CASE PassOver \/ Commit
    BY <1>1, <2>2 DEF PassOver, Commit, NonePassedMissing
  <2> QED  BY <2>1, <2>2
<1>14. EndsAtAFact'
  BY <1>6 DEF EndsAtAFact
<1> QED  BY <1>9, <1>10, <1>11, <1>12, <1>13, <1>14

LEMMA FillPreserves ==
    ASSUME PackInv, TakePaid \/ SkipCovered \/ Take \/ OmitInsight
    PROVE  PackInv'
<1>1. phase = "fill" /\ RowLeft /\ UNCHANGED <<asked, phase, committed>> /\ place' = place + 1
  BY DEF TakePaid, SkipCovered, Take, OmitInsight
<1>2. PackTypeOK /\ asked \in Question /\ asked.results \in Seq(Items)
      /\ asked.cost \in [Items -> Nat] /\ asked.covers \in [Items -> SUBSET Facts]
      /\ asked.budget \in Nat /\ place \in 1..Len(asked.results) /\ used \in Nat
  BY <1>1 DEF PackInv, PackTypeOK, Question, RowLeft
<1>3. Row \in Items
  BY <1>1, <1>2, RowIsNew
<1>4. included' \in Seq(Items) /\ Walking' /\ NoneTwice' /\ CoveredByIncluded' /\ NonePassedMissing'
  <2>1. CASE TakePaid \/ Take
    BY <1>1, <2>1, IncludeRow DEF TakePaid, Take
  <2>2. CASE SkipCovered \/ OmitInsight
    <3>1. Row \in covered \/ Row \notin Facts
      BY <2>2, PackAssumption DEF SkipCovered, OmitInsight, PackAssumption
    <3>2. UNCHANGED <<included, covered>>
      BY <2>2 DEF SkipCovered, OmitInsight
    <3>3. included' \in Seq(Items)
      BY <1>2, <3>2 DEF PackTypeOK
    <3> QED  BY <1>1, <3>1, <3>2, <3>3, PassRow
  <2> QED  BY <2>1, <2>2
<1>5. used' \in Nat /\ WithinBudget'
  <2>1. CASE Take
    <3>1. used' = used + asked.cost[Row] /\ Fits(Row)
      BY <2>1 DEF Take
    <3>2. asked.cost[Row] \in Nat
      BY <1>2, <1>3
    <3> QED  BY <1>1, <1>2, <3>1, <3>2 DEF WithinBudget, Fits
  <2>2. CASE TakePaid \/ SkipCovered \/ OmitInsight
    BY <1>1, <1>2, <2>2 DEF PackInv, WithinBudget, TakePaid, SkipCovered, OmitInsight
  <2> QED  BY <2>1, <2>2
<1>6. covered' \subseteq Facts
  <2>1. asked.covers[Row] \subseteq Facts /\ covered \subseteq Facts
    BY <1>2, <1>3 DEF PackTypeOK
  <2> QED  BY <2>1 DEF TakePaid, SkipCovered, Take, OmitInsight
<1>7. truncated' \in BOOLEAN
  <2>1. truncated' = truncated \/ truncated' = TRUE
    BY Zenon DEF TakePaid, SkipCovered, Take, OmitInsight
  <2> QED  BY <1>2, <2>1, Zenon DEF PackTypeOK
<1>8. PackTypeOK'
  <2>1. asked' \in Question /\ phase' \in {"reserve", "fill", "tail", "done"}
    BY <1>1, <1>2
  <2>2. place' \in 1..(Len(asked'.results) + 1)
    BY <1>1, <1>2
  <2>3. committed' \in Seq(Items)
    BY <1>1, <1>2 DEF PackTypeOK
  <2> QED  BY <1>4, <1>5, <1>6, <1>7, <2>1, <2>2, <2>3, Zenon DEF PackTypeOK
<1>9. NothingYet' /\ EndsAtAFact'
  BY <1>1 DEF NothingYet, EndsAtAFact
<1> QED  BY <1>4, <1>5, <1>8, <1>9 DEF PackInv

LEMMA EndPreserves ==
    ASSUME PackInv, Truncate \/ EndFill \/ EndTail
    PROVE  PackInv'
<1>1. UNCHANGED <<asked, place, used, committed, included, covered>>
  BY DEF Truncate, EndFill, EndTail
<1>2. phase \in {"fill", "tail"} /\ phase' \in {"tail", "done"}
  BY DEF Truncate, EndFill, EndTail
<1>3. truncated' \in BOOLEAN
  <2>1. truncated' = truncated \/ truncated' = TRUE
    BY Zenon DEF Truncate, EndFill, EndTail
  <2> QED  BY <2>1, Zenon DEF PackInv, PackTypeOK
<1>4. PackTypeOK'
  <2>1. phase' \in {"reserve", "fill", "tail", "done"}
    BY <1>2
  <2> QED  BY <1>1, <1>3, <2>1, Zenon DEF PackInv, PackTypeOK
<1>5. NothingYet' /\ Walking'
  BY <1>2 DEF NothingYet, Walking
<1>6. NoneTwice' /\ CoveredByIncluded' /\ WithinBudget'
  BY <1>1 DEF PackInv, NoneTwice, CoveredByIncluded, WithinBudget
<1>7. NonePassedMissing'
  BY <1>1, <1>2 DEF PackInv, NonePassedMissing
<1>8. EndsAtAFact'
  <2>1. CASE Truncate
    BY <1>1, <2>1 DEF Truncate, EndsAtAFact, RowLeft, Row, Fits
  <2>2. CASE EndFill
    BY <1>1, <2>2 DEF EndFill, EndsAtAFact, RowLeft
  <2>3. CASE EndTail
    BY <1>1, <2>3 DEF PackInv, EndTail, EndsAtAFact, RowLeft, Row, Fits
  <2> QED  BY <2>1, <2>2, <2>3
<1> QED  BY <1>4, <1>5, <1>6, <1>7, <1>8 DEF PackInv

LEMMA AppendPaidPreserves ==
    ASSUME PackInv, AppendPaid
    PROVE  PackInv'
<1> DEFINE row == Head(committed)
<1>1. phase = "tail" /\ committed # <<>> /\ committed' = Tail(committed)
      /\ UNCHANGED <<asked, phase, place, used, covered, truncated>>
  BY DEF AppendPaid
<1>2. committed \in Seq(Items) /\ included \in Seq(Items)
  BY DEF PackInv, PackTypeOK
<1>3. row \in Items /\ committed' \in Seq(Items)
  BY <1>1, <1>2
<1>4. included' = IF row \in ToSet(included) THEN included ELSE Append(included, row)
  BY DEF AppendPaid
<1> HIDE DEF row
<1>5. included' \in Seq(Items) /\ ToSet(included) \subseteq ToSet(included') /\ NoneTwice'
  <2>1. CASE row \in ToSet(included)
    BY <1>2, <1>4, <2>1 DEF PackInv, NoneTwice
  <2>2. CASE row \notin ToSet(included)
    <3>1. included' = Append(included, row)
      BY <1>4, <2>2
    <3>2. Append(included, row) \in Seq(Items)
      BY <1>2, <1>3
    <3>3. ToSet(Append(included, row)) = ToSet(included) \cup {row}
      BY <1>2, <1>3, ToSetAppend
    <3>4. IsInjective(included)
      BY DEF PackInv, NoneTwice
    <3>5. IsInjective(Append(included, row))
      BY <1>2, <1>3, <2>2, <3>4, StaysInjective
    <3> QED  BY <3>1, <3>2, <3>3, <3>5 DEF NoneTwice
  <2> QED  BY <2>1, <2>2
<1>6. PackTypeOK'
  BY <1>1, <1>3, <1>5, Zenon DEF PackInv, PackTypeOK
<1>7. NothingYet' /\ Walking'
  BY <1>1 DEF NothingYet, Walking
<1>8. CoveredByIncluded' /\ NonePassedMissing'
  BY <1>1, <1>5 DEF PackInv, CoveredByIncluded, NonePassedMissing
<1>9. EndsAtAFact' /\ WithinBudget'
  BY <1>1 DEF PackInv, EndsAtAFact, WithinBudget, RowLeft, Row, Fits
<1> QED  BY <1>5, <1>6, <1>7, <1>8, <1>9 DEF PackInv

-----------------------------------------------------------------------------
(* The tokens.  TotalCost is a recursive function: that it exists, and what *)
(* it adds up to, are inductions (Inductions).                             *)
Sums(f, n, g) ==
    /\ f = [k \in 0..n |-> IF k = 0 THEN 0 ELSE f[k - 1] + g[k]]
    /\ f \in [0..n -> Nat]

LEMMA SumsExist ==
    ASSUME NEW n \in Nat, NEW g \in [1..n -> Nat]
    PROVE  \E f : Sums(f, n, g)
<1>1. PICK step : step = [k \in 1..n |-> [y \in Nat |-> y + g[k]]]
  OBVIOUS
<1>2. /\ step \in [1..n -> [Nat -> Nat]] /\ 0 \in Nat
      /\ \A k \in 1..n : \A y \in Nat : step[k][y] = y + g[k]
  BY <1>1
<1>3. PICK f : f \in [0..n -> Nat] /\ f[0] = 0 /\ \A k \in 1..n : f[k] = step[k][f[k - 1]]
  <2>1. \E f : Iterates(f, n, Nat, 0, step)
    BY <1>2, Iterated
  <2> QED  BY <2>1 DEF Iterates
<1>4. ASSUME NEW k \in 0..n
      PROVE  f[k] = IF k = 0 THEN 0 ELSE f[k - 1] + g[k]
  <2>1. CASE k = 0
    BY <1>3, <2>1
  <2>2. CASE k # 0
    <3>1. k \in 1..n /\ k - 1 \in 0..n
      BY <2>2
    <3>2. f[k - 1] \in Nat
      BY <1>3, <3>1
    <3> QED  BY <1>2, <1>3, <2>2, <3>1, <3>2
  <2> QED  BY <2>1, <2>2
<1>5. f = [k \in 0..n |-> f[k]]
  BY <1>3
<1> QED  BY <1>3, <1>4, <1>5 DEF Sums

LEMMA CostsAre ==
    ASSUME NEW s \in Seq(Items), NEW wanted, asked.cost \in [Items -> Nat]
    PROVE  /\ Costs(s, wanted)[0] = 0
           /\ \A k \in 1..Len(s) :
                 /\ Costs(s, wanted)[k] = Costs(s, wanted)[k - 1] + Cost(s[k], wanted)
                 /\ Cost(s[k], wanted) \in Nat
           /\ \A k \in 0..Len(s) : Costs(s, wanted)[k] \in Nat
<1> DEFINE n == Len(s)
           g == [k \in 1..n |-> Cost(s[k], wanted)]
           sum == Costs(s, wanted)
<1>1. n \in Nat /\ g \in [1..n -> Nat] /\ \A k \in 1..n : Cost(s[k], wanted) \in Nat
  BY DEF Cost
<1>2. PICK f : Sums(f, n, g)
  BY <1>1, SumsExist
<1>3. f = [k \in 0..n |-> IF k = 0 THEN 0 ELSE f[k - 1] + Cost(s[k], wanted)]
  <2>1. \A k \in 1..n : g[k] = Cost(s[k], wanted)
    OBVIOUS
  <2> HIDE DEF g
  <2>2. ASSUME NEW k \in 0..n
        PROVE  f[k] = IF k = 0 THEN 0 ELSE f[k - 1] + Cost(s[k], wanted)
    <3>1. f[k] = IF k = 0 THEN 0 ELSE f[k - 1] + g[k]
      BY <1>2 DEF Sums
    <3>2. k = 0 \/ k \in 1..n
      BY <1>1
    <3> QED  BY <2>1, <3>1, <3>2
  <2>3. f = [k \in 0..n |-> f[k]]
    BY <1>2 DEF Sums
  <2> QED  BY <2>2, <2>3
<1>4. sum = [k \in 0..n |-> IF k = 0 THEN 0 ELSE sum[k - 1] + Cost(s[k], wanted)]
  BY <1>3 DEF Costs
<1> HIDE DEF n, sum
<1>5. sum[0] = 0 /\ \A k \in 1..n : sum[k] = sum[k - 1] + Cost(s[k], wanted)
  BY <1>1, <1>4 DEF Cost
<1>6. \A k \in 0..n : sum[k] \in Nat
  <2> DEFINE T == {k \in 0..n : sum[k] \in Nat}
  <2>1. 0 \in T
    BY <1>1, <1>5
  <2>2. ASSUME NEW k \in 0..n, k \in T, k # n
        PROVE  k + 1 \in T
    <3>1. k + 1 \in 1..n /\ (k + 1) - 1 = k /\ k + 1 \in 0..n
      BY <1>1, <2>2
    <3>2. sum[k + 1] = sum[k] + Cost(s[k + 1], wanted) /\ Cost(s[k + 1], wanted) \in Nat
      BY <1>1, <1>5, <3>1
    <3>3. sum[k] \in Nat
      BY <2>2
    <3>4. sum[k + 1] \in Nat
      BY <3>2, <3>3
    <3> QED  BY <3>1, <3>4
  <2> HIDE DEF T
  <2>3. T = 0..n
    BY <1>1, <2>1, <2>2, UpTo DEF T
  <2> QED  BY <2>3 DEF T
<1> QED  BY <1>1, <1>5, <1>6 DEF sum, n

LEMMA CostsRise ==
    ASSUME NEW s \in Seq(Items), NEW wanted, asked.cost \in [Items -> Nat], NEW j \in 0..Len(s)
    PROVE  Costs(s, wanted)[j] <= TotalCost(s, wanted)
<1> DEFINE n == Len(s)
           sum == Costs(s, wanted)
           T == {m \in 0..n : sum[n - m] <= sum[n]}
<1>1. /\ n \in Nat
      /\ \A k \in 1..n : sum[k - 1] <= sum[k]
      /\ \A k \in 0..n : sum[k] \in Nat
  <2>1. \A k \in 1..n : sum[k] = sum[k - 1] + Cost(s[k], wanted) /\ Cost(s[k], wanted) \in Nat
    BY CostsAre
  <2>2. \A k \in 0..n : sum[k] \in Nat
    BY CostsAre
  <2>3. n \in Nat /\ \A k \in 1..n : k - 1 \in 0..n
    OBVIOUS
  <2> HIDE DEF n, sum
  <2> QED  BY <2>1, <2>2, <2>3
<1> HIDE DEF n, sum
<1>2. 0 \in T
  BY <1>1
<1>3. ASSUME NEW m \in 0..n, m \in T, m # n
      PROVE  m + 1 \in T
  <2>1. n - m \in 1..n /\ n - (m + 1) = (n - m) - 1 /\ n - (m + 1) \in 0..n /\ n - m \in 0..n
    BY <1>1, <1>3
  <2>2. sum[n - (m + 1)] <= sum[n - m] /\ sum[n - m] <= sum[n]
    BY <1>1, <1>3, <2>1
  <2>3. sum[n - (m + 1)] \in Nat /\ sum[n - m] \in Nat /\ sum[n] \in Nat /\ m + 1 \in 0..n
    BY <1>1, <1>3, <2>1
  <2>4. sum[n - (m + 1)] <= sum[n]
    BY <2>2, <2>3
  <2> QED  BY <2>3, <2>4
<1> HIDE DEF T
<1>4. T = 0..n
  BY <1>1, <1>2, <1>3, UpTo DEF T
<1>5. n - j \in T /\ n - (n - j) = j
  BY <1>1, <1>4 DEF n
<1> QED  BY <1>5 DEF T, sum, n, TotalCost

LEMMA TotalIsNat ==
    ASSUME NEW s \in Seq(Items), NEW wanted, asked.cost \in [Items -> Nat]
    PROVE  TotalCost(s, wanted) \in Nat
<1>1. Len(s) \in 0..Len(s)
  OBVIOUS
<1> QED  BY <1>1, CostsAre DEF TotalCost

(* One row more.                                                           *)
LEMMA OneMoreCosts ==
    ASSUME NEW s \in Seq(Items), NEW x \in Items, NEW wanted, asked.cost \in [Items -> Nat]
    PROVE  TotalCost(Append(s, x), wanted) = TotalCost(s, wanted) + Cost(x, wanted)
<1> DEFINE n == Len(s)
           t == Append(s, x)
           f == Costs(t, wanted)
           h == Costs(s, wanted)
<1>1. n \in Nat /\ t \in Seq(Items) /\ Len(t) = n + 1 /\ t[n + 1] = x /\ \A k \in 1..n : t[k] = s[k]
  OBVIOUS
<1> HIDE DEF n, t, f, h
<1>2. /\ f[0] = 0 /\ \A k \in 0..(n + 1) : f[k] \in Nat
      /\ \A k \in 1..(n + 1) : f[k] = f[k - 1] + Cost(t[k], wanted) /\ Cost(t[k], wanted) \in Nat
  BY <1>1, CostsAre DEF f
<1>3. /\ h[0] = 0 /\ \A k \in 0..n : h[k] \in Nat
      /\ \A k \in 1..n : h[k] = h[k - 1] + Cost(s[k], wanted)
  BY CostsAre DEF h, n
<1> DEFINE T == {k \in 0..n : f[k] = h[k]}
<1>4. 0 \in T
  BY <1>1, <1>2, <1>3
<1>5. ASSUME NEW k \in 0..n, k \in T, k # n
      PROVE  k + 1 \in T
  <2>1. k + 1 \in 1..n /\ k + 1 \in 1..(n + 1) /\ (k + 1) - 1 = k /\ k + 1 \in 0..n
    BY <1>1, <1>5
  <2>2. f[k + 1] = f[k] + Cost(t[k + 1], wanted) /\ h[k + 1] = h[k] + Cost(s[k + 1], wanted)
    BY <1>2, <1>3, <2>1
  <2>3. t[k + 1] = s[k + 1] /\ f[k] = h[k]
    BY <1>1, <1>5, <2>1
  <2> QED  BY <2>1, <2>2, <2>3
<1> HIDE DEF T
<1>6. T = 0..n
  BY <1>1, <1>4, <1>5, UpTo DEF T
<1>7. f[n] = h[n]
  <2>1. n \in T
    BY <1>1, <1>6
  <2> QED  BY <2>1 DEF T
<1>8. f[n + 1] = f[n] + Cost(x, wanted)
  <2>1. n + 1 \in 1..(n + 1) /\ (n + 1) - 1 = n
    BY <1>1
  <2> QED  BY <1>1, <1>2, <2>1
<1> QED  BY <1>1, <1>7, <1>8 DEF TotalCost, f, h, t, n

(* The first row less.                                                     *)
LEMMA Shifted ==
    ASSUME NEW n \in Nat, NEW s \in Seq(Items), NEW t \in Seq(Items), Len(t) = n, Len(s) = n + 1,
           \A j \in 1..n : t[j] = s[j + 1], NEW wanted, asked.cost \in [Items -> Nat]
    PROVE  TotalCost(s, wanted) = TotalCost(t, wanted) + Cost(s[1], wanted)
<1> DEFINE f == Costs(t, wanted)
           h == Costs(s, wanted)
           T == {k \in 0..n : h[k + 1] = f[k] + Cost(s[1], wanted)}
<1>1. /\ f[0] = 0 /\ \A j \in 0..n : f[j] \in Nat
      /\ \A j \in 1..n : f[j] = f[j - 1] + Cost(t[j], wanted) /\ Cost(t[j], wanted) \in Nat
  BY CostsAre
<1>2. /\ h[0] = 0 /\ \A j \in 0..(n + 1) : h[j] \in Nat
      /\ \A j \in 1..(n + 1) : h[j] = h[j - 1] + Cost(s[j], wanted) /\ Cost(s[j], wanted) \in Nat
  BY CostsAre
<1> HIDE DEF f, h
<1>3. Cost(s[1], wanted) \in Nat /\ h[1] = Cost(s[1], wanted)
  <2>1. 1 \in 1..(n + 1) /\ 1 - 1 = 0
    OBVIOUS
  <2> QED  BY <1>2, <2>1
<1>4. 0 \in T
  BY <1>1, <1>3
<1>5. ASSUME NEW k \in 0..n, k \in T, k # n
      PROVE  k + 1 \in T
  <2>1. k + 1 \in 1..n /\ (k + 1) - 1 = k /\ k + 2 \in 1..(n + 1) /\ (k + 2) - 1 = k + 1
        /\ (k + 1) + 1 = k + 2
    BY <1>5
  <2>2. f[k + 1] = f[k] + Cost(t[k + 1], wanted) /\ f[k] \in Nat /\ Cost(t[k + 1], wanted) \in Nat
    BY <1>1, <1>5, <2>1
  <2>3. h[k + 2] = h[k + 1] + Cost(s[k + 2], wanted)
    BY <1>2, <2>1
  <2>4. t[k + 1] = s[k + 2]
    BY <2>1
  <2>5. h[k + 1] = f[k] + Cost(s[1], wanted)
    BY <1>5
  <2>6. h[k + 2] = f[k + 1] + Cost(s[1], wanted)
    BY <1>3, <2>2, <2>3, <2>4, <2>5
  <2>7. k + 1 \in 0..n
    BY <1>5
  <2> QED  BY <2>1, <2>6, <2>7
<1> HIDE DEF T
<1>6. T = 0..n
  BY <1>4, <1>5, UpTo DEF T
<1>7. h[n + 1] = f[n] + Cost(s[1], wanted)
  <2>1. n \in T
    BY <1>6
  <2> QED  BY <2>1 DEF T
<1> QED  BY <1>7 DEF TotalCost, f, h

LEMMA OneLessCosts ==
    ASSUME NEW s \in Seq(Items), s # <<>>, NEW wanted, asked.cost \in [Items -> Nat]
    PROVE  TotalCost(s, wanted) = TotalCost(Tail(s), wanted) + Cost(Head(s), wanted)
<1> DEFINE n == Len(s) - 1
           t == Tail(s)
<1>1. n \in Nat /\ t \in Seq(Items) /\ Len(t) = n /\ Len(s) = n + 1 /\ Head(s) = s[1]
      /\ \A j \in 1..n : t[j] = s[j + 1]
  OBVIOUS
<1> HIDE DEF n, t
<1>2. TotalCost(s, wanted) = TotalCost(t, wanted) + Cost(s[1], wanted)
  BY <1>1, Shifted
<1> QED  BY <1>1, <1>2 DEF t

(* What is not among the rows is not wanted of them.                       *)
LEMMA SameCosts ==
    ASSUME NEW s \in Seq(Items), NEW v, NEW w, asked.cost \in [Items -> Nat],
           \A k \in 1..Len(s) : s[k] \in v <=> s[k] \in w
    PROVE  TotalCost(s, v) = TotalCost(s, w)
<1> DEFINE n == Len(s)
           f == Costs(s, v)
           h == Costs(s, w)
<1>1. n \in Nat /\ \A k \in 1..n : Cost(s[k], v) = Cost(s[k], w)
  BY DEF Cost
<1>2. f[0] = 0 /\ \A k \in 0..n : f[k] \in Nat
  BY CostsAre
<1>3. \A k \in 1..n : f[k] = f[k - 1] + Cost(s[k], v) /\ Cost(s[k], v) \in Nat
  BY CostsAre
<1>4. h[0] = 0 /\ \A k \in 0..n : h[k] \in Nat
  BY CostsAre
<1>5. \A k \in 1..n : h[k] = h[k - 1] + Cost(s[k], w)
  BY CostsAre
<1> HIDE DEF n, f, h
<1> DEFINE T == {k \in 0..n : f[k] = h[k]}
<1>6. 0 \in T
  BY <1>1, <1>2, <1>4
<1>7. ASSUME NEW k \in 0..n, k \in T, k # n
      PROVE  k + 1 \in T
  <2>1. k + 1 \in 1..n /\ (k + 1) - 1 = k /\ k + 1 \in 0..n
    BY <1>1, <1>7
  <2>2. f[k + 1] = f[k] + Cost(s[k + 1], v) /\ h[k + 1] = h[k] + Cost(s[k + 1], w)
    BY <1>3, <1>5, <2>1
  <2>3. Cost(s[k + 1], v) = Cost(s[k + 1], w) /\ f[k] = h[k]
    BY <1>1, <1>7, <2>1
  <2> QED  BY <2>1, <2>2, <2>3
<1> HIDE DEF T
<1>8. T = 0..n
  BY <1>1, <1>6, <1>7, UpTo DEF T
<1>9. f[n] = h[n]
  <2>1. n \in T
    BY <1>1, <1>8
  <2> QED  BY <2>1 DEF T
<1> QED  BY <1>9 DEF TotalCost, f, h, n

(* A row that is among them once and is wanted no more.                    *)
LEMMA WithoutRow ==
    ASSUME NEW s \in Seq(Items), NEW w, NEW x, x \in w, asked.cost \in [Items -> Nat],
           IsInjective(s), x \in ToSet(s)
    PROVE  TotalCost(s, w) = TotalCost(s, w \ {x}) + asked.cost[x]
<1> DEFINE n == Len(s)
           f == Costs(s, w)
           h == Costs(s, w \ {x})
<1>1. n \in Nat /\ DOMAIN s = 1..n
  OBVIOUS
<1>2. PICK j \in 1..n : s[j] = x
  BY <1>1 DEF ToSet
<1>3. \A k \in 1..n : s[k] = x => k = j
  BY <1>1, <1>2 DEF IsInjective
<1>4. f[0] = 0 /\ h[0] = 0 /\ \A k \in 0..n : f[k] \in Nat
  BY CostsAre
<1>5. \A k \in 1..n : f[k] = f[k - 1] + Cost(s[k], w)
  BY CostsAre
<1>6. \A k \in 0..n : h[k] \in Nat
  BY CostsAre
<1>7. \A k \in 1..n : h[k] = h[k - 1] + Cost(s[k], w \ {x})
  BY CostsAre
<1>8. asked.cost[x] \in Nat /\ x \in Items
  BY <1>2
<1>9. \A k \in 1..n : Cost(s[k], w) \in Nat
  BY CostsAre
<1> DEFINE c == asked.cost[x]
           T == {k \in 0..n : f[k] = h[k] + (IF k < j THEN 0 ELSE c)}
<1> HIDE DEF n, f, h
<1>10. 0 \in T
  BY <1>1, <1>2, <1>4
<1>11. ASSUME NEW k \in 0..n, k \in T, k # n
      PROVE  k + 1 \in T
  <2>1. k + 1 \in 1..n /\ (k + 1) - 1 = k /\ k + 1 \in 0..n
    BY <1>1, <1>11
  <2>2. f[k + 1] = f[k] + Cost(s[k + 1], w) /\ h[k + 1] = h[k] + Cost(s[k + 1], w \ {x})
    BY <1>5, <1>7, <2>1
  <2>3. f[k] \in Nat /\ h[k] \in Nat /\ Cost(s[k + 1], w) \in Nat
    BY <1>4, <1>6, <1>9, <1>11, <2>1
  <2>4. f[k] = h[k] + (IF k < j THEN 0 ELSE c)
    BY <1>11
  <2>5. f[k + 1] = h[k + 1] + (IF k + 1 < j THEN 0 ELSE c)
    <3>1. CASE k + 1 = j
      <4>1. Cost(s[k + 1], w) = c /\ Cost(s[k + 1], w \ {x}) = 0
        BY <1>2, <3>1 DEF Cost
      <4>2. k < j /\ ~(k + 1 < j)
        BY <2>1, <3>1
      <4> QED  BY <1>8, <2>2, <2>3, <2>4, <4>1, <4>2
    <3>2. CASE k + 1 # j
      <4>1. Cost(s[k + 1], w) = Cost(s[k + 1], w \ {x})
        BY <1>3, <2>1, <3>2 DEF Cost
      <4>2. (k + 1 < j) <=> (k < j)
        BY <1>2, <2>1, <3>2
      <4> HIDE DEF c
      <4>3. c \in Nat
        BY <1>8 DEF c
      <4> QED  BY <2>2, <2>3, <2>4, <4>1, <4>2, <4>3
    <3> QED  BY <3>1, <3>2
  <2> QED  BY <2>1, <2>5
<1> HIDE DEF T
<1>12. T = 0..n
  BY <1>1, <1>10, <1>11, UpTo DEF T
<1>13. f[n] = h[n] + c
  <2>1. n \in T /\ ~(n < j)
    BY <1>1, <1>2, <1>12
  <2> QED  BY <2>1 DEF T
<1> QED  BY <1>13 DEF TotalCost, f, h, n

LEMMA NoCosts ==
    ASSUME NEW w, asked.cost \in [Items -> Nat]
    PROVE  TotalCost(<<>>, w) = 0
<1>1. <<>> \in Seq(Items) /\ Len(<<>>) = 0
  OBVIOUS
<1> QED  BY <1>1, CostsAre DEF TotalCost

(* What the walk relies on of a state. *)
LEMMA Known ==
    ASSUME PackInv
    PROVE  /\ asked.results \in Seq(Items) /\ asked.cost \in [Items -> Nat]
           /\ asked.reserved \subseteq Facts /\ asked.budget \in Nat
           /\ place \in 1..(Len(asked.results) + 1) /\ used \in Nat
           /\ committed \in Seq(Items) /\ included \in Seq(Items) /\ PackTypeOK
BY DEF PackInv, PackTypeOK, Question

LEMMA CostsOfAsked ==
    ASSUME UNCHANGED asked
    PROVE  /\ Owed' = TotalCost(committed', Items \ ToSet(included'))
           /\ TotalCost(included, Items)' = TotalCost(included', Items)
           /\ ReservedFit' = ReservedFit
           /\ Costs(asked.results, asked.reserved)' = Costs(asked.results, asked.reserved)
<1>1. Owed' = TotalCost(committed', Items \ ToSet(included'))
  BY DEF Owed, TotalCost, Costs, Cost
<1>2. TotalCost(included, Items)' = TotalCost(included', Items)
  BY DEF TotalCost, Costs, Cost
<1>3. ReservedFit' = ReservedFit
  BY DEF ReservedFit, TotalCost, Costs, Cost
<1>4. Costs(asked.results, asked.reserved)' = Costs(asked.results, asked.reserved)
  BY DEF Costs, Cost
<1> QED  BY <1>1, <1>2, <1>3, <1>4

LEMMA PaidInit == PackInit => PaidInv
<1> SUFFICES ASSUME PackInit  PROVE PaidInv
  OBVIOUS
<1>1. PackInv
  BY InitHolds
<1>2. committed = <<>> /\ included = <<>> /\ used = Header /\ place = 1 /\ Header \in Nat
      /\ phase = IF asked.reserved = {} THEN "fill" ELSE "reserve"
  BY PackAssumption DEF PackInit, PackAssumption
<1>3. asked.cost \in [Items -> Nat] /\ asked.results \in Seq(Items)
  BY <1>1, Known
<1>4. ToSet(committed) = {} /\ IsInjective(committed)
  BY <1>2 DEF ToSet, IsInjective
<1>5. Paid
  BY <1>2, <1>3, NoCosts DEF Paid, Owed
<1>6. InReserve
  <2>1. Passed = {}
    BY <1>2 DEF Passed
  <2>2. Costs(asked.results, asked.reserved)[0] = 0
    BY <1>3, CostsAre
  <2> QED  BY <1>2, <1>4, <2>1, <2>2 DEF InReserve
<1>7. Guaranteed
  BY <1>2 DEF Guaranteed
<1> QED  BY <1>4, <1>5, <1>6, <1>7 DEF PaidInv

(* The pass over the reserved rows: the row is passed over or paid for. *)
LEMMA ReservePaid ==
    ASSUME PackInv, PaidInv, PassOver \/ Commit
    PROVE  PaidInv'
<1>1. /\ phase = "reserve" /\ phase' = "reserve" /\ place' = place + 1 /\ RowLeft
      /\ UNCHANGED <<asked, included>> /\ included = <<>>
  BY DEF PassOver, Commit, PackInv, NothingYet
<1>2. /\ asked.results \in Seq(Items) /\ asked.cost \in [Items -> Nat] /\ committed \in Seq(Items)
      /\ place \in 1..Len(asked.results) /\ used \in Nat /\ PackTypeOK /\ Header \in Nat
  BY <1>1, Known, PackAssumption DEF RowLeft, PackAssumption
<1>3. Row \in Items /\ Row \notin Passed /\ Passed' = Passed \cup {Row}
  <2>1. Row \in Items /\ Row \notin Passed
    BY <1>1, <1>2, RowIsNew
  <2>2. Passed' = Passed \cup {Row}
    BY <1>1, <1>2 DEF Passed, Row
  <2> QED  BY <2>1, <2>2
<1>4. ToSet(committed) = Passed \cap asked.reserved /\ IsInjective(committed)
      /\ used = Header + Costs(asked.results, asked.reserved)[place - 1]
      /\ used = Header + TotalCost(included, Items) + Owed
  BY <1>1 DEF PaidInv, InReserve, Paid
<1>5. Costs(asked.results, asked.reserved)[place]
         = Costs(asked.results, asked.reserved)[place - 1] + Cost(Row, asked.reserved)
      /\ Costs(asked.results, asked.reserved)[place - 1] \in Nat
  <2>1. place - 1 \in 0..Len(asked.results)
    BY <1>2
  <2> QED  BY <1>2, <2>1, CostsAre DEF Row
<1>6. Items \ ToSet(included) = Items /\ Items \ ToSet(included') = Items
  BY <1>1 DEF ToSet
<1>7. Owed = TotalCost(committed, Items) /\ Owed' = TotalCost(committed', Items)
      /\ TotalCost(included, Items)' = TotalCost(included, Items)
      /\ Costs(asked.results, asked.reserved)' = Costs(asked.results, asked.reserved)
  <2>1. Owed' = TotalCost(committed', Items \ ToSet(included'))
        /\ TotalCost(included, Items)' = TotalCost(included', Items)
    BY <1>1, CostsOfAsked
  <2>2. Costs(asked.results, asked.reserved)' = Costs(asked.results, asked.reserved)
    BY <1>1, CostsOfAsked
  <2> QED  BY <1>1, <1>6, <2>1, <2>2 DEF Owed
<1>8. TotalCost(included, Items) = 0
  BY <1>1, <1>2, NoCosts
<1>9. (place + 1) - 1 = place
  BY <1>2
<1>10. Guaranteed'
  BY <1>1 DEF Guaranteed
<1>11. CASE PassOver
  <2>1. Row \notin asked.reserved /\ UNCHANGED <<used, committed>>
    BY <1>11 DEF PassOver
  <2>2. Cost(Row, asked.reserved) = 0
    BY <2>1 DEF Cost
  <2>3. InReserve'
    BY <1>1, <1>3, <1>4, <1>5, <1>7, <1>9, <2>1, <2>2 DEF InReserve
  <2>4. Paid'
    BY <1>4, <1>7, <2>1 DEF Paid
  <2>5. IsInjective(committed')
    BY <1>4, <2>1
  <2> QED  BY <1>10, <2>3, <2>4, <2>5 DEF PaidInv
<1>12. CASE Commit
  <2>1. Row \in asked.reserved /\ committed' = Append(committed, Row)
        /\ used' = used + asked.cost[Row]
    BY <1>12 DEF Commit
  <2>2. Cost(Row, asked.reserved) = asked.cost[Row] /\ Cost(Row, Items) = asked.cost[Row]
        /\ asked.cost[Row] \in Nat
    BY <1>2, <1>3, <2>1 DEF Cost
  <2>3. ToSet(committed') = ToSet(committed) \cup {Row}
    BY <1>2, <1>3, <2>1, ToSetAppend
  <2>4. InReserve'
    <3>1. used' = Header + Costs(asked.results, asked.reserved)[place]
      BY <1>2, <1>4, <1>5, <2>1, <2>2
    <3> QED  BY <1>1, <1>3, <1>4, <1>7, <1>9, <2>1, <2>3, <3>1 DEF InReserve
  <2>5. Paid'
    <3>1. TotalCost(committed', Items) = TotalCost(committed, Items) + Cost(Row, Items)
      BY <1>2, <1>3, <2>1, OneMoreCosts
    <3>2. TotalCost(committed, Items) \in Nat
      BY <1>2, TotalIsNat
    <3> QED  BY <1>2, <1>4, <1>7, <1>8, <2>1, <2>2, <3>1, <3>2 DEF Paid
  <2>6. IsInjective(committed')
    BY <1>2, <1>3, <1>4, <2>1, StaysInjective
  <2> QED  BY <1>10, <2>4, <2>5, <2>6 DEF PaidInv
<1> QED  BY <1>11, <1>12

(* The pass ends at the end of the results, all reserved rows paid for, or *)
(* at one that does not fit: then they do not fit together.                *)
LEMMA EndReservePaid ==
    ASSUME PackInv, PaidInv, EndReserve
    PROVE  PaidInv'
<1>1. /\ phase = "reserve" /\ phase' = "fill" /\ UNCHANGED <<asked, used, committed, included>>
      /\ RowLeft => Row \in asked.reserved /\ ~Fits(Row)
  BY DEF EndReserve
<1>2. /\ asked.results \in Seq(Items) /\ asked.cost \in [Items -> Nat] /\ asked.budget \in Nat
      /\ place \in 1..(Len(asked.results) + 1) /\ used \in Nat /\ Header \in Nat
  BY Known, PackAssumption DEF PackAssumption
<1>3. ToSet(committed) = Passed \cap asked.reserved
      /\ used = Header + Costs(asked.results, asked.reserved)[place - 1]
  BY <1>1 DEF PaidInv, InReserve
<1>4. IsInjective(committed') /\ InReserve'
  BY <1>1 DEF PaidInv, InReserve
<1>5. Paid'
  <2>1. Owed' = Owed /\ TotalCost(included, Items)' = TotalCost(included, Items)
    BY <1>1, CostsOfAsked DEF Owed
  <2> QED  BY <1>1, <2>1 DEF PaidInv, Paid
<1>6. ReservedFit => ~RowLeft
  <2> SUFFICES ASSUME ReservedFit, RowLeft  PROVE FALSE
    OBVIOUS
  <2>1. place \in 1..Len(asked.results) /\ place - 1 \in 0..Len(asked.results)
        /\ place \in 0..Len(asked.results)
    BY <1>2 DEF RowLeft
  <2>2. Costs(asked.results, asked.reserved)[place]
           = Costs(asked.results, asked.reserved)[place - 1] + Cost(Row, asked.reserved)
        /\ Costs(asked.results, asked.reserved)[place - 1] \in Nat
    BY <1>2, <2>1, CostsAre DEF Row
  <2>3. Cost(Row, asked.reserved) = asked.cost[Row] /\ asked.cost[Row] \in Nat
    BY <1>1, <1>2, <2>1 DEF Cost, Row
  <2>4. Costs(asked.results, asked.reserved)[place] <= TotalCost(asked.results, asked.reserved)
    BY <1>2, <2>1, CostsRise
  <2>5. TotalCost(asked.results, asked.reserved) \in Nat
    BY <1>2, TotalIsNat
  <2>6. ~(used + asked.cost[Row] <= asked.budget)
    BY <1>1 DEF Fits
  <2>7. Header + TotalCost(asked.results, asked.reserved) <= asked.budget
    BY DEF ReservedFit
  <2>8. used \in Nat /\ Header \in Nat /\ asked.budget \in Nat
    BY <1>2
  <2>9. used = Header + Costs(asked.results, asked.reserved)[place - 1]
    BY <1>3
  <2>10. Header + Costs(asked.results, asked.reserved)[place] = used + asked.cost[Row]
    BY <2>2, <2>3, <2>8, <2>9
  <2>11. Costs(asked.results, asked.reserved)[place] \in Nat
    BY <2>2, <2>3
  <2> QED  BY <2>4, <2>5, <2>6, <2>7, <2>8, <2>10, <2>11
<1>7. ReservedFit => ToSet(asked.results) \cap asked.reserved \subseteq ToSet(committed)
  <2> SUFFICES ASSUME ReservedFit
               PROVE  ToSet(asked.results) \subseteq Passed
    BY <1>3
  <2>1. place = Len(asked.results) + 1
    BY <1>2, <1>6 DEF RowLeft
  <2>2. 1..(place - 1) = DOMAIN asked.results
    BY <1>2, <2>1
  <2> QED  BY <2>2 DEF ToSet, Passed
<1>8. Guaranteed'
  <2>1. ReservedFit' = ReservedFit
    BY <1>1, CostsOfAsked
  <2> QED  BY <1>1, <1>7, <2>1 DEF Guaranteed
<1> QED  BY <1>4, <1>5, <1>8 DEF PaidInv

(* A row that is included was paid for in advance, or is paid for now. *)
LEMMA IncludePaid ==
    ASSUME PackInv, PaidInv, TakePaid \/ Take
    PROVE  PaidInv'
<1> DEFINE w == Items \ ToSet(included)
<1>1. /\ phase = "fill" /\ phase' = "fill" /\ RowLeft /\ UNCHANGED <<asked, committed>>
      /\ included' = Append(included, Row)
  BY DEF TakePaid, Take
<1>2. /\ asked.results \in Seq(Items) /\ asked.cost \in [Items -> Nat] /\ PackTypeOK
      /\ committed \in Seq(Items) /\ included \in Seq(Items) /\ used \in Nat /\ Header \in Nat
  BY Known, PackAssumption DEF PackAssumption
<1>3. Row \in Items /\ Row \notin ToSet(included)
  <2>1. Row \in Items /\ Row \notin Passed
    BY <1>1, <1>2, RowIsNew
  <2>2. ToSet(included) \subseteq Passed
    BY <1>1 DEF PackInv, Walking
  <2> QED  BY <2>1, <2>2
<1>4. ToSet(included') = ToSet(included) \cup {Row}
  BY <1>1, <1>2, <1>3, ToSetAppend
<1>5. Items \ ToSet(included') = w \ {Row} /\ Row \in w
  BY <1>3, <1>4
<1> HIDE DEF w
<1>6. IsInjective(committed) /\ used = Header + TotalCost(included, Items) + TotalCost(committed, w)
  BY DEF PaidInv, Paid, Owed, w
<1>7. TotalCost(included', Items) = TotalCost(included, Items) + asked.cost[Row]
      /\ asked.cost[Row] \in Nat
  <2>1. TotalCost(included', Items) = TotalCost(included, Items) + Cost(Row, Items)
    BY <1>1, <1>2, <1>3, OneMoreCosts
  <2> QED  BY <1>2, <1>3, <2>1 DEF Cost
<1>8. TotalCost(included, Items) \in Nat
  BY <1>2, TotalIsNat
<1>9. TotalCost(committed, w \ {Row}) \in Nat
  BY <1>2, TotalIsNat
<1>10. Header \in Nat
  BY <1>2
<1>11. used' = Header + TotalCost(included', Items) + TotalCost(committed, w \ {Row})
  <2>1. CASE TakePaid
    <3>1. Row \in ToSet(committed) /\ used' = used
      BY <2>1 DEF TakePaid, PaidFor
    <3>2. TotalCost(committed, w) = TotalCost(committed, w \ {Row}) + asked.cost[Row]
      <4>1. /\ committed \in Seq(Items) /\ asked.cost \in [Items -> Nat]
            /\ Row \in w /\ IsInjective(committed) /\ Row \in ToSet(committed)
        BY <1>2, <1>5, <1>6, <3>1
      <4> QED  BY <4>1, WithoutRow, Zenon
    <3>3. used' = Header + TotalCost(included, Items)
                         + (TotalCost(committed, w \ {Row}) + asked.cost[Row])
      BY <1>6, <3>1, <3>2
    <3> QED  BY <1>7, <1>8, <1>9, <1>10, <3>3
  <2>2. CASE Take
    <3>1. Row \notin ToSet(committed) /\ used' = used + asked.cost[Row]
      BY <2>2 DEF Take, Wanted, PaidFor
    <3>2. \A k \in 1..Len(committed) : committed[k] # Row
      BY <1>2, <3>1 DEF ToSet
    <3>3. \A k \in 1..Len(committed) : committed[k] \in w <=> committed[k] \in w \ {Row}
      BY <3>2
    <3>4. TotalCost(committed, w) = TotalCost(committed, w \ {Row})
      BY <1>2, <3>3, SameCosts
    <3>5. used' = Header + TotalCost(included, Items) + TotalCost(committed, w \ {Row})
                         + asked.cost[Row]
      BY <1>6, <3>1, <3>4
    <3> QED  BY <1>7, <1>8, <1>9, <1>10, <3>5
  <2> QED  BY <1>1, <2>1, <2>2
<1>12. Paid'
  <2>1. Owed' = TotalCost(committed', Items \ ToSet(included'))
        /\ TotalCost(included, Items)' = TotalCost(included', Items)
    BY <1>1, CostsOfAsked
  <2> QED  BY <1>1, <1>5, <1>11, <2>1 DEF Paid
<1>13. IsInjective(committed') /\ InReserve'
  BY <1>1, <1>6 DEF InReserve
<1>14. Guaranteed'
  <2>1. ReservedFit' = ReservedFit
    BY <1>1, CostsOfAsked
  <2> QED  BY <1>1, <1>4, <2>1 DEF PaidInv, Guaranteed
<1> QED  BY <1>12, <1>13, <1>14 DEF PaidInv

(* A row that is left out, and the ends of the walk, cost nothing. *)
LEMMA OtherPaid ==
    ASSUME PackInv, PaidInv, SkipCovered \/ OmitInsight \/ Truncate \/ EndFill \/ EndTail
    PROVE  PaidInv'
<1>1. /\ phase # "reserve" /\ phase' # "reserve"
      /\ UNCHANGED <<asked, used, committed, included>>
  BY DEF SkipCovered, OmitInsight, Truncate, EndFill, EndTail
<1>2. Paid'
  <2>1. Owed' = Owed /\ TotalCost(included, Items)' = TotalCost(included, Items)
    BY <1>1, CostsOfAsked DEF Owed
  <2> QED  BY <1>1, <2>1 DEF PaidInv, Paid
<1>3. IsInjective(committed') /\ InReserve'
  BY <1>1 DEF PaidInv, InReserve
<1>4. Guaranteed'
  <2>1. ReservedFit' = ReservedFit
    BY <1>1, CostsOfAsked
  <2> QED  BY <1>1, <2>1 DEF PaidInv, Guaranteed
<1> QED  BY <1>2, <1>3, <1>4 DEF PaidInv

(* Of rows that differ, the first and the others. *)
LEMMA TailInjective ==
    ASSUME NEW s \in Seq(Items), s # <<>>, IsInjective(s)
    PROVE  /\ Tail(s) \in Seq(Items) /\ Head(s) \in Items /\ IsInjective(Tail(s))
           /\ \A k \in 1..Len(Tail(s)) : Tail(s)[k] # Head(s)
           /\ ToSet(s) \subseteq ToSet(Tail(s)) \cup {Head(s)}
<1> DEFINE n == Len(s) - 1
           t == Tail(s)
<1>1. /\ n \in Nat /\ t \in Seq(Items) /\ Len(t) = n /\ DOMAIN t = 1..n /\ DOMAIN s = 1..(n + 1)
      /\ Head(s) = s[1] /\ s[1] \in Items
  OBVIOUS
<1>2. \A j \in 1..n : t[j] = s[j + 1]
  OBVIOUS
<1> HIDE DEF n, t
<1>3. \A a, b \in 1..(n + 1) : s[a] = s[b] => a = b
  BY <1>1 DEF IsInjective
<1>4. ASSUME NEW j \in 1..n
      PROVE  /\ t[j] # s[1]
             /\ \A k \in 1..n : t[j] = t[k] => j = k
  <2>1. j + 1 \in 1..(n + 1) /\ 1 \in 1..(n + 1) /\ j + 1 # 1
    BY <1>1
  <2>2. t[j] # s[1]
    BY <1>2, <1>3, <2>1
  <2>3. ASSUME NEW k \in 1..n, t[j] = t[k]
        PROVE  j = k
    <3>1. k + 1 \in 1..(n + 1) /\ s[j + 1] = s[k + 1]
      BY <1>1, <1>2, <2>3
    <3>2. j + 1 = k + 1
      BY <1>3, <2>1, <3>1
    <3> QED  BY <3>2
  <2> QED  BY <2>2, <2>3
<1>5. IsInjective(t)
  BY <1>1, <1>4 DEF IsInjective
<1>6. ASSUME NEW x \in ToSet(s), x # s[1]
      PROVE  x \in ToSet(t)
  <2>1. PICK k \in 1..(n + 1) : s[k] = x
    BY <1>1 DEF ToSet
  <2>2. k - 1 \in 1..n /\ (k - 1) + 1 = k
    BY <1>1, <1>6, <2>1
  <2>3. t[k - 1] = x
    BY <1>2, <2>1, <2>2
  <2> QED  BY <1>1, <2>2, <2>3 DEF ToSet
<1> QED  BY <1>1, <1>4, <1>5, <1>6 DEF t

(* The first of the rows that were paid for is appended, or was reached. *)
LEMMA AppendPaidPaid ==
    ASSUME PackInv, PaidInv, AppendPaid
    PROVE  PaidInv'
<1> DEFINE row == Head(committed)
           rest == Tail(committed)
           w == Items \ ToSet(included)
<1>1. /\ phase = "tail" /\ phase' = "tail" /\ committed # <<>> /\ committed' = rest
      /\ UNCHANGED <<asked, used>>
      /\ included' = IF row \in ToSet(included) THEN included ELSE Append(included, row)
  BY DEF AppendPaid
<1>2. /\ asked.cost \in [Items -> Nat] /\ committed \in Seq(Items) /\ included \in Seq(Items)
      /\ used \in Nat /\ Header \in Nat
  BY Known, PackAssumption DEF PackAssumption
<1>3. IsInjective(committed) /\ used = Header + TotalCost(included, Items) + TotalCost(committed, w)
  BY DEF PaidInv, Paid, Owed
<1>4. /\ rest \in Seq(Items) /\ row \in Items /\ IsInjective(rest)
      /\ \A k \in 1..Len(rest) : rest[k] # row
      /\ ToSet(committed) \subseteq ToSet(rest) \cup {row}
  BY <1>1, <1>2, <1>3, TailInjective
<1>5. TotalCost(committed, w) = TotalCost(rest, w) + Cost(row, w)
  BY <1>1, <1>2, OneLessCosts
<1>6. TotalCost(included, Items) \in Nat
  BY <1>2, TotalIsNat
<1>7. TotalCost(rest, w) \in Nat
  BY <1>2, <1>4, TotalIsNat
<1>8. asked.cost[row] \in Nat
  BY <1>2, <1>4
<1>9. row \in w <=> row \notin ToSet(included)
  BY <1>4
<1> HIDE DEF row, rest, w
<1>10. used = Header + TotalCost(included', Items) + TotalCost(rest, Items \ ToSet(included'))
       /\ ToSet(included') = ToSet(included) \cup {row}
  <2>1. CASE row \in ToSet(included)
    <3>1. included' = included /\ Cost(row, w) = 0
      BY <1>1, <1>9, <2>1 DEF Cost
    <3>2. Items \ ToSet(included') = w
      BY <3>1 DEF w
    <3>3. ToSet(included') = ToSet(included) \cup {row}
      BY <2>1, <3>1
    <3>4. used = Header + TotalCost(included', Items) + TotalCost(rest, w)
      BY <1>2, <1>3, <1>5, <1>6, <1>7, <3>1
    <3> QED  BY <3>2, <3>3, <3>4
  <2>2. CASE row \notin ToSet(included)
    <3>1. included' = Append(included, row) /\ Cost(row, w) = asked.cost[row]
          /\ Cost(row, Items) = asked.cost[row]
      BY <1>1, <1>4, <1>9, <2>2 DEF Cost
    <3>2. ToSet(included') = ToSet(included) \cup {row}
      BY <1>2, <1>4, <3>1, ToSetAppend
    <3>3. Items \ ToSet(included') = w \ {row}
      BY <3>2 DEF w
    <3>4. \A k \in 1..Len(rest) : rest[k] \in w <=> rest[k] \in w \ {row}
      BY <1>4
    <3>5. TotalCost(rest, w) = TotalCost(rest, w \ {row})
      BY <1>2, <1>4, <3>4, SameCosts
    <3>6. TotalCost(included', Items) = TotalCost(included, Items) + asked.cost[row]
      BY <1>2, <1>4, <3>1, OneMoreCosts
    <3>7. used = Header + TotalCost(included', Items) + TotalCost(rest, w)
      <4>1. used = Header + TotalCost(included, Items) + (TotalCost(rest, w) + asked.cost[row])
        BY <1>3, <1>5, <3>1
      <4>2. Header \in Nat
        BY <1>2
      <4> QED  BY <1>6, <1>7, <1>8, <3>6, <4>1, <4>2
    <3> QED  BY <3>2, <3>3, <3>5, <3>7
  <2> QED  BY <2>1, <2>2
<1>11. Paid'
  <2>1. Owed' = TotalCost(committed', Items \ ToSet(included'))
        /\ TotalCost(included, Items)' = TotalCost(included', Items)
    BY <1>1, CostsOfAsked
  <2> QED  BY <1>1, <1>10, <2>1 DEF Paid
<1>12. IsInjective(committed') /\ InReserve'
  BY <1>1, <1>4 DEF InReserve
<1>13. Guaranteed'
  <2>1. ReservedFit' = ReservedFit
    BY <1>1, CostsOfAsked
  <2> QED  BY <1>1, <1>4, <1>10, <2>1 DEF PaidInv, Guaranteed
<1> QED  BY <1>11, <1>12, <1>13 DEF PaidInv

-----------------------------------------------------------------------------
(* The packing of any question keeps its invariant (select_recall).        *)
THEOREM PackInductive == PackSpec => []PackInv
<1>1. PackInit => PackInv
  BY InitHolds
<1>2. ASSUME PackInv, [PackNext]_packVars
      PROVE  PackInv'
  <2>1. CASE PassOver \/ Commit \/ EndReserve
    BY <1>2, <2>1, ReservePreserves
  <2>2. CASE TakePaid \/ SkipCovered \/ Take \/ OmitInsight
    BY <1>2, <2>2, FillPreserves
  <2>3. CASE Truncate \/ EndFill \/ EndTail
    BY <1>2, <2>3, EndPreserves
  <2>4. CASE AppendPaid
    BY <1>2, <2>4, AppendPaidPreserves
  <2>5. CASE UNCHANGED packVars
    BY <1>2, <2>5 DEF packVars, PackInv, PackTypeOK, NothingYet, Walking, NoneTwice, Passed,
       CoveredByIncluded, NonePassedMissing, EndsAtAFact, WithinBudget, RowLeft, Row, Fits
  <2> QED  BY <1>2, <2>1, <2>2, <2>3, <2>4, <2>5 DEF PackNext
<1> QED  BY <1>1, <1>2, PTL DEF PackSpec

(* The tokens counted are those of the rows included and of the reserved   *)
(* ones still to come, and no reserved row is missing when all fit.        *)
THEOREM PaidInductive == PackSpec => []PaidInv
<1>1. PackInit => PaidInv
  BY PaidInit
<1>2. ASSUME PackInv, PaidInv, [PackNext]_packVars
      PROVE  PaidInv'
  <2>1. CASE PassOver \/ Commit
    BY <1>2, <2>1, ReservePaid
  <2>2. CASE EndReserve
    BY <1>2, <2>2, EndReservePaid
  <2>3. CASE TakePaid \/ Take
    BY <1>2, <2>3, IncludePaid
  <2>4. CASE SkipCovered \/ OmitInsight \/ Truncate \/ EndFill \/ EndTail
    BY <1>2, <2>4, OtherPaid
  <2>5. CASE AppendPaid
    BY <1>2, <2>5, AppendPaidPaid
  <2>6. CASE UNCHANGED packVars
    <3>1. UNCHANGED <<asked, phase, place, used, committed, included>>
      BY <2>6 DEF packVars
    <3>2. Owed' = Owed /\ TotalCost(included, Items)' = TotalCost(included, Items)
          /\ Costs(asked.results, asked.reserved)' = Costs(asked.results, asked.reserved)
      BY <3>1, CostsOfAsked DEF Owed
    <3>3. ReservedFit' = ReservedFit
      BY <3>1, CostsOfAsked
    <3>4. IsInjective(committed') /\ Paid' /\ InReserve'
      BY <1>2, <3>1, <3>2 DEF PaidInv, Paid, InReserve, Passed
    <3>5. Guaranteed'
      BY <1>2, <3>1, <3>3 DEF PaidInv, Guaranteed
    <3> QED  BY <3>4, <3>5 DEF PaidInv
  <2> QED  BY <1>2, <2>1, <2>2, <2>3, <2>4, <2>5, <2>6 DEF PackNext
<1> QED  BY <1>1, <1>2, PackInductive, PTL DEF PackSpec

(* select_recall packs what it ranked: its behaviours are those of the     *)
(* packing, and whatever the packing keeps, recall keeps.                  *)
THEOREM SelectPacks == SelectSpec => PackSpec
<1>1. SelectInit => PackInit
  BY DEF SelectInit
<1>2. [SelectNext]_selectVars => [PackNext]_packVars
  BY DEF SelectNext, selectVars, packVars
<1> QED  BY <1>1, <1>2, PTL DEF SelectSpec, PackSpec

(* A fact recall found is injected, or held in full by an insight that is, *)
(* unless the walk ended before it at a fact that does not fit.            *)
THEOREM RecallLosesNothing == SelectSpec => []NothingLostToSummary
<1>1. PackInv => NothingLostToSummary
  <2> SUFFICES ASSUME PackInv, phase = "done"
               PROVE  /\ \A k \in 1..Len(asked.results) :
                            asked.results[k] \in Facts /\ k < place =>
                               \/ asked.results[k] \in ToSet(included)
                               \/ \E i \in ToSet(included) : asked.results[k] \in asked.covers[i]
                      /\ RowLeft => Row \in Facts /\ ~Fits(Row)
    BY DEF NothingLostToSummary
  <2>1. RowLeft => Row \in Facts /\ ~Fits(Row)
    BY DEF PackInv, EndsAtAFact
  <2>2. NonePassedMissing /\ CoveredByIncluded
    BY DEF PackInv
  <2> QED  BY <2>1, <2>2 DEF NonePassedMissing, CoveredByIncluded
<1> QED  BY <1>1, SelectPacks, PackInductive, PTL

LEMMA DoneOwesNothing == PackSpec => [](phase = "done" => committed = <<>>)
<1>1. PackInit => (phase = "done" => committed = <<>>)
  BY DEF PackInit
<1>2. (phase = "done" => committed = <<>>) /\ [PackNext]_packVars
         => (phase = "done" => committed = <<>>)'
  BY DEF PackNext, packVars, PassOver, Commit, EndReserve, TakePaid, SkipCovered, Take,
         OmitInsight, Truncate, EndFill, AppendPaid, EndTail
<1> QED  BY <1>1, <1>2, PTL DEF PackSpec

(* What recall injects keeps to the budget: the tokens_used it reports are *)
(* those of the rows it emits, the reserved ones that it paid for in       *)
(* advance included, no row twice and no answer over budget.               *)
THEOREM RecallPaysOnce == SelectSpec => []BudgetKept
<1>1. PackInv /\ PaidInv /\ (phase = "done" => committed = <<>>) => BudgetKept
  <2> SUFFICES ASSUME PackInv, PaidInv, phase = "done" => committed = <<>>
               PROVE  BudgetKept
    OBVIOUS
  <2>1. WithinBudget /\ NoneTwice
    BY DEF PackInv
  <2>2. ASSUME phase = "done"
        PROVE  used = Header + TotalCost(included, Items)
    <3>1. asked.cost \in [Items -> Nat] /\ included \in Seq(Items) /\ Header \in Nat
      BY Known, PackAssumption DEF PackAssumption
    <3>2. Owed = 0
      BY <2>2, <3>1, NoCosts DEF Owed
    <3>3. TotalCost(included, Items) \in Nat
      BY <3>1, TotalIsNat
    <3>4. used = Header + TotalCost(included, Items) + Owed
      BY DEF PaidInv, Paid
    <3> QED  BY <3>1, <3>2, <3>3, <3>4
  <2> QED  BY <2>1, <2>2 DEF BudgetKept
<1> QED  BY <1>1, SelectPacks, PackInductive, PaidInductive, DoneOwesNothing, PTL

(* The reserved slots are guaranteed: when the budget holds them all, all  *)
(* of them are injected, wherever the walk ended (the second loop of       *)
(* select_recall appends those it did not reach).                          *)
THEOREM RecallKeepsReserved == SelectSpec => []ReservedGuaranteed
<1>1. PaidInv /\ (phase = "done" => committed = <<>>) => ReservedGuaranteed
  <2> SUFFICES ASSUME PaidInv, phase = "done", committed = <<>>, ReservedFit
               PROVE  ToSet(asked.results) \cap asked.reserved \subseteq ToSet(included)
    BY DEF ReservedGuaranteed, ReservedFit
  <2>1. ToSet(committed) = {}
    BY DEF ToSet
  <2> QED  BY <2>1 DEF PaidInv, Guaranteed
<1> QED  BY <1>1, SelectPacks, PaidInductive, DoneOwesNothing, PTL

-----------------------------------------------------------------------------
(* The selection: what each stage returns, whatever was asked.  Its lists  *)
(* are taken from others by position or by rank, and a rank is that of one *)
(* element (Ranking), so they are lists of rows, none twice.               *)
LEMMA PositionsAre ==
    ASSUME NEW V, NEW s \in Seq(V), NEW P \in SUBSET DOMAIN s
    PROVE  /\ Positions(s, P) \in Seq(V)
           /\ \A x \in ToSet(Positions(s, P)) : \E k \in P : x = s[k]
           /\ IsInjective(s) => IsInjective(Positions(s, P))
<1> DEFINE n == Cardinality(P)
           at == [i \in 1..n |-> CHOOSE k \in P : Cardinality({l \in P : l < k}) = i - 1]
           t == Positions(s, P)
<1>1. Len(s) \in Nat /\ DOMAIN s = 1..Len(s)
  OBVIOUS
<1>2. n \in Nat /\ \A i \in 0..(n - 1) : \E k \in P : Cardinality({l \in P : l < k}) = i
  <2>1. P \in SUBSET (1..Len(s)) /\ P \in SUBSET Nat
    BY <1>1
  <2>2. IsFiniteSet(1..Len(s))
    BY <1>1, FS_Interval
  <2>3. IsFiniteSet(P)
    BY <2>1, <2>2, FS_Subset
  <2> QED  BY <2>1, <2>3, RankIn
<1>3. ASSUME NEW i \in 1..n
      PROVE  at[i] \in P /\ Cardinality({l \in P : l < at[i]}) = i - 1
  <2>1. i - 1 \in 0..(n - 1)
    BY <1>2
  <2>2. \E k \in P : Cardinality({l \in P : l < k}) = i - 1
    BY <1>2, <2>1
  <2> QED  BY <2>2
<1>4. t = [i \in 1..n |-> s[at[i]]]
  BY DEF Positions
<1> HIDE DEF at, t, n
<1>5. ASSUME NEW i \in 1..n
      PROVE  s[at[i]] \in V
  <2>1. at[i] \in 1..Len(s)
    BY <1>1, <1>3
  <2> QED  BY <2>1
<1>6. t \in Seq(V) /\ DOMAIN t = 1..n
  BY <1>2, <1>4, <1>5
<1>7. ASSUME NEW x \in ToSet(t)
      PROVE  \E k \in P : x = s[k]
  <2>1. PICK i \in 1..n : x = t[i]
    BY <1>6 DEF ToSet
  <2> QED  BY <1>3, <1>4, <2>1
<1>8. ASSUME IsInjective(s), NEW i \in 1..n, NEW j \in 1..n, t[i] = t[j]
      PROVE  i = j
  <2>1. s[at[i]] = s[at[j]] /\ at[i] \in DOMAIN s /\ at[j] \in DOMAIN s
    BY <1>3, <1>4, <1>8
  <2>2. at[i] = at[j]
    BY <1>8, <2>1 DEF IsInjective
  <2>3. i - 1 = j - 1
    BY <1>3, <2>2
  <2> QED  BY <2>3
<1>9. IsInjective(s) => IsInjective(t)
  BY <1>6, <1>8 DEF IsInjective
<1> QED  BY <1>6, <1>7, <1>9 DEF t

LEMMA ThoseAre ==
    ASSUME NEW V, NEW s \in Seq(V), NEW S
    PROVE  /\ Those(s, S) \in Seq(V)
           /\ ToSet(Those(s, S)) \subseteq S \cap ToSet(s)
           /\ IsInjective(s) => IsInjective(Those(s, S))
<1> DEFINE P == {k \in DOMAIN s : s[k] \in S}
<1>1. P \in SUBSET DOMAIN s /\ Those(s, S) = Positions(s, P)
  BY DEF Those
<1>2. \A k \in P : s[k] \in S \cap ToSet(s)
  BY DEF ToSet
<1> HIDE DEF P
<1> QED  BY <1>1, <1>2, PositionsAre

LEMMA AtMostAre ==
    ASSUME NEW V, NEW s \in Seq(V), NEW n \in Nat
    PROVE  /\ AtMost(s, n) \in Seq(V)
           /\ ToSet(AtMost(s, n)) \subseteq ToSet(s)
           /\ IsInjective(s) => IsInjective(AtMost(s, n))
<1> DEFINE m == IF Len(s) < n THEN Len(s) ELSE n
           t == AtMost(s, n)
<1>1. m \in 0..Len(s) /\ Len(s) \in Nat /\ DOMAIN s = 1..Len(s)
  OBVIOUS
<1>2. t = SubSeq(s, 1, m)
  BY DEF AtMost
<1> HIDE DEF m, t
<1>3. t \in Seq(V) /\ DOMAIN t = 1..m /\ \A k \in 1..m : t[k] = s[k] /\ k \in 1..Len(s)
  BY <1>1, <1>2
<1>4. ToSet(t) \subseteq ToSet(s)
  BY <1>1, <1>3 DEF ToSet
<1>5. IsInjective(s) => IsInjective(t)
  BY <1>1, <1>3 DEF IsInjective
<1> QED  BY <1>3, <1>4, <1>5 DEF t

LEMMA ConcatAre ==
    ASSUME NEW V, NEW s \in Seq(V), NEW t \in Seq(V)
    PROVE  /\ s \o t \in Seq(V)
           /\ ToSet(s \o t) \subseteq ToSet(s) \cup ToSet(t)
           /\ IsInjective(s) /\ IsInjective(t) /\ ToSet(s) \cap ToSet(t) = {}
                 => IsInjective(s \o t)
<1> DEFINE m == Len(s)
           n == Len(t)
           u == s \o t
<1>1. /\ m \in Nat /\ n \in Nat /\ u \in Seq(V)
      /\ DOMAIN s = 1..m /\ DOMAIN t = 1..n /\ DOMAIN u = 1..(m + n)
  OBVIOUS
<1>2. \A k \in 1..(m + n) : u[k] = IF k <= m THEN s[k] ELSE t[k - m]
  OBVIOUS
<1> HIDE DEF m, n, u
<1>3. ASSUME NEW k \in 1..(m + n)
      PROVE  \/ k \in 1..m /\ u[k] = s[k] /\ s[k] \in ToSet(s)
             \/ k \notin 1..m /\ k - m \in 1..n /\ u[k] = t[k - m] /\ t[k - m] \in ToSet(t)
  <2>1. CASE k <= m
    BY <1>1, <1>2, <2>1 DEF ToSet
  <2>2. CASE ~(k <= m)
    <3>1. k - m \in 1..n /\ u[k] = t[k - m]
      BY <1>1, <1>2, <2>2
    <3> QED  BY <1>1, <2>2, <3>1 DEF ToSet
  <2> QED  BY <2>1, <2>2
<1>4. ToSet(u) \subseteq ToSet(s) \cup ToSet(t)
  <2> SUFFICES ASSUME NEW x \in ToSet(u)  PROVE x \in ToSet(s) \cup ToSet(t)
    OBVIOUS
  <2>1. PICK k \in 1..(m + n) : x = u[k]
    BY <1>1 DEF ToSet
  <2> QED  BY <1>3, <2>1
<1>5. ASSUME IsInjective(s), IsInjective(t), ToSet(s) \cap ToSet(t) = {},
             NEW k \in 1..(m + n), NEW l \in 1..(m + n), u[k] = u[l]
      PROVE  k = l
  <2>1. \A a, b \in 1..m : s[a] = s[b] => a = b
    BY <1>1, <1>5 DEF IsInjective
  <2>2. \A a, b \in 1..n : t[a] = t[b] => a = b
    BY <1>1, <1>5 DEF IsInjective
  <2>3. k \in 1..m <=> l \in 1..m
    BY <1>3, <1>5
  <2>4. CASE k \in 1..m
    BY <1>3, <1>5, <2>1, <2>3, <2>4
  <2>5. CASE k \notin 1..m
    <3>1. k - m \in 1..n /\ l - m \in 1..n /\ t[k - m] = t[l - m]
      BY <1>3, <1>5, <2>3, <2>5
    <3>2. k - m = l - m
      BY <2>2, <3>1
    <3> QED  BY <1>1, <3>2
  <2> QED  BY <2>4, <2>5
<1>6. IsInjective(s) /\ IsInjective(t) /\ ToSet(s) \cap ToSet(t) = {} => IsInjective(u)
  BY <1>1, <1>5 DEF IsInjective
<1> QED  BY <1>1, <1>4, <1>6 DEF u

(* The multiple that stands for 1: a recursive function again. *)
Products(f, n) ==
    /\ f = [k \in 0..n |-> IF k = 0 THEN 1 ELSE f[k - 1] * (RrfK + k)]
    /\ f \in [0..n -> Nat]

LEMMA ProductsExist ==
    ASSUME NEW n \in Nat
    PROVE  \E f : Products(f, n)
<1>0. RrfK \in Nat
  BY RankAssumption DEF RankAssumption
<1>1. PICK step : step = [k \in 1..n |-> [y \in Nat |-> y * (RrfK + k)]]
  OBVIOUS
<1>2. /\ step \in [1..n -> [Nat -> Nat]] /\ 1 \in Nat
      /\ \A k \in 1..n : \A y \in Nat : step[k][y] = y * (RrfK + k)
  <2>1. \A k \in 1..n : \A y \in Nat : y * (RrfK + k) \in Nat
    BY <1>0
  <2> QED  BY <1>1, <2>1
<1>3. PICK f : f \in [0..n -> Nat] /\ f[0] = 1 /\ \A k \in 1..n : f[k] = step[k][f[k - 1]]
  <2>1. \E f : Iterates(f, n, Nat, 1, step)
    BY <1>2, Iterated
  <2> QED  BY <2>1 DEF Iterates
<1>4. ASSUME NEW k \in 0..n
      PROVE  f[k] = IF k = 0 THEN 1 ELSE f[k - 1] * (RrfK + k)
  <2>1. CASE k = 0
    BY <1>3, <2>1
  <2>2. CASE k # 0
    <3>1. k \in 1..n /\ k - 1 \in 0..n
      BY <2>2
    <3>2. f[k - 1] \in Nat
      BY <1>3, <3>1
    <3>3. f[k] = step[k][f[k - 1]] /\ step[k][f[k - 1]] = f[k - 1] * (RrfK + k)
      BY <1>2, <1>3, <3>1, <3>2
    <3> QED  BY <2>2, <3>3
  <2> QED  BY <2>1, <2>2
<1>5. f = [k \in 0..n |-> f[k]]
  BY <1>3
<1> QED  BY <1>3, <1>4, <1>5 DEF Products

LEMMA MultipleIsNat == Multiple \in Nat
<1> DEFINE n == Cardinality(Facts)
           product == CHOOSE f : f = [k \in 0..n |-> IF k = 0 THEN 1 ELSE f[k - 1] * (RrfK + k)]
<1>1. n \in Nat /\ RrfK \in Nat
  BY RankAssumption, FS_CardinalityType DEF RankAssumption
<1>2. product = [k \in 0..n |-> IF k = 0 THEN 1 ELSE product[k - 1] * (RrfK + k)]
  <2>1. \E f : f = [k \in 0..n |-> IF k = 0 THEN 1 ELSE f[k - 1] * (RrfK + k)]
    BY <1>1, ProductsExist DEF Products
  <2> QED  BY <2>1
<1>3. Multiple = product[n]
  BY DEF Multiple
<1> HIDE DEF product, n
<1> DEFINE T == {k \in 0..n : product[k] \in Nat}
<1>4. product[0] = 1 /\ \A k \in 1..n : product[k] = product[k - 1] * (RrfK + k)
  BY <1>1, <1>2
<1>5. 0 \in T
  BY <1>1, <1>4
<1>6. ASSUME NEW k \in 0..n, k \in T, k # n
      PROVE  k + 1 \in T
  <2>1. k + 1 \in 1..n /\ (k + 1) - 1 = k /\ k + 1 \in 0..n /\ RrfK + (k + 1) \in Nat
    BY <1>1, <1>6
  <2>2. product[k + 1] = product[k] * (RrfK + (k + 1))
    BY <1>4, <2>1
  <2>3. product[k] \in Nat
    BY <1>6
  <2>4. product[k + 1] \in Nat
    BY <2>1, <2>2, <2>3
  <2> QED  BY <2>1, <2>4
<1> HIDE DEF T
<1>7. T = 0..n
  BY <1>1, <1>5, <1>6, UpTo DEF T
<1>8. n \in T
  BY <1>1, <1>7
<1> QED  BY <1>3, <1>8 DEF T

(* Fusion reorders what the words and the vectors found. *)
LEMMA FusedAre ==
    ASSUME NEW seeds \in Seq(Items), NEW dense \in Seq(Items)
    PROVE  /\ Fused(seeds, dense) \in Seq(Items)
           /\ ToSet(Fused(seeds, dense)) \subseteq ToSet(seeds) \cup ToSet(dense)
           /\ IsInjective(seeds) /\ IsInjective(dense) => IsInjective(Fused(seeds, dense))
<1> DEFINE rest == Those(dense, ToSet(dense) \ ToSet(seeds))
           all == seeds \o rest
           Term(s, i) == IF i \in ToSet(s) THEN Multiple \div (RrfK + Rank(s, i)) ELSE 0
           score == [k \in DOMAIN all |-> Term(seeds, all[k]) + Term(dense, all[k])]
           before(k) == {l \in DOMAIN all : score[l] > score[k] \/ (score[l] = score[k] /\ l < k)}
           at(i) == CHOOSE k \in DOMAIN all : Cardinality(before(k)) = i - 1
           S == DOMAIN all
           below == [k \in S |-> before(k)]
           t == Fused(seeds, dense)
<1>1. /\ rest \in Seq(Items)
      /\ ToSet(rest) \subseteq ToSet(dense) \ ToSet(seeds)
      /\ IsInjective(dense) => IsInjective(rest)
  BY ThoseAre
<1>2. /\ all \in Seq(Items)
      /\ ToSet(all) \subseteq ToSet(seeds) \cup ToSet(dense)
      /\ IsInjective(seeds) /\ IsInjective(dense) => IsInjective(all)
  <2>1. ToSet(seeds) \cap ToSet(rest) = {}
    BY <1>1
  <2> HIDE DEF rest
  <2> QED  BY <1>1, <2>1, ConcatAre
<1>3. ASSUME NEW s \in Seq(Items), NEW i
      PROVE  Term(s, i) \in Int
  <2>1. CASE i \in ToSet(s)
    <3>1. \E k \in DOMAIN s : s[k] = i
      BY <2>1 DEF ToSet
    <3>2. Rank(s, i) \in DOMAIN s
      BY <3>1 DEF Rank
    <3>3. RrfK + Rank(s, i) \in Nat /\ RrfK + Rank(s, i) > 0
      <4>1. Rank(s, i) \in Nat /\ Rank(s, i) > 0
        BY <3>2
      <4> QED  BY <4>1, RankAssumption DEF RankAssumption
    <3>4. Multiple \div (RrfK + Rank(s, i)) \in Int
      BY <3>3, MultipleIsNat
    <3> QED  BY <2>1, <3>4
  <2>2. CASE i \notin ToSet(s)
    BY <2>2
  <2> QED  BY <2>1, <2>2
<1>4. t = [i \in DOMAIN all |-> all[at(i)]]
  BY DEF Fused
<1> HIDE DEF all, Term
<1> DEFINE n == Len(all)
<1>5. n \in Nat /\ DOMAIN all = 1..n
  BY <1>2
<1>6. \A k \in 1..n : score[k] \in Int
  <2>1. \A k \in 1..n : Term(seeds, all[k]) \in Int /\ Term(dense, all[k]) \in Int
    BY <1>3
  <2> QED  BY <1>5, <2>1
<1> HIDE DEF score
<1>7. /\ \A k \in S : below[k] = {l \in S : score[l] > score[k]
                                              \/ (score[l] = score[k] /\ l < k)}
      /\ \A k \in S : before(k) = below[k]
  OBVIOUS
<1>8. \A i : at(i) = CHOOSE k \in S : Cardinality(before(k)) = i - 1
  OBVIOUS
<1> HIDE DEF below, before, at, n, S
<1>9. S = 1..n
  BY <1>5 DEF S
<1>10. /\ \A k \in S : below[k] \subseteq S \ {k}
       /\ \A k, l \in S : k # l => k \in below[l] \/ l \in below[k]
       /\ \A k, l \in S : k \in below[l] => below[k] \subseteq below[l]
  <2>1. \A k \in S : below[k] \subseteq S \ {k}
    BY <1>6, <1>7, <1>9
  <2>2. ASSUME NEW k \in S, NEW l \in S, k # l
        PROVE  k \in below[l] \/ l \in below[k]
    <3>1. score[k] \in Int /\ score[l] \in Int /\ k \in Int /\ l \in Int
      BY <1>5, <1>6, <1>9
    <3>2. \/ score[k] > score[l] \/ (score[k] = score[l] /\ k < l)
          \/ score[l] > score[k] \/ (score[l] = score[k] /\ l < k)
      BY <2>2, <3>1
    <3> QED  BY <1>7, <3>2
  <2>3. ASSUME NEW k \in S, NEW l \in S, k \in below[l], NEW j \in below[k]
        PROVE  j \in below[l]
    <3>1. j \in S /\ (score[j] > score[k] \/ (score[j] = score[k] /\ j < k))
      BY <1>7, <2>3
    <3>2. score[k] > score[l] \/ (score[k] = score[l] /\ k < l)
      BY <1>7, <2>3
    <3>3. /\ score[k] \in Int /\ score[l] \in Int /\ score[j] \in Int
          /\ k \in Int /\ l \in Int /\ j \in Int
      BY <1>5, <1>6, <1>9, <3>1
    <3>4. score[j] > score[l] \/ (score[j] = score[l] /\ j < l)
      BY <3>1, <3>2, <3>3
    <3> QED  BY <1>7, <3>1, <3>4
  <2> QED  BY <2>1, <2>2, <2>3
<1>11. IsFiniteSet(S) /\ Cardinality(S) = n
  BY <1>5, <1>9, FS_Interval
<1>12. \A i \in 0..(n - 1) : \E k \in S : Cardinality(below[k]) = i
  BY <1>10, <1>11, Ranking
<1>13. ASSUME NEW i \in 1..n
       PROVE  at(i) \in S /\ Cardinality(below[at(i)]) = i - 1
  <2>1. i - 1 \in 0..(n - 1)
    BY <1>5
  <2>2. \E k \in S : Cardinality(below[k]) = i - 1
    BY <1>12, <2>1
  <2>3. \E k \in S : Cardinality(before(k)) = i - 1
    BY <1>7, <2>2
  <2>4. at(i) \in S /\ Cardinality(before(at(i))) = i - 1
    BY <1>8, <2>3
  <2> QED  BY <1>7, <2>4
<1> HIDE DEF t
<1>14. t \in Seq(Items) /\ DOMAIN t = 1..n
  <2>1. \A i \in 1..n : all[at(i)] \in Items
    BY <1>2, <1>5, <1>13, <1>9
  <2> QED  BY <1>5, <1>4, <2>1
<1>15. ToSet(t) \subseteq ToSet(all)
  <2> SUFFICES ASSUME NEW x \in ToSet(t)  PROVE x \in ToSet(all)
    OBVIOUS
  <2>1. PICK i \in 1..n : x = t[i]
    BY <1>14 DEF ToSet
  <2>2. x = all[at(i)] /\ at(i) \in DOMAIN all
    BY <1>5, <1>4, <1>13, <1>9, <2>1
  <2> QED  BY <2>2 DEF ToSet
<1>16. ASSUME IsInjective(all), NEW i \in 1..n, NEW j \in 1..n, t[i] = t[j]
       PROVE  i = j
  <2>1. all[at(i)] = all[at(j)] /\ at(i) \in DOMAIN all /\ at(j) \in DOMAIN all
    BY <1>5, <1>4, <1>13, <1>9, <1>16
  <2>2. at(i) = at(j)
    BY <1>16, <2>1 DEF IsInjective
  <2>3. i - 1 = j - 1
    BY <1>13, <2>2
  <2> QED  BY <1>5, <2>3
<1>17. IsInjective(all) => IsInjective(t)
  BY <1>14, <1>16 DEF IsInjective
<1> QED  BY <1>2, <1>14, <1>15, <1>17 DEF t

(* What each stage of the selection returns: rows of S that pass the gates. *)
Gated(in, S) == {i \in S : Current(in, i) /\ in.item[i].sure}

Searchable(in, S) == {i \in Gated(in, S) : ~RevokedRevision(in, S, i)}

(* A sequence of rows of S, none twice. *)
List(s, S) == s \in Seq(Items) /\ ToSet(s) \subseteq S /\ IsInjective(s)

LEMMA SearchAre ==
    ASSUME NEW in \in Input, NEW S
    PROVE  List(Search(in, S), Searchable(in, S))
<1>1. in.lex \in Seq(Items) /\ IsInjective(in.lex)
  BY DEF Input
<1>2. Search(in, S) = Those(in.lex, Searchable(in, S))
  <2>1. Searchable(in, S) = {i \in S : /\ ~RevokedRevision(in, S, i)
                                       /\ Current(in, i)
                                       /\ in.item[i].sure}
    BY DEF Searchable, Gated
  <2> QED  BY <2>1 DEF Search
<1> QED  BY <1>1, <1>2, ThoseAre DEF List

LEMMA DenseAre ==
    ASSUME NEW in \in Input, NEW S
    PROVE  List(Dense(in, S), Gated(in, S))
<1> DEFINE E == {i \in S : in.item[i].embedded /\ Current(in, i) /\ in.item[i].sure}
           s == Those(in.dense, E)
<1>1. in.dense \in Seq(Items) /\ IsInjective(in.dense) /\ DenseTop \in Nat
  BY RankAssumption DEF Input, RankAssumption
<1>2. E \subseteq Gated(in, S) /\ Dense(in, S) = AtMost(s, DenseTop)
  BY DEF Gated, Dense
<1> HIDE DEF E
<1>3. s \in Seq(Items) /\ ToSet(s) \subseteq E /\ IsInjective(s)
  BY <1>1, ThoseAre
<1> HIDE DEF s
<1>4. AtMost(s, DenseTop) \in Seq(Items) /\ ToSet(AtMost(s, DenseTop)) \subseteq ToSet(s)
      /\ IsInjective(AtMost(s, DenseTop))
  BY <1>1, <1>3, AtMostAre
<1> QED  BY <1>2, <1>3, <1>4 DEF List

LEMMA FuseAre ==
    ASSUME NEW in \in Input, NEW S, NEW seeds, List(seeds, Gated(in, S))
    PROVE  /\ List(Fuse(in, S, seeds).found, Gated(in, S))
           /\ Fuse(in, S, seeds).reserved \subseteq S
           /\ ~in.semantic => Fuse(in, S, seeds).found = seeds
<1> DEFINE dense == Dense(in, S)
<1>1. List(dense, Gated(in, S))
  BY DenseAre
<1>2. Fuse(in, S, seeds) =
        IF ~in.semantic \/ dense = <<>>
        THEN [found |-> seeds, reserved |-> {}]
        ELSE [found |-> Fused(seeds, dense),
              reserved |-> ToSet(AtMost(dense, ReservedSlots)) \ ToSet(seeds)]
  BY DEF Fuse
<1> HIDE DEF dense
<1>3. List(Fused(seeds, dense), Gated(in, S))
  BY <1>1, FusedAre DEF List
<1>4. ToSet(AtMost(dense, ReservedSlots)) \subseteq S
  <2>1. ReservedSlots \in Nat
    BY RankAssumption DEF RankAssumption
  <2>2. ToSet(AtMost(dense, ReservedSlots)) \subseteq ToSet(dense)
    BY <1>1, <2>1, AtMostAre DEF List
  <2> QED  BY <1>1, <2>2 DEF List, Gated
<1>5. CASE ~in.semantic \/ dense = <<>>
  BY <1>2, <1>5
<1>6. CASE ~(~in.semantic \/ dense = <<>>)
  BY <1>2, <1>3, <1>4, <1>6
<1> QED  BY <1>5, <1>6

LEMMA ExpandAre ==
    ASSUME NEW in \in Input, NEW S, NEW seeds, List(seeds, Gated(in, S))
    PROVE  /\ List(Expand(in, S, seeds), Gated(in, S))
           /\ ~in.graph => Expand(in, S, seeds) = seeds
<1> DEFINE N == {i \in S \ ToSet(seeds) : Current(in, i) /\ in.item[i].sure}
           s == Those(in.near, N)
           t == AtMost(s, MaxNeighbors)
<1>1. in.near \in Seq(Items) /\ IsInjective(in.near) /\ MaxNeighbors \in Nat
  BY RankAssumption DEF Input, RankAssumption
<1>2. Expand(in, S, seeds) = IF ~in.graph \/ seeds = <<>> THEN seeds ELSE seeds \o t
  BY DEF Expand
<1>3. N \subseteq Gated(in, S) \ ToSet(seeds)
  BY DEF Gated
<1> HIDE DEF N
<1>4. s \in Seq(Items) /\ ToSet(s) \subseteq N /\ IsInjective(s)
  BY <1>1, ThoseAre
<1> HIDE DEF s
<1>5. t \in Seq(Items) /\ ToSet(t) \subseteq N /\ IsInjective(t)
  BY <1>1, <1>4, AtMostAre
<1> HIDE DEF t
<1>6. List(seeds \o t, Gated(in, S))
  <2>1. ToSet(seeds) \cap ToSet(t) = {} /\ seeds \in Seq(Items) /\ IsInjective(seeds)
        /\ ToSet(seeds) \subseteq Gated(in, S)
    BY <1>3, <1>5 DEF List
  <2>2. seeds \o t \in Seq(Items) /\ IsInjective(seeds \o t)
        /\ ToSet(seeds \o t) \subseteq ToSet(seeds) \cup ToSet(t)
    BY <1>5, <2>1, ConcatAre
  <2> QED  BY <1>3, <1>5, <2>1, <2>2 DEF List
<1>7. CASE ~in.graph \/ seeds = <<>>
  BY <1>2, <1>7
<1>8. CASE ~(~in.graph \/ seeds = <<>>)
  BY <1>2, <1>6, <1>8
<1> QED  BY <1>7, <1>8

LEMMA CapsAre ==
    ASSUME NEW in, NEW S, NEW s, List(s, S), NEW exempt
    PROVE  List(CapCurated(in, s), S) /\ List(DateCapped(in, s, exempt), S)
<1> DEFINE few == {k \in DOMAIN s :
                      in.item[s[k]].curated =>
                          Cardinality({j \in 1..k : in.item[s[j]].curated}) <= MaxCurated}
           kept == {k \in DOMAIN s :
                       \/ s[k] \in exempt
                       \/ Cardinality({j \in 1..(k - 1) :
                              /\ s[j] \notin exempt
                              /\ in.item[s[j]].date = in.item[s[k]].date}) < MaxPerDate}
           late == DOMAIN s \ kept
<1>1. few \in SUBSET DOMAIN s /\ kept \in SUBSET DOMAIN s /\ late \in SUBSET DOMAIN s
  OBVIOUS
<1>2. CapCurated(in, s) = Positions(s, few)
      /\ DateCapped(in, s, exempt) = IF MaxPerDate = 0 \/ Len(s) <= MaxPerDate THEN s
                                     ELSE Positions(s, kept) \o Positions(s, late)
  BY DEF CapCurated, DateCapped
<1>3. kept \cap late = {}
  OBVIOUS
<1>4. s \in Seq(Items) /\ IsInjective(s) /\ ToSet(s) \subseteq S
  BY DEF List
<1> HIDE DEF few, kept, late
<1>5. ASSUME NEW P \in SUBSET DOMAIN s
      PROVE  /\ List(Positions(s, P), S)
             /\ \A x \in ToSet(Positions(s, P)) : \E k \in P : x = s[k]
  <2>1. /\ Positions(s, P) \in Seq(Items)
        /\ \A x \in ToSet(Positions(s, P)) : \E k \in P : x = s[k]
        /\ IsInjective(Positions(s, P))
    BY <1>4, PositionsAre
  <2>2. \A k \in P : s[k] \in ToSet(s)
    BY DEF ToSet
  <2>3. ToSet(Positions(s, P)) \subseteq S
    BY <1>4, <2>1, <2>2
  <2> QED  BY <2>1, <2>3 DEF List
<1>6. List(CapCurated(in, s), S)
  BY <1>1, <1>2, <1>5
<1> DEFINE a == Positions(s, kept)
           b == Positions(s, late)
<1>7. ToSet(a) \cap ToSet(b) = {}
  <2>1. SUFFICES ASSUME NEW x \in ToSet(a), x \in ToSet(b)  PROVE FALSE
    OBVIOUS
  <2>2. PICK k \in kept : x = s[k]
    BY <1>1, <1>5
  <2>3. PICK l \in late : x = s[l]
    BY <1>1, <1>5, <2>1
  <2>4. k = l
    BY <1>1, <1>4, <2>2, <2>3 DEF IsInjective
  <2> QED  BY <1>3, <2>4
<1>8. List(a, S) /\ List(b, S)
  BY <1>1, <1>5
<1> HIDE DEF a, b
<1>9. List(a \o b, S)
  <2>1. a \o b \in Seq(Items) /\ IsInjective(a \o b) /\ ToSet(a \o b) \subseteq ToSet(a) \cup ToSet(b)
    BY <1>7, <1>8, ConcatAre DEF List
  <2> QED  BY <1>8, <2>1 DEF List
<1>10. CASE MaxPerDate = 0 \/ Len(s) <= MaxPerDate
  BY <1>2, <1>6, <1>10
<1>11. CASE ~(MaxPerDate = 0 \/ Len(s) <= MaxPerDate)
  BY <1>2, <1>6, <1>9, <1>11 DEF a, b
<1> QED  BY <1>10, <1>11

LEMMA FactResultsAre ==
    ASSUME NEW in \in Input
    PROVE  /\ List(FactResults(in).found, Gated(in, FactPeers(in)))
           /\ FactResults(in).reserved \subseteq FactPeers(in)
           /\ ~in.semantic /\ ~in.graph =>
                 List(FactResults(in).found, Searchable(in, FactPeers(in)))
<1> DEFINE S == FactPeers(in)
           seeds == Search(in, S)
           fused == Fuse(in, S, seeds)
           more == Expand(in, S, fused.found)
<1>1. FactResults(in) = [found |-> CapCurated(in, more),
                         reserved |-> fused.reserved \cap ToSet(CapCurated(in, more))]
  BY DEF FactResults
<1>2. List(seeds, Searchable(in, S)) /\ List(seeds, Gated(in, S))
  <2>1. List(seeds, Searchable(in, S))
    BY SearchAre
  <2>2. Searchable(in, S) \subseteq Gated(in, S)
    BY DEF Searchable
  <2> QED  BY <2>1, <2>2 DEF List
<1> HIDE DEF S, seeds
<1>3. /\ List(fused.found, Gated(in, S))
      /\ fused.reserved \subseteq S
      /\ ~in.semantic => fused.found = seeds
  BY <1>2, FuseAre
<1> HIDE DEF fused
<1>4. List(more, Gated(in, S)) /\ (~in.graph => more = fused.found)
  BY <1>3, ExpandAre
<1> HIDE DEF more
<1>5. List(CapCurated(in, more), Gated(in, S))
  BY <1>4, CapsAre
<1>6. ~in.semantic /\ ~in.graph => List(CapCurated(in, more), Searchable(in, S))
  <2>1. ~in.semantic /\ ~in.graph => List(more, Searchable(in, S))
    BY <1>2, <1>3, <1>4
  <2> QED  BY <2>1, CapsAre
<1> QED  BY <1>1, <1>3, <1>5, <1>6 DEF S

LEMMA InsightResultsAre ==
    ASSUME NEW in \in Input
    PROVE  List(InsightResults(in), Searchable(in, InsightPeers(in)))
<1> DEFINE found == Search(in, InsightPeers(in))
<1>1. List(found, Searchable(in, InsightPeers(in)))
  BY SearchAre
<1>2. LeadCap \in Nat
  BY RankAssumption DEF RankAssumption
<1>3. InsightResults(in) = IF in.semantic /\ LeadCap > 0 THEN AtMost(found, LeadCap) ELSE found
  BY DEF InsightResults
<1> HIDE DEF found
<1>4. List(AtMost(found, LeadCap), Searchable(in, InsightPeers(in)))
  BY <1>1, <1>2, AtMostAre DEF List
<1> QED  BY <1>1, <1>3, <1>4

(* Every question asked of a store is one the packing expects: none of the *)
(* results is found twice, by words, vector, graph or in the other tier    *)
(* (the results that select_recall walks, and the rows it reserves).       *)
THEOREM AskedIsQuestion ==
    ASSUME NEW in \in Input
    PROVE  Ask(in) \in Question
<1> DEFINE facts == FactResults(in)
           a == DateCapped(in, InsightResults(in), {})
           b == DateCapped(in, facts.found, facts.reserved)
           results == IF Refused(in) THEN <<>> ELSE a \o b
<1>1. List(a, Searchable(in, InsightPeers(in))) /\ List(b, Gated(in, FactPeers(in)))
  <2>1. List(InsightResults(in), Searchable(in, InsightPeers(in)))
    BY InsightResultsAre
  <2>2. List(facts.found, Gated(in, FactPeers(in)))
    BY FactResultsAre
  <2>3. List(a, Searchable(in, InsightPeers(in)))
    BY <2>1, CapsAre
  <2>4. List(b, Gated(in, FactPeers(in)))
    BY <2>2, CapsAre
  <2> QED  BY <2>3, <2>4
<1>2. Searchable(in, InsightPeers(in)) \subseteq Insights /\ Gated(in, FactPeers(in)) \subseteq Facts
  BY DEF Searchable, Gated, InsightPeers, FactPeers, Loaded
<1>3. facts.reserved \subseteq Facts
  <2>1. facts.reserved \subseteq FactPeers(in)
    BY FactResultsAre
  <2> QED  BY <2>1 DEF FactPeers, Loaded
<1>4. Ask(in) = [results |-> results, reserved |-> facts.reserved,
                 cost |-> [i \in Items |-> in.item[i].cost],
                 covers |-> [i \in Items |-> Covers(in, facts.found, i)],
                 budget |-> in.budget]
  BY DEF Ask
<1> HIDE DEF a, b, facts
<1>5. results \in Seq(Items) /\ IsInjective(results)
  <2>1. a \o b \in Seq(Items) /\ IsInjective(a \o b)
    <3>1. ToSet(a) \cap ToSet(b) = {}
      BY <1>1, <1>2, PackAssumption DEF List, PackAssumption
    <3> QED  BY <1>1, <3>1, ConcatAre DEF List
  <2>2. <<>> \in Seq(Items) /\ IsInjective(<<>>)
    BY DEF IsInjective
  <2> QED  BY <2>1, <2>2
<1> HIDE DEF results
<1>6. in.item \in [Items -> Item] /\ in.budget \in Nat
  BY DEF Input
<1>7. \A i \in Items : in.item[i].cost \in Nat /\ in.item[i].claims \subseteq Facts
  BY <1>6 DEF Item
<1>8. \A i \in Items : Covers(in, facts.found, i) \in SUBSET Facts
  BY <1>7 DEF Covers
<1>9. [i \in Items |-> in.item[i].cost] \in [Items -> Nat]
      /\ [i \in Items |-> Covers(in, facts.found, i)] \in [Items -> SUBSET Facts]
  BY <1>7, <1>8
<1> QED  BY <1>3, <1>4, <1>5, <1>6, <1>9 DEF Question

LEMMA ResultsAre ==
    ASSUME NEW in \in Input, NEW i \in ToSet(Ask(in).results)
    PROVE  /\ ~Refused(in)
           /\ \/ i \in Searchable(in, InsightPeers(in))
              \/ /\ i \in Gated(in, FactPeers(in))
                 /\ ~in.semantic /\ ~in.graph => i \in Searchable(in, FactPeers(in))
<1> DEFINE facts == FactResults(in)
           a == DateCapped(in, InsightResults(in), {})
           b == DateCapped(in, facts.found, facts.reserved)
<1>1. List(a, Searchable(in, InsightPeers(in)))
  BY InsightResultsAre, CapsAre
<1>2. /\ List(b, Gated(in, FactPeers(in)))
      /\ ~in.semantic /\ ~in.graph => List(b, Searchable(in, FactPeers(in)))
  <2>1. /\ List(facts.found, Gated(in, FactPeers(in)))
        /\ ~in.semantic /\ ~in.graph => List(facts.found, Searchable(in, FactPeers(in)))
    BY FactResultsAre
  <2> QED  BY <2>1, CapsAre
<1>3. Ask(in).results = IF Refused(in) THEN <<>> ELSE a \o b
  BY DEF Ask
<1> HIDE DEF a, b, facts
<1>4. ToSet(a \o b) \subseteq ToSet(a) \cup ToSet(b)
  BY <1>1, <1>2, ConcatAre DEF List
<1>5. ~Refused(in)
  BY <1>3 DEF ToSet
<1>6. i \in ToSet(a) \/ i \in ToSet(b)
  BY <1>3, <1>4, <1>5
<1> QED  BY <1>1, <1>2, <1>5, <1>6 DEF List

(* What is injected was found. *)
FoundInv ==
    /\ asked = Ask(input)
    /\ ToSet(committed) \cup ToSet(included) \subseteq ToSet(asked.results)

LEMMA RowFound ==
    ASSUME PackInv, RowLeft
    PROVE  Row \in ToSet(asked.results) /\ Row \in Items
<1>1. place \in DOMAIN asked.results /\ PackTypeOK
  BY Known DEF RowLeft
<1> QED  BY <1>1, RowIsNew DEF Row, ToSet

LEMMA OnlyFound ==
    ASSUME PackInv, FoundInv, SelectNext
    PROVE  FoundInv'
<1>1. PackNext /\ UNCHANGED <<asked, input>>
  BY DEF SelectNext, PackNext, PassOver, Commit, EndReserve, TakePaid, SkipCovered, Take,
         OmitInsight, Truncate, EndFill, AppendPaid, EndTail
<1>2. asked' = Ask(input)'
  BY <1>1 DEF FoundInv
<1>3. committed \in Seq(Items) /\ included \in Seq(Items)
  BY Known
<1>4. ToSet(committed') \cup ToSet(included') \subseteq ToSet(asked.results)
  <2>1. CASE Commit
    <3>1. RowLeft /\ committed' = Append(committed, Row) /\ UNCHANGED included
      BY <2>1 DEF Commit
    <3>2. ToSet(committed') = ToSet(committed) \cup {Row}
      BY <1>3, <3>1, RowFound, ToSetAppend
    <3> QED  BY <3>1, <3>2, RowFound DEF FoundInv
  <2>2. CASE TakePaid \/ Take
    <3>1. RowLeft /\ included' = Append(included, Row) /\ UNCHANGED committed
      BY <2>2 DEF TakePaid, Take
    <3>2. ToSet(included') = ToSet(included) \cup {Row}
      BY <1>3, <3>1, RowFound, ToSetAppend
    <3> QED  BY <3>1, <3>2, RowFound DEF FoundInv
  <2>3. CASE AppendPaid
    <3>1. /\ committed # <<>> /\ committed' = Tail(committed)
          /\ included' = IF Head(committed) \in ToSet(included) THEN included
                         ELSE Append(included, Head(committed))
      BY <2>3 DEF AppendPaid
    <3>2. Head(committed) \in ToSet(committed) /\ Head(committed) \in Items
      <4>1. 1 \in DOMAIN committed /\ Head(committed) = committed[1]
        BY <1>3, <3>1
      <4> QED  BY <1>3, <4>1 DEF ToSet
    <3>3. ToSet(Tail(committed)) \subseteq ToSet(committed)
      <4>1. SUFFICES ASSUME NEW k \in DOMAIN Tail(committed)
                     PROVE  Tail(committed)[k] \in ToSet(committed)
        BY DEF ToSet
      <4>2. k + 1 \in DOMAIN committed /\ Tail(committed)[k] = committed[k + 1]
        BY <1>3, <3>1, <4>1
      <4> QED  BY <4>2 DEF ToSet
    <3>4. ToSet(included') \subseteq ToSet(included) \cup {Head(committed)}
      <4>1. ToSet(Append(included, Head(committed))) = ToSet(included) \cup {Head(committed)}
        BY <1>3, <3>2, ToSetAppend
      <4> QED  BY <3>1, <4>1
    <3> QED  BY <3>1, <3>2, <3>3, <3>4 DEF FoundInv
  <2>4. CASE UNCHANGED <<committed, included>>
    BY <2>4 DEF FoundInv
  <2> QED  BY <1>1, <2>1, <2>2, <2>3, <2>4 DEF PackNext, PassOver, EndReserve, SkipCovered,
              OmitInsight, Truncate, EndFill, EndTail
<1> QED  BY <1>1, <1>2, <1>4 DEF FoundInv

LEMMA FoundIsShown ==
    ASSUME input \in Input, FoundInv
    PROVE  HiddenStaysHidden
<1> SUFFICES ASSUME NEW i \in ToSet(included)
             PROVE  /\ input.item[i].ours /\ input.item[i].sure
                    /\ input.key => input.item[i].proof # "tampered"
                    /\ input.strict => input.key /\ input.item[i].proof = "valid"
                    /\ ~input.history => Lifecycle(input, i) = "current"
                    /\ Lifecycle(input, i) # "revoked"
                    /\ ~input.semantic /\ ~input.graph => ~Revoked(i)
  BY DEF HiddenStaysHidden
<1>1. /\ ~Refused(input)
      /\ \/ i \in Searchable(input, InsightPeers(input))
         \/ /\ i \in Gated(input, FactPeers(input))
            /\ ~input.semantic /\ ~input.graph => i \in Searchable(input, FactPeers(input))
  <2>1. i \in ToSet(Ask(input).results)
    BY DEF FoundInv
  <2> QED  BY <2>1, ResultsAre
<1>2. /\ i \in FactPeers(input) \/ i \in InsightPeers(input)
      /\ Current(input, i) /\ input.item[i].sure
  BY <1>1 DEF Searchable, Gated
<1>3. FactPeers(input) \subseteq Facts /\ InsightPeers(input) \subseteq Insights
  BY DEF FactPeers, InsightPeers, Loaded
<1>4. input.item[i].ours /\ Verified(input, i)
  BY <1>2 DEF FactPeers, InsightPeers, Loaded
<1>5. i \in Facts => ~Resurrected(input, i)
  BY <1>2, <1>3, PackAssumption DEF FactPeers, PackAssumption
<1>6. input.key => input.item[i].proof # "tampered"
  BY <1>4 DEF Verified
<1>7. input.strict => input.key /\ input.item[i].proof = "valid"
  BY <1>1, <1>4 DEF Verified, Refused
<1>8. ~input.history => input.item[i].status # "superseded" /\ CurrentlyValid(input, i)
  BY <1>2 DEF Current
<1>9. Lifecycle(input, i) # "revoked" /\ (~input.history => Lifecycle(input, i) = "current")
  <2>1. CASE input.item[i].status = "superseded"
    BY <1>8, <2>1 DEF Lifecycle
  <2>2. CASE input.item[i].status # "superseded"
    <3>1. ~(input.key /\ i \in Facts /\ input.item[i].dead)
      BY <1>5, <2>2 DEF Resurrected
    <3>2. Lifecycle(input, i) = IF CurrentlyValid(input, i) THEN "current" ELSE "inactive"
      BY <2>2, <3>1 DEF Lifecycle
    <3> QED  BY <1>8, <3>2
  <2> QED  BY <2>1, <2>2
<1>10. ~input.semantic /\ ~input.graph => ~Revoked(i)
  <2> SUFFICES ASSUME ~input.semantic, ~input.graph,
                      NEW S \in {FactPeers(input), InsightPeers(input)},
                      i \in S, RevokedRevision(input, S, i)
               PROVE  FALSE
    BY DEF Revoked
  <2>1. i \in Searchable(input, S)
    BY <1>1, <1>2, <1>3, PackAssumption DEF PackAssumption, Searchable, Gated
  <2> QED  BY <2>1 DEF Searchable
<1> QED  BY <1>2, <1>4, <1>6, <1>7, <1>9, <1>10

(* Whatever way a row was found, what was tampered with, is below the      *)
(* confidence floor or another agent's is not injected, nor what is not    *)
(* current, nor what a trusted event revokes (the gates of select_recall). *)
THEOREM RecallHides == SelectSpec => []HiddenStaysHidden
<1>1. SelectInit => input \in Input /\ FoundInv
  <2> SUFFICES ASSUME SelectInit  PROVE input \in Input /\ FoundInv
    OBVIOUS
  <2>1. input \in Input
    BY InputsAssumption DEF SelectInit, InputsAssumption
  <2>2. asked = Ask(input) /\ committed = <<>> /\ included = <<>>
    BY DEF SelectInit, PackInit
  <2>3. ToSet(committed) = {} /\ ToSet(included) = {}
    BY <2>2 DEF ToSet
  <2> QED  BY <2>1, <2>2, <2>3 DEF FoundInv
<1>2. PackInv /\ input \in Input /\ FoundInv /\ [SelectNext]_selectVars
         => (input \in Input /\ FoundInv)'
  <2> SUFFICES ASSUME PackInv, input \in Input, FoundInv, [SelectNext]_selectVars
               PROVE  (input \in Input /\ FoundInv)'
    OBVIOUS
  <2>1. CASE SelectNext
    <3>1. input' = input
      BY <2>1 DEF SelectNext
    <3> QED  BY <2>1, <3>1, OnlyFound
  <2>2. CASE UNCHANGED selectVars
    BY <2>2 DEF selectVars, packVars, FoundInv
  <2> QED  BY <2>1, <2>2
<1>3. input \in Input /\ FoundInv => HiddenStaysHidden
  BY FoundIsShown
<1> QED  BY <1>1, <1>2, <1>3, SelectPacks, PackInductive, PTL DEF SelectSpec

=============================================================================
