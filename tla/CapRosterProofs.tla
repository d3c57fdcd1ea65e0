-------------------------- MODULE CapRosterProofs --------------------------
(***************************************************************************)
(* Proofs about the cap engine: what two teams are charged for a hit they  *)
(* share, for every hit and every retained share.                          *)
(***************************************************************************)
EXTENDS CapRoster, BasicFacts, TLAPS

(* Rounding a hit's share and its complement, halves up, loses nothing and *)
(* gains at most one dollar.                                               *)
LEMMA SharesConserve ==
  ASSUME NEW hit \in Nat, NEW pct \in 0..100
  PROVE  Share(hit, pct) + Share(hit, 100 - pct) - hit \in {0, 1}
<1> DEFINE y == hit * pct
<1>1. y \in Int /\ hit * (100 - pct) = 100 * hit - y
  OBVIOUS
<1> HIDE DEF y
<1>2. (y + 50) \div 100 + (100 * hit - y + 50) \div 100 - hit \in {0, 1}
  BY <1>1
<1> QED BY <1>1, <1>2 DEF Share, y

(* Clamping to 0..100 leaves a share within the range as it is.            *)
LEMMA ClampIsIdentity ==
  ASSUME NEW pct \in 0..100
  PROVE  Max({0, Min({pct, 100})}) = pct
<1>1. Min({pct, 100}) = pct
  <2>1. \A x \in {pct, 100} : (\A z \in {pct, 100} : x <= z) => x = pct
    OBVIOUS
  <2>2. pct \in {pct, 100} /\ \A z \in {pct, 100} : pct <= z
    OBVIOUS
  <2> QED BY <2>1, <2>2 DEF Min
<1>2. Max({0, pct}) = pct
  <2>1. \A x \in {0, pct} : (\A z \in {0, pct} : x >= z) => x = pct
    OBVIOUS
  <2>2. pct \in {0, pct} /\ \A z \in {0, pct} : pct >= z
    OBVIOUS
  <2> QED BY <2>1, <2>2 DEF Max
<1> QED BY <1>1, <1>2

LEMMA SharedHitConserved ==
  ASSUME NEW row \in CapRows, NEW pct \in 0..100
  PROVE  Share(row.hit, pct) + EffectiveHit([row EXCEPT !.kept = pct]) - row.hit \in {0, 1}
<1>1. /\ [row EXCEPT !.kept = pct].hit = row.hit
      /\ [row EXCEPT !.kept = pct].kept = pct
      /\ row.hit \in Nat
  BY DEF CapRows
<1>2. EffectiveHit([row EXCEPT !.kept = pct]) = Share(row.hit, 100 - pct)
  BY <1>1, ClampIsIdentity DEF EffectiveHit
<1> QED BY <1>1, <1>2, SharesConserve

LEMMA InputTyped == Spec => []CapInput(input)
<1>1. Init => CapInput(input)
  BY InputsAssumption DEF Init
<1>2. CapInput(input) /\ [Next]_input => CapInput(input)'
  <2> SUFFICES ASSUME CapInput(input), [Next]_input PROVE CapInput(input)'
    OBVIOUS
  <2>1. ASSUME NEW c \in DOMAIN input.rows, NEW st \in RosterStatuses, SetPlayerStatus(c, st)
        PROVE  CapInput(input)'
    <3>1. [input.rows[c] EXCEPT !.status = st] \in CapRows
      BY DEF CapInput, CapRows
    <3>2. input' = [input EXCEPT !.rows = [input.rows EXCEPT ![c] = [input.rows[c] EXCEPT !.status = st]]]
      BY <2>1 DEF SetPlayerStatus, CapInput
    <3> QED BY <3>1, <3>2 DEF CapInput
  <2> QED BY <2>1 DEF Next, CapInput
<1> QED BY <1>1, <1>2, PTL DEF Spec

(* What the sender of a traded contract retains and what the receiver is   *)
(* charged add up to the hit, or one dollar more, for every hit and share. *)
THEOREM RetentionIsConserved == Spec => []RetentionConserves
<1>1. CapInput(input) => RetentionConserves
  BY SharedHitConserved DEF RetentionConserves, CapInput
<1> QED BY <1>1, InputTyped, PTL

-----------------------------------------------------------------------------
(* The amounts a row can be charged.                                       *)

(* A share of a hit is a whole number of dollars.                          *)
LEMMA ShareNatural ==
  ASSUME NEW n \in Nat, NEW pct \in 0..100
  PROVE  Share(n, pct) \in Nat
<1> DEFINE y == n * pct
<1>1. y \in Nat
  OBVIOUS
<1> HIDE DEF y
<1>2. (y + 50) \div 100 \in Nat
  BY <1>1
<1> QED BY <1>2 DEF Share, y

(* A hit that is retained by others in any share is charged in whole       *)
(* dollars, and never less than nothing.                                   *)
LEMMA HitNatural ==
  ASSUME NEW row \in CapRows
  PROVE  EffectiveHit(row) \in Nat
<1>1. row.kept \in Nat /\ row.hit \in Nat
  BY DEF CapRows
<1>2. PICK pct \in 0..100 : Max({0, Min({row.kept, 100})}) = pct
  <2>1. CASE row.kept <= 100
    <3>1. row.kept \in 0..100
      BY <1>1, <2>1
    <3>2. Max({0, Min({row.kept, 100})}) = row.kept
      BY <3>1, ClampIsIdentity
    <3> QED BY <3>1, <3>2
  <2>2. CASE row.kept > 100
    <3> DEFINE k == row.kept
    <3>1. Min({k, 100}) = 100
      <4>1. \A x \in {k, 100} : (\A z \in {k, 100} : x <= z) => x = 100
        BY <1>1, <2>2
      <4>2. 100 \in {k, 100} /\ \A z \in {k, 100} : 100 <= z
        BY <1>1, <2>2
      <4> HIDE DEF k
      <4> QED BY <4>1, <4>2 DEF Min
    <3>2. Max({0, Min({100, 100})}) = 100 /\ Min({100, 100}) = 100
      <4>1. 100 \in 0..100
        OBVIOUS
      <4>2. Max({0, Min({100, 100})}) = 100
        BY <4>1, ClampIsIdentity
      <4>3. Min({100, 100}) = 100
        BY DEF Min
      <4> QED BY <4>2, <4>3
    <3> QED BY <3>1, <3>2
  <2> QED BY <1>1, <2>1, <2>2
<1>3. EffectiveHit(row) = Share(row.hit, 100 - pct) /\ 100 - pct \in 0..100
  BY <1>2 DEF EffectiveHit
<1> QED BY <1>1, <1>3, ShareNatural

LEMMA RuleNatural ==
  ASSUME NEW key \in RuleKeys
  PROVE  RuleOr0(Rules, key) \in Nat
BY RulesAssumption DEF RuleOr0

(* A buried hit is charged no more than in full.                           *)
LEMMA BuriedBounded ==
  ASSUME NEW row \in CapRows
  PROVE  BuriedCharge(row, Rules) \in Nat /\ BuriedCharge(row, Rules) <= EffectiveHit(row)
<1> DEFINE hit == EffectiveHit(row)
           least == RuleOr0(Rules, "min_salary")
           allowance == RuleOr0(Rules, "buried_allowance")
<1>1. hit \in Nat /\ least \in Nat /\ allowance \in Nat
  BY HitNatural, RuleNatural DEF RuleKeys
<1>2. BuriedCharge(row, Rules) = AtLeastZero(hit - (least + allowance))
  BY DEF BuriedCharge
<1> HIDE DEF hit, least, allowance
<1>3. AtLeastZero(hit - (least + allowance)) \in Nat /\ AtLeastZero(hit - (least + allowance)) <= hit
  BY <1>1 DEF AtLeastZero
<1> QED BY <1>2, <1>3 DEF hit

-----------------------------------------------------------------------------
(* The sums of a roster.                                                   *)

LEMMA SlottedFinite ==
  ASSUME NEW in, CapInput(in), NEW statuses
  PROVE  /\ Slotted(in, statuses) \subseteq DOMAIN in.rows
         /\ IsFiniteSet(Slotted(in, statuses))
         /\ \A c \in Slotted(in, statuses) : in.rows[c] \in CapRows
BY FS_Subset DEF Slotted, CapInput

Charges(in) == [c \in DOMAIN in.rows |-> BuriedCharge(in.rows[c], Rules)]

LEMMA HitsNatural ==
  ASSUME NEW in, CapInput(in), NEW c \in DOMAIN in.rows
  PROVE  /\ Hits(in)[c] = EffectiveHit(in.rows[c]) /\ Hits(in)[c] \in Nat
         /\ Charges(in)[c] = BuriedCharge(in.rows[c], Rules) /\ Charges(in)[c] \in Nat
         /\ Charges(in)[c] <= Hits(in)[c]
<1>1. in.rows[c] \in CapRows
  BY DEF CapInput
<1> QED BY <1>1, HitNatural, BuriedBounded DEF Hits, Charges

LEMMA HitsOfNatural ==
  ASSUME NEW in, CapInput(in), NEW statuses
  PROVE  HitsOf(in, statuses) \in Nat
<1>1. \A c \in Slotted(in, statuses) : Hits(in)[c] \in Nat
  BY SlottedFinite, HitsNatural
<1> QED BY <1>1, SlottedFinite, SumNatural DEF HitsOf

(* What the players of either status cost is what those of one cost and    *)
(* what those of the other cost.                                           *)
LEMMA HitsOfBoth ==
  ASSUME NEW in, CapInput(in), NEW these, NEW those, these \cap those = {}
  PROVE  HitsOf(in, these \cup those) = HitsOf(in, these) + HitsOf(in, those)
<1> DEFINE S == Slotted(in, these)
           T == Slotted(in, those)
<1>1. S \cap T = {} /\ Slotted(in, these \cup those) = S \cup T
  BY DEF Slotted
<1>2. IsFiniteSet(S) /\ IsFiniteSet(T) /\ \A c \in S \cup T : Hits(in)[c] \in Int
  BY SlottedFinite, HitsNatural
<1>3. SumFunctionOnSet(Hits(in), S \cup T) = SumFunctionOnSet(Hits(in), S) + SumFunctionOnSet(Hits(in), T)
  <2> HIDE DEF S, T
  <2> QED BY <1>1, <1>2, SumOfBoth
<1> QED BY <1>1, <1>3 DEF HitsOf

LEMMA OwedInteger ==
  ASSUME NEW in, CapInput(in), NEW kinds
  PROVE  /\ IsFiniteSet({o \in in.obligations : o.kind \in kinds})
         /\ \A o \in in.obligations : Amounts(in.obligations)[o] \in Int
         /\ Owed(in, kinds) \in Int
<1> DEFINE S == {o \in in.obligations : o.kind \in kinds}
<1>1. IsFiniteSet(S) /\ S \subseteq in.obligations
  BY FS_Subset DEF CapInput
<1>2. \A o \in in.obligations : Amounts(in.obligations)[o] \in Int
  BY DEF Amounts, CapInput
<1>3. SumFunctionOnSet(Amounts(in.obligations), S) \in Int
  <2> HIDE DEF S
  <2> QED BY <1>1, <1>2, SumType
<1> QED BY <1>1, <1>2, <1>3 DEF Owed

LEMMA BuriedNatural ==
  ASSUME NEW in, CapInput(in)
  PROVE  BuriedCapHit(in, Rules) \in Nat
<1>1. \A c \in Slotted(in, BuriedStatuses) : Charges(in)[c] \in Nat
  BY SlottedFinite, HitsNatural
<1>2. SumFunctionOnSet(Charges(in), Slotted(in, BuriedStatuses)) \in Nat
  BY <1>1, SlottedFinite, SumNatural
<1> QED BY <1>2 DEF BuriedCapHit, Charges

(* Relief is neither negative nor more than the hits it offsets.           *)
LEMMA ReliefBounded ==
  ASSUME NEW in, CapInput(in)
  PROVE  /\ LtirRelief(in) \in Nat /\ LtirRelief(in) <= HitsOf(in, {"ltir"})
         /\ in.ltirPool = None => LtirRelief(in) = HitsOf(in, {"ltir"})
<1> DEFINE hits == HitsOf(in, {"ltir"})
           pool == in.ltirPool
<1>1. hits \in Nat
  BY HitsOfNatural
<1>2. CASE pool = None
  BY <1>1, <1>2 DEF LtirRelief
<1>3. CASE pool # None
  <2>1. pool \in Nat
    BY <1>3 DEF CapInput
  <2>2. LtirRelief(in) = Min({pool, hits})
    BY <1>3 DEF LtirRelief
  <2> HIDE DEF hits, pool
  <2>3. Min({pool, hits}) \in {pool, hits} /\ Min({pool, hits}) <= hits
    <3>1. \E x \in {pool, hits} : \A y \in {pool, hits} : x <= y
      BY <1>1, <2>1
    <3> QED BY <3>1 DEF Min
  <2> QED BY <1>1, <1>3, <2>1, <2>2, <2>3 DEF hits, pool
<1> QED BY <1>2, <1>3

-----------------------------------------------------------------------------
(* The lines of a roster.                                                  *)

(* One line of a category for each of some things.                         *)
Lines(category, S, f) == {[id |-> <<category, x>>, amount |-> f[x]] : x \in S}

(* They add up to what the things cost.                                    *)
LEMMA LinesAddUp ==
  ASSUME NEW category, NEW S, NEW f, NEW T, IsFiniteSet(S), \A x \in S : f[x] \in Int,
         Lines(category, S, f) \subseteq T
  PROVE  /\ IsFiniteSet(Lines(category, S, f))
         /\ SumFunctionOnSet(Amounts(T), Lines(category, S, f)) = SumFunctionOnSet(f, S)
         /\ \A l \in Lines(category, S, f) : l.id[1] = category /\ l.amount \in Int
<1> DEFINE m == [x \in S |-> [id |-> <<category, x>>, amount |-> f[x]]]
           g == Amounts(T)
<1>1. Lines(category, S, f) = {m[x] : x \in S}
  BY DEF Lines
<1>2. \A x \in S : g[m[x]] = f[x]
  <2> SUFFICES ASSUME NEW x \in S PROVE g[m[x]] = f[x]
    OBVIOUS
  <2>1. m[x] \in T
    BY <1>1
  <2>2. g[m[x]] = m[x].amount
    BY <2>1 DEF Amounts
  <2> QED BY <2>2
<1>3. \A x, y \in S : m[x] = m[y] => x = y
  <2> SUFFICES ASSUME NEW x \in S, NEW y \in S, m[x] = m[y] PROVE x = y
    OBVIOUS
  <2>1. m[x].id = <<category, x>> /\ m[y].id = <<category, y>>
    OBVIOUS
  <2>2. <<category, x>> = <<category, y>>
    BY <2>1
  <2> QED BY <2>2
<1>4. \A l \in Lines(category, S, f) : l.id[1] = category /\ l.amount \in Int
  BY DEF Lines
<1>5. /\ IsFiniteSet(Lines(category, S, f))
      /\ SumFunctionOnSet(g, Lines(category, S, f)) = SumFunctionOnSet(f, S)
  <2>1. \A x \in S : f[x] \in Int /\ m[x] \in Lines(category, S, f) /\ g[m[x]] = f[x]
    BY <1>1, <1>2
  <2>2. \A l \in Lines(category, S, f) : \E x \in S : l = m[x]
    BY <1>1
  <2> HIDE DEF m, g
  <2> QED BY <1>3, <2>1, <2>2, SumOfImages
<1> QED BY <1>4, <1>5

FullStatuses == CountsAsActiveRoster \cup {"suspended"}
InjuredStatuses == {"injured_reserve", "ltir"}
Charged(in) == {c \in Slotted(in, BuriedStatuses) : Charges(in)[c] > 0}
Obligations(in, kinds) == {o \in in.obligations : o.kind \in kinds}
Relieved(in) == {n \in {None} : LtirRelief(in) > 0}
Relief(in) == [n \in {None} |-> -LtirRelief(in)]

ActiveLines(in) == Lines("active_roster", Slotted(in, FullStatuses), Hits(in))
InjuredLines(in) == Lines("injured_reserve", Slotted(in, InjuredStatuses), Hits(in))
BuriedLines(in) == Lines("buried", Charged(in), Charges(in))
RetainedLines(in) == Lines("retained", Obligations(in, {"retained"}), Amounts(in.obligations))
DeadLines(in) == Lines("dead_cap", Obligations(in, DeadKinds), Amounts(in.obligations))
ReliefLines(in) == Lines("ltir_relief", Relieved(in), Relief(in))

(* The lines of the rows are those of the three categories of rows.        *)
LEMMA RowLines ==
  ASSUME NEW in, CapInput(in)
  PROVE  {l \in {[id |-> <<RowCategory(in.rows[c]), c>>,
                  amount |-> IF in.rows[c].status \in BuriedStatuses THEN BuriedCharge(in.rows[c], Rules)
                             ELSE EffectiveHit(in.rows[c])] : c \in DOMAIN in.rows} :
            l.id[1] # None /\ (l.id[1] = "buried" => l.amount > 0)}
         = ActiveLines(in) \cup InjuredLines(in) \cup BuriedLines(in)
<1> DEFINE Line(c) == [id |-> <<RowCategory(in.rows[c]), c>>,
                       amount |-> IF in.rows[c].status \in BuriedStatuses THEN BuriedCharge(in.rows[c], Rules)
                                  ELSE EffectiveHit(in.rows[c])]
           Shown(l) == l.id[1] # None /\ (l.id[1] = "buried" => l.amount > 0)
           All == ActiveLines(in) \cup InjuredLines(in) \cup BuriedLines(in)
           FullLine(c) == [id |-> <<"active_roster", c>>, amount |-> Hits(in)[c]]
           HurtLine(c) == [id |-> <<"injured_reserve", c>>, amount |-> Hits(in)[c]]
           DownLine(c) == [id |-> <<"buried", c>>, amount |-> Charges(in)[c]]
<1>1. \A c \in DOMAIN in.rows : in.rows[c] \in CapRows
  BY DEF CapInput
<1>2. ASSUME NEW c \in DOMAIN in.rows, in.rows[c].status \in FullStatuses
      PROVE  Line(c) = FullLine(c) /\ Shown(Line(c))
  <2>1. RowCategory(in.rows[c]) = "active_roster" /\ in.rows[c].status \notin BuriedStatuses
    BY <1>2 DEF RowCategory, FullStatuses, CountsAsActiveRoster, BuriedStatuses, OffCapStatuses
  <2> QED BY <2>1, HitsNatural, NoneAssumption
<1>3. ASSUME NEW c \in DOMAIN in.rows, in.rows[c].status \in InjuredStatuses
      PROVE  Line(c) = HurtLine(c) /\ Shown(Line(c))
  <2>1. RowCategory(in.rows[c]) = "injured_reserve" /\ in.rows[c].status \notin BuriedStatuses
    BY <1>3 DEF RowCategory, InjuredStatuses, CountsAsActiveRoster, BuriedStatuses, OffCapStatuses
  <2> QED BY <2>1, HitsNatural, NoneAssumption
<1>4. ASSUME NEW c \in DOMAIN in.rows, in.rows[c].status \in BuriedStatuses
      PROVE  Line(c) = DownLine(c) /\ (Shown(Line(c)) <=> Charges(in)[c] > 0)
  <2>1. RowCategory(in.rows[c]) = "buried"
    BY <1>4 DEF RowCategory, CountsAsActiveRoster, BuriedStatuses, OffCapStatuses
  <2> QED BY <1>4, <2>1, HitsNatural, NoneAssumption
<1>5. ASSUME NEW c \in DOMAIN in.rows, in.rows[c].status \in OffCapStatuses
      PROVE  ~Shown(Line(c))
  <2>1. RowCategory(in.rows[c]) = None
    BY <1>5 DEF RowCategory, CountsAsActiveRoster, BuriedStatuses, OffCapStatuses
  <2> QED BY <2>1
<1>6. \A c \in DOMAIN in.rows :
        in.rows[c].status \in FullStatuses \cup InjuredStatuses \cup BuriedStatuses \cup OffCapStatuses
  BY <1>1 DEF CapRows, RosterStatuses, FullStatuses, InjuredStatuses
<1>7. /\ ActiveLines(in) = {FullLine(c) : c \in Slotted(in, FullStatuses)}
      /\ InjuredLines(in) = {HurtLine(c) : c \in Slotted(in, InjuredStatuses)}
      /\ BuriedLines(in) = {DownLine(c) : c \in Charged(in)}
  BY DEF ActiveLines, InjuredLines, BuriedLines, Lines
<1>8. ASSUME NEW c \in DOMAIN in.rows, Shown(Line(c)) PROVE Line(c) \in All
  <2> HIDE DEF Line, Shown, FullLine, HurtLine, DownLine
  <2>1. CASE in.rows[c].status \in FullStatuses
    BY <1>2, <1>7, <2>1 DEF Slotted
  <2>2. CASE in.rows[c].status \in InjuredStatuses
    BY <1>3, <1>7, <2>2 DEF Slotted
  <2>3. CASE in.rows[c].status \in BuriedStatuses
    BY <1>4, <1>7, <1>8, <2>3 DEF Slotted, Charged
  <2> QED BY <1>5, <1>6, <1>8, <2>1, <2>2, <2>3
<1>9. ASSUME NEW l \in All PROVE \E c \in DOMAIN in.rows : l = Line(c) /\ Shown(l)
  <2> HIDE DEF Line, Shown, FullLine, HurtLine, DownLine
  <2>1. CASE l \in ActiveLines(in)
    BY <1>2, <1>7, <2>1 DEF Slotted
  <2>2. CASE l \in InjuredLines(in)
    BY <1>3, <1>7, <2>2 DEF Slotted
  <2>3. CASE l \in BuriedLines(in)
    BY <1>4, <1>7, <2>3 DEF Slotted, Charged
  <2> QED BY <2>1, <2>2, <2>3
<1>10. {l \in {Line(c) : c \in DOMAIN in.rows} : Shown(l)} = All
  <2> HIDE DEF Line, Shown, All
  <2> QED BY <1>8, <1>9
<1> QED BY <1>10

(* The lines of a roster are those of six categories.                      *)
LEMMA ItemsAreLines ==
  ASSUME NEW in, CapInput(in)
  PROVE  LineItems(in, Rules) =
           ActiveLines(in) \cup InjuredLines(in) \cup BuriedLines(in)
             \cup RetainedLines(in) \cup DeadLines(in) \cup ReliefLines(in)
<1> DEFINE OwedLine(o) == [id |-> <<IF o.kind = "retained" THEN "retained" ELSE "dead_cap", o>>, amount |-> o.amount]
           ReliefLine == [id |-> <<"ltir_relief", None>>, amount |-> -LtirRelief(in)]
           RowLine(c) == [id |-> <<RowCategory(in.rows[c]), c>>,
                          amount |-> IF in.rows[c].status \in BuriedStatuses THEN BuriedCharge(in.rows[c], Rules)
                                     ELSE EffectiveHit(in.rows[c])]
           Rows == {l \in {RowLine(c) : c \in DOMAIN in.rows} : l.id[1] # None /\ (l.id[1] = "buried" => l.amount > 0)}
<1>1. LineItems(in, Rules) = Rows \cup {OwedLine(o) : o \in in.obligations} \cup {l \in {ReliefLine} : l.amount < 0}
  BY DEF LineItems
<1>2. Rows = ActiveLines(in) \cup InjuredLines(in) \cup BuriedLines(in)
  BY RowLines
<1>3. {OwedLine(o) : o \in in.obligations} = RetainedLines(in) \cup DeadLines(in)
  <2>1. \A o \in Obligations(in, {"retained"}) :
          o \in in.obligations /\ OwedLine(o) = [id |-> <<"retained", o>>, amount |-> Amounts(in.obligations)[o]]
    BY DEF Obligations, Amounts
  <2>2. \A o \in Obligations(in, DeadKinds) :
          o \in in.obligations /\ OwedLine(o) = [id |-> <<"dead_cap", o>>, amount |-> Amounts(in.obligations)[o]]
    BY DEF Obligations, Amounts, DeadKinds
  <2>3. \A o \in in.obligations : o \in Obligations(in, {"retained"}) \/ o \in Obligations(in, DeadKinds)
    BY DEF Obligations, CapInput
  <2> HIDE DEF OwedLine
  <2> QED BY <2>1, <2>2, <2>3 DEF RetainedLines, DeadLines, Lines
<1>4. {l \in {ReliefLine} : l.amount < 0} = ReliefLines(in)
  <2>1. LtirRelief(in) \in Nat
    BY ReliefBounded
  <2>2. ReliefLine.amount < 0 <=> LtirRelief(in) > 0
    BY <2>1
  <2>3. ReliefLine = [id |-> <<"ltir_relief", None>>, amount |-> Relief(in)[None]]
    BY DEF Relief
  <2>4. ReliefLines(in) = {l \in {ReliefLine} : LtirRelief(in) > 0}
    BY <2>3 DEF ReliefLines, Relieved, Lines
  <2> HIDE DEF ReliefLine
  <2> QED BY <2>2, <2>4
<1> QED BY <1>1, <1>2, <1>3, <1>4

(* What the lines of each category add up to, among any lines.             *)
LEMMA CategoriesAddUp ==
  ASSUME NEW in, CapInput(in), NEW T, LineItems(in, Rules) \subseteq T
  PROVE  /\ IsFiniteSet(ActiveLines(in)) /\ IsFiniteSet(InjuredLines(in)) /\ IsFiniteSet(BuriedLines(in))
         /\ IsFiniteSet(RetainedLines(in)) /\ IsFiniteSet(DeadLines(in)) /\ IsFiniteSet(ReliefLines(in))
         /\ SumFunctionOnSet(Amounts(T), ActiveLines(in)) = ActiveRosterCapHit(in)
         /\ SumFunctionOnSet(Amounts(T), InjuredLines(in)) = InjuredReserveCapHit(in)
         /\ SumFunctionOnSet(Amounts(T), BuriedLines(in)) = BuriedCapHit(in, Rules)
         /\ SumFunctionOnSet(Amounts(T), RetainedLines(in)) = Owed(in, {"retained"})
         /\ SumFunctionOnSet(Amounts(T), DeadLines(in)) = Owed(in, DeadKinds)
         /\ SumFunctionOnSet(Amounts(T), ReliefLines(in)) = -LtirRelief(in)
<1> DEFINE g == Amounts(T)
<1>1. /\ ActiveLines(in) \subseteq T /\ InjuredLines(in) \subseteq T /\ BuriedLines(in) \subseteq T
      /\ RetainedLines(in) \subseteq T /\ DeadLines(in) \subseteq T /\ ReliefLines(in) \subseteq T
  BY ItemsAreLines
<1>2. IsFiniteSet(ActiveLines(in)) /\ SumFunctionOnSet(g, ActiveLines(in)) = ActiveRosterCapHit(in)
  <2>1. \A c \in Slotted(in, FullStatuses) : Hits(in)[c] \in Int
    BY SlottedFinite, HitsNatural
  <2>2. Lines("active_roster", Slotted(in, FullStatuses), Hits(in)) \subseteq T
    BY <1>1 DEF ActiveLines
  <2>3. IsFiniteSet(Slotted(in, FullStatuses))
    BY SlottedFinite
  <2>4. ActiveRosterCapHit(in) = SumFunctionOnSet(Hits(in), Slotted(in, FullStatuses))
    BY DEF ActiveRosterCapHit, HitsOf, FullStatuses
  <2>5. /\ IsFiniteSet(Lines("active_roster", Slotted(in, FullStatuses), Hits(in)))
        /\ SumFunctionOnSet(g, Lines("active_roster", Slotted(in, FullStatuses), Hits(in)))
             = SumFunctionOnSet(Hits(in), Slotted(in, FullStatuses))
    BY <2>1, <2>2, <2>3, LinesAddUp
  <2> QED BY <2>4, <2>5 DEF ActiveLines
<1>3. IsFiniteSet(InjuredLines(in)) /\ SumFunctionOnSet(g, InjuredLines(in)) = InjuredReserveCapHit(in)
  <2>1. \A c \in Slotted(in, InjuredStatuses) : Hits(in)[c] \in Int
    BY SlottedFinite, HitsNatural
  <2>2. Lines("injured_reserve", Slotted(in, InjuredStatuses), Hits(in)) \subseteq T
    BY <1>1 DEF InjuredLines
  <2>3. IsFiniteSet(Slotted(in, InjuredStatuses))
    BY SlottedFinite
  <2> QED BY <2>1, <2>2, <2>3, LinesAddUp DEF InjuredLines, InjuredReserveCapHit, HitsOf, InjuredStatuses
<1>4. IsFiniteSet(BuriedLines(in)) /\ SumFunctionOnSet(g, BuriedLines(in)) = BuriedCapHit(in, Rules)
  <2> DEFINE S == Slotted(in, BuriedStatuses)
             P == Charged(in)
             f == Charges(in)
  <2>1. IsFiniteSet(S) /\ P \subseteq S /\ \A c \in S : f[c] \in Nat
    BY SlottedFinite, HitsNatural DEF Charged
  <2>2. IsFiniteSet(P) /\ IsFiniteSet(S \ P) /\ S = P \cup (S \ P)
    BY <2>1, FS_Subset
  <2>3. \A c \in S \ P : f[c] = 0
    <3> SUFFICES ASSUME NEW c \in S \ P PROVE f[c] = 0
      OBVIOUS
    <3>1. ~(f[c] > 0) /\ f[c] \in Nat
      BY <2>1 DEF Charged
    <3> HIDE DEF f
    <3> QED BY <3>1
  <2>4. Lines("buried", P, f) \subseteq T
    BY <1>1 DEF BuriedLines
  <2>5. \A c \in P : f[c] \in Int
    BY <2>1
  <2>6. IsFiniteSet(Lines("buried", P, f)) /\ SumFunctionOnSet(g, Lines("buried", P, f)) = SumFunctionOnSet(f, P)
    <3> HIDE DEF P, f
    <3> QED BY <2>2, <2>4, <2>5, LinesAddUp
  <2>7. SumFunctionOnSet(f, S) = SumFunctionOnSet(f, P)
    <3>1. \A c \in P \cup (S \ P) : f[c] \in Int
      BY <2>1
    <3> DEFINE Z == S \ P
    <3>2. P \cap Z = {}
      OBVIOUS
    <3>3. SumFunctionOnSet(f, Z) = 0
      <4> HIDE DEF f, S, P, Z
      <4> QED BY <2>2, <2>3, SumOfZeros DEF Z
    <3>4. SumFunctionOnSet(f, P \cup Z) = SumFunctionOnSet(f, P) + SumFunctionOnSet(f, Z)
      <4> HIDE DEF f, S, P, Z
      <4> QED BY <2>2, <3>1, <3>2, SumOfBoth DEF Z
    <3>5. SumFunctionOnSet(f, P) \in Int
      <4> HIDE DEF f, S, P
      <4> QED BY <2>2, <2>5, SumType
    <3>6. SumFunctionOnSet(f, S) = SumFunctionOnSet(f, P \cup Z)
      BY <2>2
    <3> HIDE DEF f, S, P, Z
    <3> QED BY <3>3, <3>4, <3>5, <3>6
  <2>8. SumFunctionOnSet(f, S) = BuriedCapHit(in, Rules)
    BY DEF BuriedCapHit, Charges
  <2> QED BY <2>6, <2>7, <2>8 DEF BuriedLines
<1>5. IsFiniteSet(RetainedLines(in)) /\ SumFunctionOnSet(g, RetainedLines(in)) = Owed(in, {"retained"})
  <2>1. IsFiniteSet(Obligations(in, {"retained"})) /\ \A o \in Obligations(in, {"retained"}) : Amounts(in.obligations)[o] \in Int
    BY OwedInteger DEF Obligations
  <2>2. Lines("retained", Obligations(in, {"retained"}), Amounts(in.obligations)) \subseteq T
    BY <1>1 DEF RetainedLines
  <2> QED BY <2>1, <2>2, LinesAddUp DEF RetainedLines, Owed, Obligations
<1>6. IsFiniteSet(DeadLines(in)) /\ SumFunctionOnSet(g, DeadLines(in)) = Owed(in, DeadKinds)
  <2>1. IsFiniteSet(Obligations(in, DeadKinds)) /\ \A o \in Obligations(in, DeadKinds) : Amounts(in.obligations)[o] \in Int
    BY OwedInteger DEF Obligations
  <2>2. Lines("dead_cap", Obligations(in, DeadKinds), Amounts(in.obligations)) \subseteq T
    BY <1>1 DEF DeadLines
  <2> QED BY <2>1, <2>2, LinesAddUp DEF DeadLines, Owed, Obligations
<1>7. IsFiniteSet(ReliefLines(in)) /\ SumFunctionOnSet(g, ReliefLines(in)) = -LtirRelief(in)
  <2> DEFINE S == Relieved(in)
             f == Relief(in)
  <2>1. LtirRelief(in) \in Nat
    BY ReliefBounded
  <2>2. IsFiniteSet(S)
    BY FS_Singleton, FS_Subset DEF Relieved
  <2>3. f[None] = -LtirRelief(in) /\ (\A n \in S : f[n] \in Int)
    BY <2>1 DEF Relief, Relieved
  <2>4. Lines("ltir_relief", S, f) \subseteq T
    BY <1>1 DEF ReliefLines
  <2>5. IsFiniteSet(Lines("ltir_relief", S, f)) /\ SumFunctionOnSet(g, Lines("ltir_relief", S, f)) = SumFunctionOnSet(f, S)
    <3> HIDE DEF S, f
    <3> QED BY <2>2, <2>3, <2>4, LinesAddUp
  <2>6. SumFunctionOnSet(f, S) = -LtirRelief(in)
    <3>1. CASE LtirRelief(in) > 0
      <4>1. S = {} \cup {None} /\ None \notin {}
        BY <3>1 DEF Relieved
      <4>2. SumFunctionOnSet(f, {} \cup {None}) = f[None] + SumFunctionOnSet(f, {})
        <5>1. IsFiniteSet({}) /\ (\A y \in {} : f[y] \in Int) /\ f[None] \in Int /\ None \notin {}
          BY <2>1, <2>3, FS_EmptySet
        <5> HIDE DEF f
        <5> QED BY <5>1, SumWith
      <4>3. SumFunctionOnSet(f, {}) = 0
        BY SumOfNone
      <4> QED BY <2>1, <2>3, <4>1, <4>2, <4>3
    <3>2. CASE ~(LtirRelief(in) > 0)
      <4>1. S = {} /\ LtirRelief(in) = 0
        BY <2>1, <3>2 DEF Relieved
      <4>2. SumFunctionOnSet(f, {}) = 0
        BY SumOfNone
      <4> QED BY <4>1, <4>2
    <3> QED BY <3>1, <3>2
  <2> QED BY <2>5, <2>6 DEF ReliefLines
<1> QED BY <1>2, <1>3, <1>4, <1>5, <1>6, <1>7

(* The charge is the sum of all lines, and each category's figure that of  *)
(* its lines.                                                              *)
LEMMA EveryFigureHasItsLines ==
  ASSUME CapInput(input)
  PROVE  ChargeExplained
<1> DEFINE in == input
           items == LineItems(in, Rules)
           SumOf(lines) == SumFunctionOnSet(Amounts(lines), lines)
           g == Amounts(items)
           A == ActiveLines(in)
           I == InjuredLines(in)
           B == BuriedLines(in)
           R == RetainedLines(in)
           D == DeadLines(in)
           L == ReliefLines(in)
<1>1. items = A \cup I \cup B \cup R \cup D \cup L
  BY ItemsAreLines
<1>2. /\ \A l \in A : l.id[1] = "active_roster"
      /\ \A l \in I : l.id[1] = "injured_reserve"
      /\ \A l \in B : l.id[1] = "buried"
      /\ \A l \in R : l.id[1] = "retained"
      /\ \A l \in D : l.id[1] = "dead_cap"
      /\ \A l \in L : l.id[1] = "ltir_relief"
  BY DEF ActiveLines, InjuredLines, BuriedLines, RetainedLines, DeadLines, ReliefLines, Lines
<1>3. /\ {l \in items : l.id[1] = "active_roster"} = A
      /\ {l \in items : l.id[1] = "buried"} = B
      /\ {l \in items : l.id[1] = "ltir_relief"} = L
  <2> HIDE DEF items, A, I, B, R, D, L
  <2> QED BY <1>1, <1>2
<1>4. items \subseteq items /\ IsFiniteSet(A) /\ IsFiniteSet(I) /\ IsFiniteSet(B) /\ IsFiniteSet(R) /\ IsFiniteSet(D) /\ IsFiniteSet(L)
  BY CategoriesAddUp
<1>5. /\ SumFunctionOnSet(g, A) = ActiveRosterCapHit(in)
      /\ SumFunctionOnSet(g, I) = InjuredReserveCapHit(in)
      /\ SumFunctionOnSet(g, B) = BuriedCapHit(in, Rules)
      /\ SumFunctionOnSet(g, R) = Owed(in, {"retained"})
      /\ SumFunctionOnSet(g, D) = Owed(in, DeadKinds)
      /\ SumFunctionOnSet(g, L) = -LtirRelief(in)
  BY <1>4, CategoriesAddUp
<1>6. \A l \in items : g[l] = l.amount /\ l.amount \in Int
  <2>1. \A l \in items : g[l] = l.amount
    BY DEF Amounts
  <2>2. \A c \in DOMAIN in.rows : Hits(in)[c] \in Int /\ Charges(in)[c] \in Int
    BY HitsNatural
  <2>3. \A o \in in.obligations : Amounts(in.obligations)[o] \in Int
    BY OwedInteger
  <2>4. -LtirRelief(in) \in Int
    BY ReliefBounded
  <2>5. /\ \A l \in A \cup I \cup B : l.amount \in Int
        /\ \A l \in R \cup D : l.amount \in Int
        /\ \A l \in L : l.amount \in Int
    BY <2>2, <2>3, <2>4 DEF ActiveLines, InjuredLines, BuriedLines, RetainedLines, DeadLines, ReliefLines, Lines,
         Slotted, Charged, Obligations, Relieved, Relief
  <2> HIDE DEF items, A, I, B, R, D, L, g
  <2> QED BY <1>1, <2>1, <2>5
<1>7. SumFunctionOnSet(g, items) = TotalCapCharge(in, Rules)
  <2> DEFINE Sum(s) == SumFunctionOnSet(g, s)
  <2> HIDE DEF items, A, I, B, R, D, L, g
  <2>1. A \cap I = {} /\ (A \cup I) \cap B = {} /\ (A \cup I \cup B) \cap R = {}
    BY <1>2
  <2>2. (A \cup I \cup B \cup R) \cap D = {} /\ (A \cup I \cup B \cup R \cup D) \cap L = {}
    BY <1>2
  <2>3. \A l \in A \cup I \cup B \cup R \cup D \cup L : g[l] \in Int
    BY <1>1, <1>6
  <2>4. IsFiniteSet(A \cup I) /\ IsFiniteSet(A \cup I \cup B) /\ IsFiniteSet(A \cup I \cup B \cup R)
          /\ IsFiniteSet(A \cup I \cup B \cup R \cup D)
    BY <1>4, FS_Union
  <2>5. Sum(A \cup I) = Sum(A) + Sum(I)
    BY <1>4, <2>1, <2>3, SumOfBoth
  <2>6. Sum((A \cup I) \cup B) = Sum(A \cup I) + Sum(B)
    BY <1>4, <2>1, <2>3, <2>4, SumOfBoth
  <2>7. Sum((A \cup I \cup B) \cup R) = Sum(A \cup I \cup B) + Sum(R)
    BY <1>4, <2>1, <2>3, <2>4, SumOfBoth
  <2>8. Sum((A \cup I \cup B \cup R) \cup D) = Sum(A \cup I \cup B \cup R) + Sum(D)
    BY <1>4, <2>2, <2>3, <2>4, SumOfBoth
  <2>9. Sum((A \cup I \cup B \cup R \cup D) \cup L) = Sum(A \cup I \cup B \cup R \cup D) + Sum(L)
    BY <1>4, <2>2, <2>3, <2>4, SumOfBoth
  <2>10. LtirRelief(in) \in Int
    BY ReliefBounded
  <2> DEFINE a == ActiveRosterCapHit(in)
             i == InjuredReserveCapHit(in)
             b == BuriedCapHit(in, Rules)
             r == Owed(in, {"retained"})
             d == Owed(in, DeadKinds)
             l == LtirRelief(in)
  <2>11. a \in Int /\ i \in Int /\ b \in Int /\ r \in Int /\ d \in Int /\ l \in Int
    <3>1. a \in Nat /\ i \in Nat
      BY HitsOfNatural DEF ActiveRosterCapHit, InjuredReserveCapHit
    <3>2. b \in Nat
      BY BuriedNatural
    <3>3. r \in Int /\ d \in Int
      BY OwedInteger
    <3> QED BY <2>10, <3>1, <3>2, <3>3
  <2>12. TotalCapCharge(in, Rules) = a + i + b + r + d - l
    BY DEF TotalCapCharge
  <2>13. Sum(items) = Sum(A) + Sum(I) + Sum(B) + Sum(R) + Sum(D) + Sum(L)
    BY <1>1, <2>5, <2>6, <2>7, <2>8, <2>9
  <2>14. Sum(A) = a /\ Sum(I) = i /\ Sum(B) = b /\ Sum(R) = r /\ Sum(D) = d /\ Sum(L) = -l
    BY <1>5
  <2> HIDE DEF Sum, a, i, b, r, d, l
  <2>15. Sum(items) = TotalCapCharge(in, Rules)
    BY <2>11, <2>12, <2>13, <2>14
  <2> QED BY <2>15 DEF Sum
<1>8. ASSUME NEW T, T \subseteq items, IsFiniteSet(T) PROVE SumOf(T) = SumFunctionOnSet(g, T)
  <2>1. \A l \in T : Amounts(T)[l] = g[l] /\ Amounts(T)[l] \in Int
    BY <1>6, <1>8 DEF Amounts
  <2> HIDE DEF g, items
  <2> QED BY <1>8, <2>1, SumOfEqual
<1>9. SumOf(A) = ActiveRosterCapHit(in) /\ SumOf(B) = BuriedCapHit(in, Rules) /\ SumOf(L) = -LtirRelief(in)
  <2>1. A \subseteq items /\ B \subseteq items /\ L \subseteq items
    BY <1>1
  <2> HIDE DEF items, A, I, B, R, D, L, g, SumOf
  <2> QED BY <1>4, <1>5, <1>8, <2>1
<1>10. SumOf(items) = TotalCapCharge(in, Rules)
  BY <1>7
<1>11. LtirRelief(in) = -(-LtirRelief(in))
  BY ReliefBounded
<1> DEFINE result == CalculateCap(in, Rules)
<1>12. /\ result.lineItems = items
       /\ result.totals.totalCapCharge = TotalCapCharge(in, Rules)
       /\ result.totals.activeRosterCapHit = ActiveRosterCapHit(in)
       /\ result.totals.buriedCapHit = BuriedCapHit(in, Rules)
       /\ result.totals.ltirRelief = LtirRelief(in)
  BY DEF CalculateCap, Totals
<1>13. ChargeExplained =
         ( /\ result.totals.totalCapCharge = SumOf(result.lineItems)
           /\ result.totals.activeRosterCapHit = SumOf({l \in result.lineItems : l.id[1] = "active_roster"})
           /\ result.totals.buriedCapHit = SumOf({l \in result.lineItems : l.id[1] = "buried"})
           /\ result.totals.ltirRelief = -SumOf({l \in result.lineItems : l.id[1] = "ltir_relief"}))
  BY DEF ChargeExplained
<1> HIDE DEF result, items, A, I, B, R, D, L, g, SumOf
<1> QED BY <1>3, <1>9, <1>10, <1>11, <1>12, <1>13

-----------------------------------------------------------------------------
(* Taking the players on LTIR off a roster leaves what the others cost.    *)
LEMMA OthersStay ==
  ASSUME NEW in, CapInput(in)
  PROVE  LET less == [Without(in, {"ltir"}) EXCEPT !.ltirPool = None]
         IN  Charge(less) = Charge(in) - HitsOf(in, {"ltir"}) + LtirRelief(in)
<1> DEFINE less == [Without(in, {"ltir"}) EXCEPT !.ltirPool = None]
           Rest == {c \in DOMAIN in.rows : in.rows[c].status \notin {"ltir"}}
           left == [c \in Rest |-> in.rows[c]]
<1>1. less = [rows |-> left, obligations |-> in.obligations, ltirPool |-> None]
  <2> DEFINE R == in.rows
             O == in.obligations
             P == in.ltirPool
  <2>1. in = [rows |-> R, obligations |-> O, ltirPool |-> P]
    BY DEF CapInput
  <2>2. Without(in, {"ltir"}) = [in EXCEPT !.rows = left]
    BY DEF Without
  <2>3. [[in EXCEPT !.rows = left] EXCEPT !.ltirPool = None] = [rows |-> left, obligations |-> O, ltirPool |-> None]
    <3> HIDE DEF R, O, P, left
    <3>1. [[rows |-> R, obligations |-> O, ltirPool |-> P] EXCEPT !.rows = left]
            = [rows |-> left, obligations |-> O, ltirPool |-> P]
      OBVIOUS
    <3>2. [[rows |-> left, obligations |-> O, ltirPool |-> P] EXCEPT !.ltirPool = None]
            = [rows |-> left, obligations |-> O, ltirPool |-> None]
      OBVIOUS
    <3> QED BY <2>1, <3>1, <3>2, Zenon
  <2> QED BY <2>2, <2>3
<1>2. CapInput(less)
  <2>1. IsFiniteSet(Rest)
    BY FS_Subset DEF CapInput
  <2>2. left \in [Rest -> CapRows] /\ DOMAIN left = Rest
    BY DEF CapInput
  <2>3. less.rows = left /\ less.obligations = in.obligations /\ less.ltirPool = None
    BY <1>1
  <2>4. /\ IsFiniteSet(in.obligations)
        /\ \A o \in in.obligations : o.kind \in {"retained"} \cup DeadKinds /\ o.amount \in Int
    BY DEF CapInput
  <2>5. less = [rows |-> less.rows, obligations |-> less.obligations, ltirPool |-> less.ltirPool]
    BY <1>1, <2>3
  <2> HIDE DEF less, left, Rest
  <2> QED BY <2>1, <2>2, <2>3, <2>4, <2>5 DEF CapInput
<1>3. less.obligations = in.obligations /\ DOMAIN less.rows = Rest /\ (\A c \in Rest : less.rows[c] = in.rows[c])
        /\ less.ltirPool = None
  BY <1>1
<1> HIDE DEF less
<1>4. ASSUME NEW statuses, "ltir" \notin statuses
      PROVE  /\ Slotted(less, statuses) = Slotted(in, statuses)
             /\ HitsOf(less, statuses) = HitsOf(in, statuses)
  <2>1. Slotted(less, statuses) = Slotted(in, statuses)
    BY <1>3, <1>4 DEF Slotted
  <2> DEFINE S == Slotted(in, statuses)
  <2>2. S \subseteq Rest /\ IsFiniteSet(S) /\ S \subseteq DOMAIN in.rows
    BY <1>4, SlottedFinite DEF Slotted
  <2>3. \A c \in S : Hits(less)[c] \in Int /\ Hits(less)[c] = Hits(in)[c]
    <3> SUFFICES ASSUME NEW c \in S PROVE Hits(less)[c] \in Int /\ Hits(less)[c] = Hits(in)[c]
      OBVIOUS
    <3>1. c \in DOMAIN in.rows /\ c \in DOMAIN less.rows /\ less.rows[c] = in.rows[c]
      BY <1>3, <2>2
    <3>2. Hits(less)[c] = EffectiveHit(in.rows[c]) /\ Hits(in)[c] = EffectiveHit(in.rows[c])
      BY <3>1 DEF Hits
    <3>3. Hits(in)[c] \in Nat
      BY <3>1, HitsNatural
    <3> QED BY <3>2, <3>3
  <2>4. SumFunctionOnSet(Hits(less), S) = SumFunctionOnSet(Hits(in), S)
    <3> HIDE DEF S
    <3> QED BY <2>2, <2>3, SumOfEqual
  <2> QED BY <2>1, <2>4 DEF HitsOf
<1>5. BuriedCapHit(less, Rules) = BuriedCapHit(in, Rules)
  <2> DEFINE S == Slotted(in, BuriedStatuses)
  <2>1. Slotted(less, BuriedStatuses) = S
    <3>1. "ltir" \notin BuriedStatuses
      BY DEF BuriedStatuses
    <3> QED BY <1>4, <3>1
  <2>2. S \subseteq Rest /\ IsFiniteSet(S) /\ S \subseteq DOMAIN in.rows
    BY SlottedFinite DEF Slotted, BuriedStatuses
  <2>3. \A c \in S : Charges(less)[c] \in Int /\ Charges(less)[c] = Charges(in)[c]
    <3> SUFFICES ASSUME NEW c \in S PROVE Charges(less)[c] \in Int /\ Charges(less)[c] = Charges(in)[c]
      OBVIOUS
    <3>1. c \in DOMAIN in.rows /\ c \in DOMAIN less.rows /\ less.rows[c] = in.rows[c]
      BY <1>3, <2>2
    <3>2. Charges(less)[c] = BuriedCharge(in.rows[c], Rules) /\ Charges(in)[c] = BuriedCharge(in.rows[c], Rules)
      BY <3>1 DEF Charges
    <3>3. Charges(in)[c] \in Nat
      BY <3>1, HitsNatural
    <3> QED BY <3>2, <3>3
  <2>4. SumFunctionOnSet(Charges(less), S) = SumFunctionOnSet(Charges(in), S)
    <3> HIDE DEF S
    <3> QED BY <2>2, <2>3, SumOfEqual
  <2> QED BY <2>1, <2>4 DEF BuriedCapHit, Charges
<1>6. Owed(less, {"retained"}) = Owed(in, {"retained"}) /\ Owed(less, DeadKinds) = Owed(in, DeadKinds)
  BY <1>3 DEF Owed
<1>7. ActiveRosterCapHit(less) = ActiveRosterCapHit(in)
  <2>1. "ltir" \notin CountsAsActiveRoster \cup {"suspended"}
    BY DEF CountsAsActiveRoster
  <2> QED BY <1>4, <2>1 DEF ActiveRosterCapHit
<1>8. HitsOf(less, {"ltir"}) = 0 /\ LtirRelief(less) = 0
  <2>1. Slotted(less, {"ltir"}) = {}
    BY <1>3 DEF Slotted
  <2>2. HitsOf(less, {"ltir"}) = 0
    BY <2>1, SumOfNone DEF HitsOf
  <2> QED BY <1>2, <1>3, <2>2, ReliefBounded
<1>9. /\ InjuredReserveCapHit(in) = HitsOf(in, {"injured_reserve"}) + HitsOf(in, {"ltir"})
      /\ InjuredReserveCapHit(less) = HitsOf(in, {"injured_reserve"})
  <2>1. {"injured_reserve"} \cap {"ltir"} = {} /\ {"injured_reserve", "ltir"} = {"injured_reserve"} \cup {"ltir"}
    OBVIOUS
  <2>2. InjuredReserveCapHit(in) = HitsOf(in, {"injured_reserve"}) + HitsOf(in, {"ltir"})
    BY <2>1, HitsOfBoth DEF InjuredReserveCapHit
  <2>3. InjuredReserveCapHit(less) = HitsOf(less, {"injured_reserve"}) + HitsOf(less, {"ltir"})
    BY <1>2, <2>1, HitsOfBoth DEF InjuredReserveCapHit
  <2>4. HitsOf(less, {"injured_reserve"}) = HitsOf(in, {"injured_reserve"})
    BY <1>4
  <2>5. HitsOf(in, {"injured_reserve"}) \in Nat
    BY HitsOfNatural
  <2> QED BY <1>8, <2>2, <2>3, <2>4, <2>5
<1> DEFINE a == ActiveRosterCapHit(in)
           i == HitsOf(in, {"injured_reserve"})
           h == HitsOf(in, {"ltir"})
           b == BuriedCapHit(in, Rules)
           r == Owed(in, {"retained"})
           d == Owed(in, DeadKinds)
           l == LtirRelief(in)
<1>10. a \in Int /\ i \in Int /\ h \in Int /\ b \in Int /\ r \in Int /\ d \in Int /\ l \in Int
  <2>1. a \in Nat /\ i \in Nat /\ h \in Nat
    BY HitsOfNatural DEF ActiveRosterCapHit
  <2>2. b \in Nat
    BY BuriedNatural
  <2>3. r \in Int /\ d \in Int
    BY OwedInteger
  <2>4. l \in Nat
    BY ReliefBounded
  <2> QED BY <2>1, <2>2, <2>3, <2>4
<1>11. Charge(in) = a + (i + h) + b + r + d - l
  BY <1>9 DEF Charge, TotalCapCharge
<1>12. Charge(less) = a + i + b + r + d - 0
  BY <1>5, <1>6, <1>7, <1>8, <1>9 DEF Charge, TotalCapCharge
<1>13. Charge(less) = Charge(in) - h + l
  <2> HIDE DEF a, i, h, b, r, d, l
  <2> QED BY <1>10, <1>11, <1>12
<1> QED BY <1>13 DEF less

LEMMA ChargeInteger ==
  ASSUME NEW in, CapInput(in)
  PROVE  Charge(in) \in Int
<1>1. ActiveRosterCapHit(in) \in Nat /\ InjuredReserveCapHit(in) \in Nat
  BY HitsOfNatural DEF ActiveRosterCapHit, InjuredReserveCapHit
<1>2. BuriedCapHit(in, Rules) \in Nat /\ LtirRelief(in) \in Nat
  BY BuriedNatural, ReliefBounded
<1>3. Owed(in, {"retained"}) \in Int /\ Owed(in, DeadKinds) \in Int
  BY OwedInteger
<1> QED BY <1>1, <1>2, <1>3 DEF Charge, TotalCapCharge

(* Relief offsets the injured players' hits, and nothing else.             *)
LEMMA ReliefOffsetsItsHits ==
  ASSUME CapInput(input)
  PROVE  LtirOffsetsItsHits
<1> DEFINE rest == Charge([Without(input, {"ltir"}) EXCEPT !.ltirPool = None])
           all == Charge(input)
           h == HitsOf(input, {"ltir"})
           l == LtirRelief(input)
<1>1. rest = all - h + l
  BY OthersStay
<1>2. l \in Nat /\ h \in Nat /\ l <= h /\ (input.ltirPool = None => l = h)
  BY ReliefBounded, HitsOfNatural
<1>3. all \in Int
  BY ChargeInteger
<1>4. all >= rest /\ (input.ltirPool = None => all = rest)
  <2> HIDE DEF rest, all, h, l
  <2> QED BY <1>1, <1>2, <1>3
<1> QED BY <1>4 DEF LtirOffsetsItsHits

(* Every figure of the cap page has its lines, and relief is never more    *)
(* than what the injured players cost, for every roster, every obligation  *)
(* and every rule set.                                                     *)
THEOREM ChargeToldAlways == Spec => []ChargeTold
<1>1. CapInput(input) => ChargeTold
  BY EveryFigureHasItsLines, ReliefOffsetsItsHits DEF ChargeTold
<1> QED BY <1>1, InputTyped, PTL

-----------------------------------------------------------------------------
(* A roster after a player's status was set.                               *)
Edited(in, c, st) == [in EXCEPT !.rows[c].status = st]

(* Whose status is set, what is owed and what every player would cost in   *)
(* full or buried stays as it is.                                          *)
LEMMA EditKeepsHits ==
  ASSUME NEW in, CapInput(in), NEW c \in DOMAIN in.rows, NEW st \in RosterStatuses
  PROVE  /\ CapInput(Edited(in, c, st))
         /\ Edited(in, c, st).obligations = in.obligations
         /\ Edited(in, c, st).ltirPool = in.ltirPool
         /\ DOMAIN Edited(in, c, st).rows = DOMAIN in.rows
         /\ Edited(in, c, st).rows[c].status = st
         /\ \A d \in DOMAIN in.rows \ {c} : Edited(in, c, st).rows[d] = in.rows[d]
         /\ Hits(Edited(in, c, st)) = Hits(in)
         /\ Charges(Edited(in, c, st)) = Charges(in)
<1> DEFINE out == Edited(in, c, st)
           row == [in.rows[c] EXCEPT !.status = st]
           rows == [in.rows EXCEPT ![c] = row]
<1>1. in.rows[c] \in CapRows /\ row \in CapRows
  BY DEF CapInput, CapRows
<1>2. /\ row.hit = in.rows[c].hit /\ row.kept = in.rows[c].kept /\ row.status = st
  BY <1>1 DEF CapRows
<1>3. /\ DOMAIN rows = DOMAIN in.rows /\ rows[c] = row
      /\ (\A d \in DOMAIN in.rows \ {c} : rows[d] = in.rows[d])
      /\ rows \in [DOMAIN in.rows -> CapRows]
  BY <1>1 DEF CapInput
<1>4. out = [in EXCEPT !.rows = rows]
  BY DEF Edited
<1>5. out.rows = rows /\ out.obligations = in.obligations /\ out.ltirPool = in.ltirPool
        /\ out = [rows |-> rows, obligations |-> in.obligations, ltirPool |-> in.ltirPool]
  <2> DEFINE R == in.rows
             O == in.obligations
             P == in.ltirPool
  <2>1. in = [rows |-> R, obligations |-> O, ltirPool |-> P]
    BY DEF CapInput
  <2>2. out = [rows |-> rows, obligations |-> O, ltirPool |-> P]
    <3> HIDE DEF R, O, P, rows, out
    <3>1. [[rows |-> R, obligations |-> O, ltirPool |-> P] EXCEPT !.rows = rows]
            = [rows |-> rows, obligations |-> O, ltirPool |-> P]
      OBVIOUS
    <3> QED BY <1>4, <2>1, <3>1, Zenon
  <2> QED BY <2>2
<1> HIDE DEF row, rows, out
<1>6. CapInput(out)
  <2>1. /\ IsFiniteSet(DOMAIN in.rows) /\ IsFiniteSet(in.obligations)
        /\ \A o \in in.obligations : o.kind \in {"retained"} \cup DeadKinds /\ o.amount \in Int
        /\ in.ltirPool \in Nat \cup {None}
    BY DEF CapInput
  <2> QED BY <1>3, <1>5, <2>1 DEF CapInput
<1>7. EffectiveHit(row) = EffectiveHit(in.rows[c]) /\ BuriedCharge(row, Rules) = BuriedCharge(in.rows[c], Rules)
  <2>1. EffectiveHit(row) = EffectiveHit(in.rows[c])
    BY <1>2 DEF EffectiveHit
  <2> QED BY <2>1 DEF BuriedCharge
<1>8. \A d \in DOMAIN in.rows : /\ EffectiveHit(out.rows[d]) = EffectiveHit(in.rows[d])
                                /\ BuriedCharge(out.rows[d], Rules) = BuriedCharge(in.rows[d], Rules)
  <2> SUFFICES ASSUME NEW d \in DOMAIN in.rows
               PROVE  /\ EffectiveHit(out.rows[d]) = EffectiveHit(in.rows[d])
                      /\ BuriedCharge(out.rows[d], Rules) = BuriedCharge(in.rows[d], Rules)
    OBVIOUS
  <2>1. CASE d = c
    BY <1>3, <1>5, <1>7, <2>1
  <2>2. CASE d # c
    <3>1. out.rows[d] = in.rows[d]
      BY <1>3, <1>5, <2>2
    <3> QED BY <3>1
  <2> QED BY <2>1, <2>2
<1>9. Hits(out) = Hits(in)
  BY <1>3, <1>5, <1>8 DEF Hits
<1>10. Charges(out) = Charges(in)
  BY <1>3, <1>5, <1>8 DEF Charges
<1> QED BY <1>2, <1>3, <1>5, <1>6, <1>9, <1>10 DEF out

(* Who has one of some statuses after the edit.                            *)
LEMMA EditSlots ==
  ASSUME NEW in, CapInput(in), NEW c \in DOMAIN in.rows, NEW st \in RosterStatuses, NEW statuses
  PROVE  Slotted(Edited(in, c, st), statuses) =
           (Slotted(in, statuses) \ {c}) \cup {d \in {c} : st \in statuses}
<1> DEFINE out == Edited(in, c, st)
<1>1. DOMAIN out.rows = DOMAIN in.rows /\ out.rows[c].status = st /\ \A d \in DOMAIN in.rows \ {c} : out.rows[d] = in.rows[d]
  BY EditKeepsHits
<1> HIDE DEF out
<1>2. Slotted(out, statuses) = (Slotted(in, statuses) \ {c}) \cup {d \in {c} : st \in statuses}
  BY <1>1 DEF Slotted
<1> QED BY <1>2 DEF out

(* What those cost who keep one of some statuses, get one or lose one.     *)
LEMMA EditHits ==
  ASSUME NEW in, CapInput(in), NEW c \in DOMAIN in.rows, NEW st \in RosterStatuses, NEW statuses
  PROVE  /\ (in.rows[c].status \in statuses <=> st \in statuses)
              => Slotted(Edited(in, c, st), statuses) = Slotted(in, statuses)
         /\ in.rows[c].status \in statuses /\ st \notin statuses
              => HitsOf(in, statuses) = Hits(in)[c] + HitsOf(Edited(in, c, st), statuses)
<1> DEFINE out == Edited(in, c, st)
           S == Slotted(in, statuses)
           T == Slotted(out, statuses)
<1>1. T = (S \ {c}) \cup {d \in {c} : st \in statuses} /\ (c \in S <=> in.rows[c].status \in statuses)
  BY EditSlots DEF Slotted
<1>2. IsFiniteSet(S) /\ (\A d \in S : Hits(in)[d] \in Int) /\ Hits(out) = Hits(in)
  BY SlottedFinite, HitsNatural, EditKeepsHits
<1>3. ASSUME in.rows[c].status \in statuses, st \notin statuses
      PROVE  HitsOf(in, statuses) = Hits(in)[c] + HitsOf(out, statuses)
  <2>1. c \in S /\ T = S \ {c}
    BY <1>1, <1>3
  <2> DEFINE f == Hits(in)
  <2>2. SumFunctionOnSet(f, S) = f[c] + SumFunctionOnSet(f, S \ {c})
    <3> HIDE DEF f, S
    <3> QED BY <1>2, <2>1, SumWithout DEF f
  <2> QED BY <1>2, <2>1, <2>2 DEF HitsOf
<1>4. ASSUME in.rows[c].status \in statuses <=> st \in statuses PROVE T = S
  <2> HIDE DEF S, T
  <2> QED BY <1>1, <1>4
<1> QED BY <1>3, <1>4

(* Sending down a player who counted in full saves his hit and costs his   *)
(* buried charge.                                                          *)
LEMMA BuryingSaves ==
  ASSUME NEW in, CapInput(in), NEW c \in DOMAIN in.rows, NEW st \in BuriedStatuses, in.rows[c].status \in CountsInFull
  PROVE  Charge(Edited(in, c, st)) = Charge(in) - Hits(in)[c] + Charges(in)[c]
<1> DEFINE out == Edited(in, c, st)
           old == in.rows[c].status
<1>1. st \in RosterStatuses
  BY DEF RosterStatuses
<1>2. /\ CapInput(out) /\ Hits(out) = Hits(in) /\ Charges(out) = Charges(in)
      /\ out.obligations = in.obligations /\ out.ltirPool = in.ltirPool
  BY <1>1, EditKeepsHits
<1>3. /\ st \notin CountsAsActiveRoster \cup {"suspended"} /\ st \notin {"injured_reserve"} /\ st \notin {"ltir"}
      /\ old \notin BuriedStatuses /\ old \notin {"ltir"}
      /\ \/ old \in CountsAsActiveRoster \cup {"suspended"} /\ old \notin {"injured_reserve"}
         \/ old \in {"injured_reserve"} /\ old \notin CountsAsActiveRoster \cup {"suspended"}
  BY DEF CountsInFull, CountsAsActiveRoster, BuriedStatuses
<1>4. HitsOf(out, {"ltir"}) = HitsOf(in, {"ltir"})
  <2>1. Slotted(out, {"ltir"}) = Slotted(in, {"ltir"})
    BY <1>1, <1>3, EditHits
  <2> QED BY <1>2, <2>1 DEF HitsOf
<1>5. LtirRelief(out) = LtirRelief(in)
  BY <1>2, <1>4 DEF LtirRelief
<1>6. Owed(out, {"retained"}) = Owed(in, {"retained"}) /\ Owed(out, DeadKinds) = Owed(in, DeadKinds)
  BY <1>2 DEF Owed
<1>7. BuriedCapHit(out, Rules) = Charges(in)[c] + BuriedCapHit(in, Rules)
  <2> DEFINE S == Slotted(in, BuriedStatuses)
             f == Charges(in)
  <2>1. Slotted(out, BuriedStatuses) = S \cup {c} /\ c \notin S
    BY <1>1, <1>3, EditSlots DEF Slotted
  <2>2. IsFiniteSet(S) /\ (\A d \in S : f[d] \in Int) /\ f[c] \in Int
    BY SlottedFinite, HitsNatural
  <2>3. SumFunctionOnSet(f, S \cup {c}) = f[c] + SumFunctionOnSet(f, S)
    <3> HIDE DEF f, S
    <3> QED BY <2>1, <2>2, SumWith
  <2>4. BuriedCapHit(in, Rules) = SumFunctionOnSet(f, S)
    BY DEF BuriedCapHit, Charges
  <2>5. BuriedCapHit(out, Rules) = SumFunctionOnSet(Charges(out), Slotted(out, BuriedStatuses))
    BY DEF BuriedCapHit, Charges
  <2> QED BY <1>2, <2>1, <2>3, <2>4, <2>5
<1> DEFINE A(i) == ActiveRosterCapHit(i)
           I(i) == HitsOf(i, {"injured_reserve"})
<1>8. A(in) + I(in) = Hits(in)[c] + (A(out) + I(out))
  <2>1. Hits(in)[c] \in Int /\ A(in) \in Int /\ A(out) \in Int /\ I(in) \in Int /\ I(out) \in Int
    BY <1>2, HitsNatural, HitsOfNatural DEF ActiveRosterCapHit
  <2>2. CASE old \in CountsAsActiveRoster \cup {"suspended"} /\ old \notin {"injured_reserve"}
    <3>1. A(in) = Hits(in)[c] + A(out)
      BY <1>1, <1>3, <2>2, EditHits DEF ActiveRosterCapHit
    <3>2. Slotted(out, {"injured_reserve"}) = Slotted(in, {"injured_reserve"})
      BY <1>1, <1>3, <2>2, EditHits
    <3>3. I(out) = I(in)
      BY <1>2, <3>2 DEF HitsOf
    <3> HIDE DEF A, I
    <3> QED BY <2>1, <3>1, <3>3
  <2>3. CASE old \in {"injured_reserve"} /\ old \notin CountsAsActiveRoster \cup {"suspended"}
    <3>1. I(in) = Hits(in)[c] + I(out)
      BY <1>1, <1>3, <2>3, EditHits
    <3>2. Slotted(out, CountsAsActiveRoster \cup {"suspended"}) = Slotted(in, CountsAsActiveRoster \cup {"suspended"})
      BY <1>1, <1>3, <2>3, EditHits
    <3>3. A(out) = A(in)
      BY <1>2, <3>2 DEF ActiveRosterCapHit, HitsOf
    <3> HIDE DEF A, I
    <3> QED BY <2>1, <3>1, <3>3
  <2> QED BY <1>3, <2>2, <2>3
<1>9. ASSUME NEW i, CapInput(i)
      PROVE  InjuredReserveCapHit(i) = I(i) + HitsOf(i, {"ltir"})
  <2>1. {"injured_reserve"} \cap {"ltir"} = {} /\ {"injured_reserve", "ltir"} = {"injured_reserve"} \cup {"ltir"}
    OBVIOUS
  <2> QED BY <1>9, <2>1, HitsOfBoth DEF InjuredReserveCapHit
<1> DEFINE a == A(in)
           b == A(out)
           i == I(in)
           j == I(out)
           h == HitsOf(in, {"ltir"})
           u == BuriedCapHit(in, Rules)
           r == Owed(in, {"retained"})
           d == Owed(in, DeadKinds)
           l == LtirRelief(in)
           x == Hits(in)[c]
           y == Charges(in)[c]
<1>10. Charge(in) = a + (i + h) + u + r + d - l
  BY <1>9 DEF Charge, TotalCapCharge
<1>11. Charge(out) = b + (j + h) + (y + u) + r + d - l
  BY <1>2, <1>4, <1>5, <1>6, <1>7, <1>9 DEF Charge, TotalCapCharge
<1>12. a \in Int /\ b \in Int /\ i \in Int /\ j \in Int /\ h \in Int /\ x \in Int /\ y \in Int
  <2>1. a \in Nat /\ b \in Nat /\ i \in Nat /\ j \in Nat /\ h \in Nat
    BY <1>2, HitsOfNatural DEF ActiveRosterCapHit
  <2>2. x \in Nat /\ y \in Nat
    BY HitsNatural
  <2> QED BY <2>1, <2>2
<1>13. u \in Int /\ r \in Int /\ d \in Int /\ l \in Int
  <2>1. u \in Nat
    BY BuriedNatural
  <2>2. r \in Int /\ d \in Int
    BY OwedInteger
  <2>3. l \in Nat
    BY ReliefBounded
  <2> QED BY <2>1, <2>2, <2>3
<1>14. a + i = x + (b + j)
  BY <1>8
<1>15. Charge(out) = Charge(in) - x + y
  <2> HIDE DEF a, b, i, j, h, u, r, d, l, x, y
  <2> QED BY <1>10, <1>11, <1>12, <1>13, <1>14
<1> QED BY <1>15

(* Sending down a player who counted in full never raises the charge, for  *)
(* every roster and every rule set.                                        *)
THEOREM BuryingNeverRaises == Spec => BuryingNeverRaisesCharge
<1>1. CapInput(input) /\ [Next]_input =>
        [\A c \in DOMAIN input.rows :
           input.rows[c].status \in CountsInFull /\ input'.rows[c].status \in BuriedStatuses
             => Charge(input') <= Charge(input)]_input
  <2> SUFFICES ASSUME CapInput(input), Next, NEW c \in DOMAIN input.rows,
                      input.rows[c].status \in CountsInFull, input'.rows[c].status \in BuriedStatuses
               PROVE  Charge(input') <= Charge(input)
    OBVIOUS
  <2>1. PICK d \in DOMAIN input.rows, st \in RosterStatuses : SetPlayerStatus(d, st)
    BY DEF Next
  <2>2. input' = Edited(input, d, st)
    BY <2>1 DEF SetPlayerStatus, Edited
  <2>3. input'.rows[d].status = st /\ \A e \in DOMAIN input.rows \ {d} : input'.rows[e] = input.rows[e]
    BY <2>2, EditKeepsHits
  <2>4. c = d /\ st \in BuriedStatuses
    BY <2>3 DEF CountsInFull, CountsAsActiveRoster, BuriedStatuses
  <2>5. Charge(input') = Charge(input) - Hits(input)[c] + Charges(input)[c]
    BY <2>2, <2>4, BuryingSaves
  <2>6. Hits(input)[c] \in Nat /\ Charges(input)[c] \in Nat /\ Charges(input)[c] <= Hits(input)[c]
    BY HitsNatural
  <2>7. Charge(input) \in Int
    BY ChargeInteger
  <2> DEFINE x == Hits(input)[c]
             y == Charges(input)[c]
             before == Charge(input)
             after == Charge(input')
  <2>8. after <= before
    <3>1. after = before - x + y /\ x \in Nat /\ y \in Nat /\ y <= x /\ before \in Int
      BY <2>5, <2>6, <2>7
    <3> HIDE DEF x, y, before, after
    <3> QED BY <3>1
  <2> QED BY <2>8
<1> QED BY <1>1, InputTyped, PTL DEF Spec, BuryingNeverRaisesCharge

=============================================================================
