-------------------------- MODULE Downstream_proofs --------------------------
(***************************************************************************)
(* The proofs about usage, determinants and charges: the charge that counts *)
(* is the one of the determinant that counts, what is eligible for export   *)
(* is measured, revisions form one chain, and a rate is never lost.         *)
(*                                                                         *)
(* First the sum of a period, then what one calculation returns, then what  *)
(* it does to a chain of revisions, and last the inductive invariant: the   *)
(* determinants and charges of a period are a Ledger, and a correction that *)
(* holds the lock on the usage row will leave one when it commits.          *)
(***************************************************************************)
EXTENDS Downstream, FiniteSetTheorems, SequenceTheorems, WellFoundedInduction, TLAPS

--------------------------------------------------------------------------------
(* The sum of a period.  MapThenSumSet is a function defined by recursion over *)
(* the subsets; that there is one, and that it is a number, is shown with a    *)
(* smallest counterexample.                                                    *)

(* A non-empty set of numbers has a least one.                                 *)
LEMMA Least ==
    ASSUME NEW T \in SUBSET Nat, T # {}
    PROVE  \E n \in T : \A m \in T : n <= m
<1>1. PICK n \in T : \A m \in T : ~ (<<m, n>> \in OpToRel(<, Nat))
    BY NatLessThanWellFounded, WFMin
<1>2. \A m \in T : ~ (m < n)
    BY <1>1 DEF OpToRel
<1>. QED  BY <1>2

Sums(w, S, g) ==
    /\ DOMAIN g = S
    /\ \A s \in S : g[s] = IF s = {} THEN 0
                         ELSE w[CHOOSE x \in s : TRUE] + g[s \ {CHOOSE x \in s : TRUE}]

Small(S, n) == {s \in SUBSET S : Cardinality(s) <= n}

LEMMA OneLess ==
    ASSUME NEW S, IsFiniteSet(S), NEW n \in Nat, NEW s \in Small(S, n + 1), s # {}
    PROVE  /\ (CHOOSE x \in s : TRUE) \in s
           /\ s \ {CHOOSE x \in s : TRUE} \in Small(S, n)
<1>1. PICK e : e = CHOOSE x \in s : TRUE
    OBVIOUS
<1>2. e \in s
    BY <1>1
<1>3. IsFiniteSet(s) /\ Cardinality(s) \in Nat
    BY FS_Subset, FS_CardinalityType DEF Small
<1>4. Cardinality(s \ {e}) = Cardinality(s) - 1
    BY <1>2, <1>3, FS_RemoveElement
<1>. QED  BY <1>1, <1>2, <1>3, <1>4 DEF Small

LEMMA SumsExist ==
    ASSUME NEW S, IsFiniteSet(S), NEW w \in [S -> Nat]
    PROVE  \E g : Sums(w, SUBSET S, g) /\ \A s \in SUBSET S : g[s] \in Nat
<1>. DEFINE Good(n) == \E g : Sums(w, Small(S, n), g) /\ \A s \in Small(S, n) : g[s] \in Nat
            Bad == {n \in Nat : ~ Good(n)}
<1>1. Good(0)
    <2>. DEFINE g == [s \in Small(S, 0) |-> 0]
    <2>1. \A s \in Small(S, 0) : s = {}
        <3>. SUFFICES ASSUME NEW s \in Small(S, 0) PROVE s = {}
            OBVIOUS
        <3>. QED  BY FS_Subset, FS_CardinalityType, FS_EmptySet DEF Small
    <2>2. Sums(w, Small(S, 0), g)
        BY <2>1 DEF Sums
    <2>3. \A s \in Small(S, 0) : g[s] \in Nat
        OBVIOUS
    <2>. HIDE DEF g
    <2>. QED  BY <2>2, <2>3
<1>2. ASSUME NEW n \in Nat, Good(n) PROVE Good(n + 1)
    <2>1. PICK g : Sums(w, Small(S, n), g) /\ \A s \in Small(S, n) : g[s] \in Nat
        BY <1>2
    <2>. DEFINE h == [s \in Small(S, n + 1) |->
                        IF s = {} THEN 0
                        ELSE w[CHOOSE x \in s : TRUE] + g[s \ {CHOOSE x \in s : TRUE}]]
    <2>2. ASSUME NEW s \in Small(S, n) PROVE s \in Small(S, n + 1) /\ h[s] = g[s]
        <3>1. s \in Small(S, n + 1)
            BY FS_Subset, FS_CardinalityType DEF Small
        <3>. QED  BY <2>1, <3>1 DEF Sums
    <2>3. ASSUME NEW s \in Small(S, n + 1)
          PROVE  /\ h[s] \in Nat
                 /\ h[s] = IF s = {} THEN 0
                           ELSE w[CHOOSE x \in s : TRUE] + h[s \ {CHOOSE x \in s : TRUE}]
        <3>1. CASE s = {}
            BY <3>1
        <3>2. CASE s # {}
            <4>1. PICK e : e = CHOOSE x \in s : TRUE
                OBVIOUS
            <4>2. e \in s /\ e \in S /\ s \ {e} \in Small(S, n)
                BY <3>2, <4>1, OneLess DEF Small
            <4>3. h[s] = w[e] + g[s \ {e}]
                BY <3>2, <4>1
            <4>4. w[e] \in Nat /\ g[s \ {e}] \in Nat /\ h[s \ {e}] = g[s \ {e}]
                BY <2>1, <2>2, <4>2
            <4>. HIDE DEF h
            <4>. QED  BY <3>2, <4>1, <4>3, <4>4
        <3>. QED  BY <3>1, <3>2
    <2>4. DOMAIN h = Small(S, n + 1)
        OBVIOUS
    <2>. HIDE DEF h
    <2>5. Sums(w, Small(S, n + 1), h)
        BY <2>3, <2>4 DEF Sums
    <2>. QED  BY <2>3, <2>5
<1>. HIDE DEF Good
<1>3. ASSUME Bad # {} PROVE FALSE
    <2>1. PICK n \in Bad : \A m \in Bad : n <= m
        BY <1>3, Least
    <2>2. n # 0 /\ n \in Nat
        BY <1>1, <2>1
    <2>3. n - 1 \in Nat /\ n - 1 \notin Bad
        BY <2>1, <2>2
    <2>4. Good((n - 1) + 1)
        BY <1>2, <2>3
    <2>. QED  BY <2>1, <2>2, <2>4
<1>4. Cardinality(S) \in Nat /\ SUBSET S = Small(S, Cardinality(S))
    BY FS_Subset, FS_CardinalityType DEF Small
<1>5. Good(Cardinality(S))
    BY <1>3, <1>4
<1>. QED  BY <1>4, <1>5 DEF Good

(* Any of them is a number everywhere. *)
LEMMA SumsAreNumbers ==
    ASSUME NEW S, IsFiniteSet(S), NEW w \in [S -> Nat], NEW g, Sums(w, SUBSET S, g)
    PROVE  g[S] \in Nat
<1>. DEFINE Bad == {n \in Nat : \E s \in SUBSET S : Cardinality(s) = n /\ g[s] \notin Nat}
<1>1. ASSUME Bad # {} PROVE FALSE
    <2>1. PICK n \in Bad : \A m \in Bad : n <= m
        BY <1>1, Least
    <2>2. PICK s \in SUBSET S : Cardinality(s) = n /\ g[s] \notin Nat
        BY <2>1
    <2>3. s # {}
        BY <2>2 DEF Sums
    <2>4. PICK e : e = CHOOSE x \in s : TRUE
        OBVIOUS
    <2>5. e \in s /\ e \in S /\ s \ {e} \in SUBSET S /\ IsFiniteSet(s)
        BY <2>3, <2>4, FS_Subset
    <2>6. g[s] = w[e] + g[s \ {e}]
        BY <2>2, <2>3, <2>4 DEF Sums
    <2>7. g[s \ {e}] \notin Nat
        BY <2>2, <2>5, <2>6
    <2>8. Cardinality(s \ {e}) = n - 1 /\ n - 1 \in Nat
        <3>1. IsFiniteSet(s \ {e}) /\ Cardinality(s \ {e}) = Cardinality(s) - 1
            BY <2>5, FS_RemoveElement
        <3>2. Cardinality(s \ {e}) \in Nat
            BY <3>1, FS_CardinalityType
        <3>. QED  BY <2>2, <3>1, <3>2
    <2>9. n - 1 \in Bad
        BY <2>5, <2>7, <2>8
    <2>. QED  BY <2>1, <2>8, <2>9
<1>2. Cardinality(S) \in Nat
    BY FS_CardinalityType
<1>. QED  BY <1>1, <1>2

LEMMA TotalIsNumber ==
    ASSUME NEW S \in SUBSET Measurements, NEW f, \A m \in S : f[m] \in Readings
    PROVE  Total(f, S) \in Nat
<1>. DEFINE Body(g) == [s \in SUBSET S |->
                        IF s = {} THEN 0
                        ELSE LET x == CHOOSE x \in s : TRUE IN Amount[f[x]] + g[s \ {x}]]
            w == [i \in S |-> Amount[f[i]]]
<1>1. Total(f, S) = (CHOOSE g : g = Body(g))[S]
    BY DEF Total, MapThenSumSet, MapThenFoldSet
<1>2. w \in [S -> Nat] /\ IsFiniteSet(S)
    BY DownstreamAssumption, FS_Subset
<1>3. PICK h : Sums(w, SUBSET S, h) /\ \A s \in SUBSET S : h[s] \in Nat
    BY <1>2, SumsExist
<1>4. PICK k : k = [s \in SUBSET S |-> h[s]]
    OBVIOUS
<1>5. k = Body(k)
    <2>1. ASSUME NEW s \in SUBSET S PROVE k[s] = Body(k)[s]
        <3>1. CASE s = {}
            BY <1>3, <1>4, <3>1 DEF Sums
        <3>2. CASE s # {}
            <4>1. PICK x : x = CHOOSE e \in s : TRUE
                OBVIOUS
            <4>2. x \in S /\ s \ {x} \in SUBSET S
                BY <3>2, <4>1
            <4>3. h[s] = w[x] + h[s \ {x}]
                BY <1>3, <3>2, <4>1 DEF Sums
            <4>4. Body(k)[s] = Amount[f[x]] + k[s \ {x}]
                BY <3>2, <4>1
            <4>. QED  BY <1>4, <4>2, <4>3, <4>4
        <3>. QED  BY <3>1, <3>2
    <2>. QED  BY <1>4, <2>1
<1>6. PICK g : g = (CHOOSE k1 : k1 = Body(k1)) /\ g = Body(g)
    <2>. HIDE DEF Body
    <2>1. (CHOOSE k1 : k1 = Body(k1)) = Body(CHOOSE k1 : k1 = Body(k1))
        BY <1>5, Zenon
    <2>. QED  BY <2>1
<1>7. Sums(w, SUBSET S, g)
    <2>1. DOMAIN g = SUBSET S
        BY <1>6
    <2>2. ASSUME NEW s \in SUBSET S
          PROVE g[s] = IF s = {} THEN 0
                       ELSE w[CHOOSE x \in s : TRUE] + g[s \ {CHOOSE x \in s : TRUE}]
        <3>1. g[s] = Body(g)[s]
            BY <1>6
        <3>. QED  BY <3>1
    <2>. QED  BY <2>1, <2>2 DEF Sums
<1>8. g[S] \in Nat
    BY <1>2, <1>7, SumsAreNumbers
<1>. QED  BY <1>1, <1>6, <1>8

--------------------------------------------------------------------------------
(* Usage, determinant and charge of a period. *)

Finals == [Measurements -> Readings \cup {None}]

LEMMA MoreIsEnough ==
    ASSUME NEW B, IsFiniteSet(B), NEW A \in SUBSET B, Enough(A)
    PROVE  Enough(B)
<1>1. Cardinality(A) <= Cardinality(B) /\ Cardinality(A) \in Nat /\ Cardinality(B) \in Nat
    BY FS_Subset, FS_CardinalityType
<1>2. Cardinality(Intervals) \in Nat
    BY DownstreamAssumption, FS_CardinalityType
<1>. QED  BY <1>1, <1>2 DEF Enough

LEMMA FoundIsFinite ==
    ASSUME NEW f, NEW m
    PROVE  IsFiniteSet(Found(f)) /\ IsFiniteSet(Found(f) \cup {m})
<1>1. IsFiniteSet(Found(f))
    BY DownstreamAssumption, FS_Subset DEF Found
<1>. QED  BY <1>1, FS_AddElement

LEMMA UsageOfFinals ==
    ASSUME NEW f \in Finals, Found(f) # {}
    PROVE  /\ UsageOf(f) \in UsageType
           /\ UsageOf(f).status = "complete" => Enough(Found(f))
<1>. DEFINE found == Found(f)
            missing == Missing(found)
            units == {Unit[f[m]] : m \in found}
            u == CHOOSE u \in units : TRUE
<1>1. \A m \in found : f[m] \in Readings
    BY DEF Finals, Found
<1>2. Total(f, found) \in Nat
    BY <1>1, TotalIsNumber DEF Found
<1>3. Cardinality(Intervals) \in Nat /\ Cardinality(found) \in Nat
    BY DownstreamAssumption, FS_CardinalityType, FoundIsFinite
<1>4. missing \in 0..Cardinality(Intervals) /\ (~ missing > 0 => Enough(found))
    BY <1>3 DEF Missing, Enough
<1>5. u \in units /\ units \subseteq {Unit[v] : v \in Readings}
    BY <1>1
<1>6. UsageOf(f) =
        IF Cardinality(units) # 1
        THEN [[sum |-> 0, unit |-> u, missing |-> 0, quality |-> "blocked_mixed_uom",
               status |-> "blocked"] EXCEPT !.unit = None]
        ELSE IF missing > 0
             THEN [sum |-> Total(f, found), unit |-> u, missing |-> missing,
                   quality |-> "missing_intervals", status |-> "partial"]
        ELSE IF \E m \in found : f[m] \in Estimated
             THEN [sum |-> Total(f, found), unit |-> u, missing |-> 0,
                   quality |-> "mixed_quality", status |-> "partial"]
        ELSE [sum |-> Total(f, found), unit |-> u, missing |-> 0,
              quality |-> "all_finalized", status |-> "complete"]
    BY DEF UsageOf
<1>7. UsageOf(f).status = "complete" => Enough(found)
    <2>. HIDE DEF found, missing, units, u
    <2>. QED  BY <1>4, <1>6
<1>8. UsageOf(f) \in UsageType
    <2>. HIDE DEF found, missing, units, u
    <2>. QED  BY <1>2, <1>3, <1>4, <1>5, <1>6 DEF UsageType, UsageQualities, Statuses
<1>. QED  BY <1>7, <1>8

LEMMA BillFields ==
    ASSUME NEW q \in Nat, NEW st \in Statuses, NEW ql \in Qualities
    PROVE  /\ Bill(q, st, ql) \in BillRow
           /\ Bill(q, st, ql).quantity = q /\ Bill(q, st, ql).status = st
           /\ Bill(q, st, ql).quality = ql
BY DEF Bill, BillRow

LEMMA DeterminantOfUsage ==
    ASSUME NEW u \in UsageType, NEW c \in Contexts \cup {None}
    PROVE  /\ DeterminantOf(u, c) \in DeterminantRow
           /\ DeterminantOf(u, c).bill.status = "complete" => u.status = "complete"
<1>1. u.sum \in Nat /\ u.status \in Statuses /\ u.quality \in Qualities
      /\ u.unit \in {Unit[v] : v \in Readings} \cup {None} /\ "blocked" \in Statuses
    BY DEF UsageType, UsageQualities, Qualities, Statuses
<1>. /\ "blocked_missing_billing_context" \in Qualities
     /\ "blocked_unsupported_billing_cycle_mode" \in Qualities
    BY DEF Qualities
<1>2. CASE c = None
    <2>1. PICK b \in BillRow : b = Bill(u.sum, "blocked", "blocked_missing_billing_context")
                               /\ b.status = "blocked"
        BY <1>1, BillFields
    <2>2. DeterminantOf(u, c) = [bill |-> b, unit |-> u.unit, zone |-> UsageZone, currency |-> None]
        BY <1>2, <2>1 DEF DeterminantOf
    <2>. QED  BY <1>1, <2>1, <2>2 DEF DeterminantRow
<1>3. CASE c # None /\ c \notin Calendar
    <2>1. PICK b \in BillRow : b = Bill(u.sum, "blocked", "blocked_unsupported_billing_cycle_mode")
                               /\ b.status = "blocked"
        BY <1>1, BillFields
    <2>2. DeterminantOf(u, c) =
             [bill |-> b, unit |-> u.unit, zone |-> UsageZone, currency |-> Currency[c]]
        BY <1>3, <2>1 DEF DeterminantOf
    <2>. QED  BY <1>1, <1>3, <2>1, <2>2 DEF DeterminantRow
<1>4. CASE c # None /\ c \in Calendar
    <2>1. PICK b \in BillRow : b = Bill(u.sum, u.status, u.quality) /\ b.status = u.status
        BY <1>1, BillFields
    <2>2. DeterminantOf(u, c) =
             [bill |-> b, unit |-> u.unit, zone |-> Zone[c], currency |-> Currency[c]]
        BY <1>4, <2>1 DEF DeterminantOf
    <2>. QED  BY <1>1, <1>4, <2>1, <2>2 DEF DeterminantRow
<1>. QED  BY <1>2, <1>3, <1>4

LEMMA ChargeOfDeterminant ==
    ASSUME NEW dets \in Seq(DeterminantRow), NEW n \in DOMAIN dets, NEW rate \in {Rate, None},
           NEW assigned \in BOOLEAN
    PROVE  LET c == ChargeOf(dets, n, rate, assigned) IN
           /\ c \in ChargeRow
           /\ c.determinant = n /\ c.rate = rate
           /\ c.bill.quantity = dets[n].bill.quantity
           /\ c.bill.status = "complete" =>
                 /\ dets[n].bill.status = "complete"
                 /\ c.assigned /\ c.rate # None /\ c.currency # None
<1>1. PICK d \in DeterminantRow : d = dets[n] /\ n \in Nat
    OBVIOUS
<1>2. PICK q \in Nat, st \in Statuses, ql \in Qualities :
          d.bill.quantity = q /\ d.bill.status = st /\ d.bill.quality = ql
    BY DEF DeterminantRow, BillRow
<1>3. PICK b \in BillRow :
         /\ ChargeOf(dets, n, rate, assigned) =
               [determinant |-> n, assigned |-> assigned, rate |-> rate,
                currency |-> d.currency, bill |-> b]
         /\ b.quantity = q
         /\ b.status = "complete" =>
               st = "complete" /\ assigned /\ rate # None /\ d.currency # None
    <2>. DEFINE why == IF st = "blocked" THEN "blocked_source_determinant"
                       ELSE IF ~ assigned THEN "blocked_missing_tariff_assignment"
                       ELSE IF rate = None THEN "blocked_missing_tariff_rate"
                       ELSE "blocked_missing_currency_code"
                stops == st = "blocked" \/ ~ assigned \/ rate = None \/ d.currency = None
                b == IF stops THEN Bill(q, "blocked", why) ELSE Bill(q, st, ql)
    <2>1. why \in Qualities /\ "blocked" \in Statuses
        BY DEF Statuses, Qualities
    <2>2. b \in BillRow /\ b.quantity = q /\ b.status = (IF stops THEN "blocked" ELSE st)
        <3>. HIDE DEF why, stops
        <3>. QED  BY <2>1, BillFields
    <2>3. ChargeOf(dets, n, rate, assigned) =
               [determinant |-> n, assigned |-> assigned, rate |-> rate,
                currency |-> d.currency, bill |-> b]
        BY <1>1, <1>2 DEF ChargeOf
    <2>4. b.status = "complete" =>
               st = "complete" /\ assigned /\ rate # None /\ d.currency # None
        <3>. HIDE DEF b
        <3>. QED  BY <2>2
    <2>. HIDE DEF b
    <2>. QED  BY <2>2, <2>3, <2>4
<1>4. d.currency \in {Currency[c] : c \in Contexts} \cup {None}
    BY DEF DeterminantRow
<1>. QED  BY <1>1, <1>2, <1>3, <1>4 DEF ChargeRow

--------------------------------------------------------------------------------
(* Chains of revisions. *)

KeptDeterminant(r, s) ==
    /\ Says(s) = Says(r) /\ s.bill.revision = r.bill.revision
    /\ s.bill.supersedes = r.bill.supersedes
    /\ s.unit = r.unit /\ s.zone = r.zone

KeptCharge(r, s) ==
    /\ Says(s) = Says(r) /\ s.bill.revision = r.bill.revision
    /\ s.bill.supersedes = r.bill.supersedes
    /\ s.determinant = r.determinant /\ s.assigned = r.assigned /\ s.rate = r.rate
    /\ s.currency = r.currency

DeterminantRows(rows) == rows \in Seq(DeterminantRow) /\ DeterminantChain(rows)

(* The rows when the last one has been superseded. *)
HistoryDeterminant(rows, old) ==
    /\ old \in Seq(DeterminantRow) /\ Len(old) = Len(rows)
    /\ \A n \in 1..Len(rows) :
          old[n] \in DeterminantRow /\ KeptDeterminant(rows[n], old[n]) /\ ~ old[n].bill.current

(* The rows when r has been added. *)
ExtendedDeterminant(rows, new, r) ==
    /\ DeterminantRows(new) /\ Len(new) = Len(rows) + 1 /\ Last(new) = r
    /\ \A n \in DOMAIN rows : KeptDeterminant(rows[n], new[n])

PlacedAtDeterminant(p, payload, rev, sup) ==
    /\ p \in DeterminantRow /\ p.bill.current /\ p.bill.revision = rev /\ p.bill.supersedes = sup
    /\ p # None /\ SameDeterminant(p, payload) /\ p.currency = payload.currency
    /\ \A r : SameDeterminant(r, p) <=> SameDeterminant(r, payload)

(* The rows after a calculation of payload. *)
SuccessorDeterminant(rows, change, new, payload) ==
    /\ change \in [old : Nat, new : DeterminantRow \cup {None}]
    /\ DeterminantRows(new) /\ Len(new) > 0 /\ Len(new) >= Len(rows)
    /\ \A n \in DOMAIN rows : KeptDeterminant(rows[n], new[n])
    /\ SameDeterminant(Last(new), payload)
    /\ new = rows \/ (Len(new) = Len(rows) + 1 /\ Last(new).currency = payload.currency)

(* A row that is superseded keeps everything but its being current. *)
LEMMA SupersededDeterminantRow ==
    ASSUME NEW r \in DeterminantRow
    PROVE  LET s == Superseded(r) IN
           /\ s \in DeterminantRow /\ ~ s.bill.current /\ KeptDeterminant(r, s)
<1>1. PICK b \in BillRow : b = [r.bill EXCEPT !.current = FALSE]
          /\ ~ b.current /\ b.quantity = r.bill.quantity /\ b.status = r.bill.status
          /\ b.quality = r.bill.quality /\ b.revision = r.bill.revision
          /\ b.supersedes = r.bill.supersedes
    <2>1. r.bill \in BillRow
        BY DEF DeterminantRow
    <2>2. [r.bill EXCEPT !.current = FALSE] \in BillRow
        BY <2>1 DEF BillRow
    <2>. QED  BY <2>1, <2>2 DEF BillRow
<1>2. Superseded(r) = [r EXCEPT !.bill = b]
    BY <1>1 DEF Superseded, DeterminantRow, BillRow
<1>3. [r EXCEPT !.bill = b] \in DeterminantRow /\ [r EXCEPT !.bill = b].bill = b
      /\ [r EXCEPT !.bill = b].unit = r.unit /\ [r EXCEPT !.bill = b].zone = r.zone /\ [r EXCEPT !.bill = b].currency = r.currency
    BY DEF DeterminantRow
<1>. QED  BY <1>1, <1>2, <1>3 DEF KeptDeterminant, Says

(* The rows when the last one is superseded. *)
LEMMA HistoryDeterminants ==
    ASSUME NEW rows \in Seq(DeterminantRow), DeterminantChain(rows), Len(rows) > 0,
           NEW old, old = [rows EXCEPT ![Len(rows)] = Superseded(@)]
    PROVE  HistoryDeterminant(rows, old)
<1>1. PICK k \in 1..Len(rows) : k = Len(rows)
    OBVIOUS
<1>2. PICK s \in DeterminantRow : s = Superseded(rows[k]) /\ ~ s.bill.current /\ KeptDeterminant(rows[k], s)
    BY <1>1, SupersededDeterminantRow
<1>3. old = [rows EXCEPT ![k] = s]
    BY <1>1, <1>2
<1>4. old \in Seq(DeterminantRow) /\ Len(old) = Len(rows)
    BY <1>2, <1>3
<1>5. ASSUME NEW n \in 1..Len(rows)
      PROVE  old[n] \in DeterminantRow /\ KeptDeterminant(rows[n], old[n]) /\ ~ old[n].bill.current
    <2>1. CASE n = k
        BY <1>2, <1>3, <2>1
    <2>2. CASE n # k
        <3>1. old[n] = rows[n] /\ rows[n] \in DeterminantRow
            BY <1>3, <2>2
        <3>2. ~ rows[n].bill.current
            BY <1>1, <2>2 DEF DeterminantChain, Chain
        <3>. QED  BY <3>1, <3>2 DEF KeptDeterminant
    <2>. QED  BY <2>1, <2>2
<1>. QED  BY <1>4, <1>5 DEF HistoryDeterminant

(* The rows, with a revision after them. *)
LEMMA GrownDeterminants ==
    ASSUME NEW rows, DeterminantRows(rows), NEW old, HistoryDeterminant(rows, old),
           NEW r \in DeterminantRow, r.bill.current, r.bill.revision = Len(rows) + 1,
           r.bill.supersedes = Len(rows), Len(rows) > 0 => ~ SameDeterminant(Last(rows), r),
           NEW new, new = Append(old, r)
    PROVE  ExtendedDeterminant(rows, new, r)
<1>1. PICK k \in Nat : k = Len(rows)
    BY DEF DeterminantRows
<1>2. old \in Seq(DeterminantRow) /\ Len(old) = k
    BY <1>1 DEF HistoryDeterminant
<1>3. /\ new \in Seq(DeterminantRow) /\ Len(new) = k + 1
      /\ new[k + 1] = r /\ \A n \in 1..k : new[n] = old[n]
    BY <1>1, <1>2
<1>4. ASSUME NEW n \in 1..k
      PROVE  /\ KeptDeterminant(rows[n], new[n]) /\ ~ new[n].bill.current
             /\ rows[n].bill.revision = n /\ rows[n].bill.supersedes = n - 1
             /\ n > 1 => ~ SameDeterminant(rows[n - 1], rows[n])
    <2>1. KeptDeterminant(rows[n], new[n]) /\ ~ new[n].bill.current
        BY <1>1, <1>3 DEF HistoryDeterminant
    <2>2. /\ rows[n].bill.revision = n /\ rows[n].bill.supersedes = n - 1
          /\ n > 1 => ~ SameDeterminant(rows[n - 1], rows[n])
        BY <1>1 DEF DeterminantRows, DeterminantChain, Chain
    <2>. QED  BY <2>1, <2>2
<1>5. ASSUME NEW n \in 1..(k + 1)
      PROVE  /\ new[n].bill.revision = n /\ new[n].bill.supersedes = n - 1
             /\ new[n].bill.current <=> n = k + 1
             /\ n > 1 => ~ SameDeterminant(new[n - 1], new[n])
    <2>1. CASE n = k + 1
        <3>1. new[n].bill.revision = n /\ new[n].bill.supersedes = n - 1 /\ new[n].bill.current
            BY <1>1, <1>3, <2>1
        <3>2. ASSUME n > 1 PROVE ~ SameDeterminant(new[k], r)
            <4>1. k \in 1..k /\ k > 0
                BY <2>1, <3>2
            <4>2. ~ SameDeterminant(rows[k], r)
                BY <1>1, <4>1 DEF Last
            <4>. QED  BY <1>4, <4>1, <4>2 DEF KeptDeterminant, SameDeterminant
        <3>. QED  BY <1>3, <2>1, <3>1, <3>2
    <2>2. CASE n # k + 1
        <3>1. n \in 1..k /\ (n > 1 => n - 1 \in 1..k)
            BY <2>2
        <3>2. new[n].bill.revision = n /\ new[n].bill.supersedes = n - 1 /\ ~ new[n].bill.current
            BY <1>4, <3>1 DEF KeptDeterminant
        <3>3. n > 1 => ~ SameDeterminant(new[n - 1], new[n])
            BY <1>4, <3>1 DEF KeptDeterminant, SameDeterminant
        <3>. QED  BY <2>2, <3>2, <3>3
    <2>. QED  BY <2>1, <2>2
<1>6. DeterminantChain(new)
    BY <1>3, <1>5 DEF DeterminantChain, Chain
<1>. QED  BY <1>1, <1>3, <1>4, <1>6 DEF ExtendedDeterminant, DeterminantRows, Last

LEMMA PlacedDeterminant ==
    ASSUME NEW payload \in DeterminantRow, NEW rev \in Nat, NEW sup \in Nat,
           NEW p, p = Placed(payload, rev, sup)
    PROVE  PlacedAtDeterminant(p, payload, rev, sup)
<1>1. PICK b \in BillRow :
         /\ b = [payload.bill EXCEPT !.current = TRUE, !.revision = rev, !.supersedes = sup]
         /\ b.current /\ b.revision = rev /\ b.supersedes = sup
         /\ b.quantity = payload.bill.quantity /\ b.status = payload.bill.status
         /\ b.quality = payload.bill.quality
    <2>1. payload.bill \in BillRow
        BY DEF DeterminantRow
    <2>2. [payload.bill EXCEPT !.current = TRUE, !.revision = rev, !.supersedes = sup] \in BillRow
        BY <2>1 DEF BillRow
    <2>. QED  BY <2>1, <2>2 DEF BillRow
<1>2. p = [payload EXCEPT !.bill = b]
    BY <1>1 DEF Placed, DeterminantRow
<1>3. p \in DeterminantRow /\ p.bill = b /\ p.unit = payload.unit /\ p.zone = payload.zone /\ p.currency = payload.currency
    BY <1>2 DEF DeterminantRow
<1>4. p # None
    BY <1>3, NoneIsNoRow
<1>5. Says(p) = Says(payload)
    BY <1>1, <1>3 DEF Says
<1>6. SameDeterminant(p, payload) /\ \A r : SameDeterminant(r, p) <=> SameDeterminant(r, payload)
    BY <1>3, <1>5 DEF SameDeterminant
<1>. QED  BY <1>1, <1>3, <1>4, <1>6 DEF PlacedAtDeterminant

(* A calculation that is compared with the current row, and its flush.        *)
LEMMA ChangedDeterminants ==
    ASSUME NEW rows, DeterminantRows(rows), NEW payload \in DeterminantRow,
           NEW same, \A n \in DOMAIN rows : n \in same <=> SameDeterminant(rows[n], payload),
           NEW change, change = Change(rows, payload, same),
           NEW new, new = Changed(rows, change)
    PROVE  SuccessorDeterminant(rows, change, new, payload)
<1>1. PICK k \in Nat : k = Len(rows)
    BY DEF DeterminantRows
<1>2. CurrentRows(rows) = IF k = 0 THEN {} ELSE {k}
    BY <1>1 DEF CurrentRows, DeterminantRows, DeterminantChain, Chain
<1>3. k > 0 => CurrentRow(rows) = k /\ k \in DOMAIN rows /\ rows[k].bill.revision = k
               /\ Last(rows) = rows[k]
    <2>1. k > 0 => k \in DOMAIN rows
        BY <1>1 DEF DeterminantRows
    <2>2. k > 0 => CurrentRow(rows) = k
        BY <1>2 DEF CurrentRow
    <2>3. k > 0 => rows[k].bill.revision = k
        BY <2>1 DEF DeterminantRows, DeterminantChain, Chain
    <2>. QED  BY <1>1, <2>1, <2>2, <2>3 DEF Last
<1>4. ASSUME NEW p, NEW old, HistoryDeterminant(rows, old), PlacedAtDeterminant(p, payload, k + 1, k),
             k > 0 => ~ SameDeterminant(rows[k], payload), change.old \in Nat,
             change = [old |-> change.old, new |-> p], new = Append(old, p)
      PROVE  SuccessorDeterminant(rows, change, new, payload)
    <2>1. /\ p \in DeterminantRow /\ p.bill.current /\ p.bill.revision = k + 1 /\ p.bill.supersedes = k
          /\ SameDeterminant(p, payload) /\ p.currency = payload.currency /\ (k > 0 => ~ SameDeterminant(rows[k], p))
        BY <1>4 DEF PlacedAtDeterminant
    <2>2. ExtendedDeterminant(rows, new, p)
        BY <1>1, <1>3, <1>4, <2>1, GrownDeterminants
    <2>3. change.new = p
        BY <1>4
    <2>4. /\ DeterminantRows(new) /\ Len(new) = k + 1 /\ Last(new) = p
          /\ \A n \in DOMAIN rows : KeptDeterminant(rows[n], new[n])
        BY <1>1, <2>2 DEF ExtendedDeterminant
    <2>5. change \in [old : Nat, new : DeterminantRow \cup {None}]
        BY <1>4, <2>1, <2>3
    <2>6. Len(new) > 0 /\ Len(new) >= Len(rows) /\ Len(new) = Len(rows) + 1
        BY <1>1, <2>4
    <2>7. SameDeterminant(Last(new), payload) /\ Last(new).currency = payload.currency
        BY <2>1, <2>4
    <2>. QED  BY <2>4, <2>5, <2>6, <2>7 DEF SuccessorDeterminant
<1>5. CASE k = 0
    <2>1. PICK p : p = Placed(payload, 1, 0)
        OBVIOUS
    <2>2. PlacedAtDeterminant(p, payload, k + 1, k) /\ p # None
        BY <1>5, <2>1, PlacedDeterminant DEF PlacedAtDeterminant
    <2>3. change = [old |-> 0, new |-> p]
        BY <1>2, <1>5, <2>1 DEF Change
    <2>4. change.old = 0 /\ change.new = p
        BY <2>3
    <2>5. new = Append(rows, p)
        BY <2>2, <2>4 DEF Changed
    <2>6. HistoryDeterminant(rows, rows)
        BY <1>1, <1>5 DEF HistoryDeterminant, DeterminantRows
    <2>. QED  BY <1>4, <1>5, <2>2, <2>3, <2>4, <2>5, <2>6
<1>6. CASE k > 0 /\ SameDeterminant(rows[k], payload)
    <2>1. change = NoChange
        BY <1>2, <1>3, <1>6 DEF Change
    <2>2. change.new = None /\ change.old = 0 /\ change \in [old : Nat, new : DeterminantRow \cup {None}]
        BY <2>1 DEF NoChange
    <2>3. new = rows
        BY <2>2 DEF Changed
    <2>4. \A n \in DOMAIN rows : KeptDeterminant(rows[n], rows[n])
        BY DEF KeptDeterminant
    <2>. QED  BY <1>1, <1>3, <1>6, <2>2, <2>3, <2>4 DEF SuccessorDeterminant
<1>7. CASE k > 0 /\ ~ SameDeterminant(rows[k], payload)
    <2>1. PICK p : p = Placed(payload, k + 1, k)
        OBVIOUS
    <2>2. PlacedAtDeterminant(p, payload, k + 1, k) /\ p # None
        BY <2>1, PlacedDeterminant DEF PlacedAtDeterminant
    <2>3. change = [old |-> k, new |-> p]
        BY <1>2, <1>3, <1>7, <2>1 DEF Change
    <2>4. change.old = k /\ change.new = p
        BY <2>3
    <2>5. PICK old : old = [rows EXCEPT ![k] = Superseded(rows[k])]
        OBVIOUS
    <2>6. new = Append(old, p)
        BY <1>7, <2>2, <2>4, <2>5 DEF Changed
    <2>7. HistoryDeterminant(rows, old)
        BY <1>1, <1>7, <2>5, HistoryDeterminants DEF DeterminantRows
    <2>. QED  BY <1>4, <1>7, <2>2, <2>3, <2>4, <2>6, <2>7
<1>. QED  BY <1>5, <1>6, <1>7

ChargeRows(rows) == rows \in Seq(ChargeRow) /\ ChargeChain(rows)

(* The rows when the last one has been superseded. *)
HistoryCharge(rows, old) ==
    /\ old \in Seq(ChargeRow) /\ Len(old) = Len(rows)
    /\ \A n \in 1..Len(rows) :
          old[n] \in ChargeRow /\ KeptCharge(rows[n], old[n]) /\ ~ old[n].bill.current

(* The rows when r has been added. *)
ExtendedCharge(rows, new, r) ==
    /\ ChargeRows(new) /\ Len(new) = Len(rows) + 1 /\ Last(new) = r
    /\ \A n \in DOMAIN rows : KeptCharge(rows[n], new[n])

PlacedAtCharge(p, payload, rev, sup) ==
    /\ p \in ChargeRow /\ p.bill.current /\ p.bill.revision = rev /\ p.bill.supersedes = sup
    /\ p # None /\ SameCharge(p, payload) /\ p.rate = payload.rate
    /\ \A r : SameCharge(r, p) <=> SameCharge(r, payload)

(* The rows after a calculation of payload. *)
SuccessorCharge(rows, change, new, payload) ==
    /\ change \in [old : Nat, new : ChargeRow \cup {None}]
    /\ ChargeRows(new) /\ Len(new) > 0 /\ Len(new) >= Len(rows)
    /\ \A n \in DOMAIN rows : KeptCharge(rows[n], new[n])
    /\ SameCharge(Last(new), payload)
    /\ new = rows \/ (Len(new) = Len(rows) + 1 /\ Last(new).rate = payload.rate)

(* A row that is superseded keeps everything but its being current. *)
LEMMA SupersededChargeRow ==
    ASSUME NEW r \in ChargeRow
    PROVE  LET s == Superseded(r) IN
           /\ s \in ChargeRow /\ ~ s.bill.current /\ KeptCharge(r, s)
<1>1. PICK b \in BillRow : b = [r.bill EXCEPT !.current = FALSE]
          /\ ~ b.current /\ b.quantity = r.bill.quantity /\ b.status = r.bill.status
          /\ b.quality = r.bill.quality /\ b.revision = r.bill.revision
          /\ b.supersedes = r.bill.supersedes
    <2>1. r.bill \in BillRow
        BY DEF ChargeRow
    <2>2. [r.bill EXCEPT !.current = FALSE] \in BillRow
        BY <2>1 DEF BillRow
    <2>. QED  BY <2>1, <2>2 DEF BillRow
<1>2. Superseded(r) = [r EXCEPT !.bill = b]
    BY <1>1 DEF Superseded, ChargeRow, BillRow
<1>3. [r EXCEPT !.bill = b] \in ChargeRow /\ [r EXCEPT !.bill = b].bill = b
      /\ [r EXCEPT !.bill = b].determinant = r.determinant /\ [r EXCEPT !.bill = b].assigned = r.assigned /\ [r EXCEPT !.bill = b].rate = r.rate /\ [r EXCEPT !.bill = b].currency = r.currency
    BY DEF ChargeRow
<1>. QED  BY <1>1, <1>2, <1>3 DEF KeptCharge, Says

(* The rows when the last one is superseded. *)
LEMMA HistoryCharges ==
    ASSUME NEW rows \in Seq(ChargeRow), ChargeChain(rows), Len(rows) > 0,
           NEW old, old = [rows EXCEPT ![Len(rows)] = Superseded(@)]
    PROVE  HistoryCharge(rows, old)
<1>1. PICK k \in 1..Len(rows) : k = Len(rows)
    OBVIOUS
<1>2. PICK s \in ChargeRow : s = Superseded(rows[k]) /\ ~ s.bill.current /\ KeptCharge(rows[k], s)
    BY <1>1, SupersededChargeRow
<1>3. old = [rows EXCEPT ![k] = s]
    BY <1>1, <1>2
<1>4. old \in Seq(ChargeRow) /\ Len(old) = Len(rows)
    BY <1>2, <1>3
<1>5. ASSUME NEW n \in 1..Len(rows)
      PROVE  old[n] \in ChargeRow /\ KeptCharge(rows[n], old[n]) /\ ~ old[n].bill.current
    <2>1. CASE n = k
        BY <1>2, <1>3, <2>1
    <2>2. CASE n # k
        <3>1. old[n] = rows[n] /\ rows[n] \in ChargeRow
            BY <1>3, <2>2
        <3>2. ~ rows[n].bill.current
            BY <1>1, <2>2 DEF ChargeChain, Chain
        <3>. QED  BY <3>1, <3>2 DEF KeptCharge
    <2>. QED  BY <2>1, <2>2
<1>. QED  BY <1>4, <1>5 DEF HistoryCharge

(* The rows, with a revision after them. *)
LEMMA GrownCharges ==
    ASSUME NEW rows, ChargeRows(rows), NEW old, HistoryCharge(rows, old),
           NEW r \in ChargeRow, r.bill.current, r.bill.revision = Len(rows) + 1,
           r.bill.supersedes = Len(rows), Len(rows) > 0 => ~ SameCharge(Last(rows), r),
           NEW new, new = Append(old, r)
    PROVE  ExtendedCharge(rows, new, r)
<1>1. PICK k \in Nat : k = Len(rows)
    BY DEF ChargeRows
<1>2. old \in Seq(ChargeRow) /\ Len(old) = k
    BY <1>1 DEF HistoryCharge
<1>3. /\ new \in Seq(ChargeRow) /\ Len(new) = k + 1
      /\ new[k + 1] = r /\ \A n \in 1..k : new[n] = old[n]
    BY <1>1, <1>2
<1>4. ASSUME NEW n \in 1..k
      PROVE  /\ KeptCharge(rows[n], new[n]) /\ ~ new[n].bill.current
             /\ rows[n].bill.revision = n /\ rows[n].bill.supersedes = n - 1
             /\ n > 1 => ~ SameCharge(rows[n - 1], rows[n])
    <2>1. KeptCharge(rows[n], new[n]) /\ ~ new[n].bill.current
        BY <1>1, <1>3 DEF HistoryCharge
    <2>2. /\ rows[n].bill.revision = n /\ rows[n].bill.supersedes = n - 1
          /\ n > 1 => ~ SameCharge(rows[n - 1], rows[n])
        BY <1>1 DEF ChargeRows, ChargeChain, Chain
    <2>. QED  BY <2>1, <2>2
<1>5. ASSUME NEW n \in 1..(k + 1)
      PROVE  /\ new[n].bill.revision = n /\ new[n].bill.supersedes = n - 1
             /\ new[n].bill.current <=> n = k + 1
             /\ n > 1 => ~ SameCharge(new[n - 1], new[n])
    <2>1. CASE n = k + 1
        <3>1. new[n].bill.revision = n /\ new[n].bill.supersedes = n - 1 /\ new[n].bill.current
            BY <1>1, <1>3, <2>1
        <3>2. ASSUME n > 1 PROVE ~ SameCharge(new[k], r)
            <4>1. k \in 1..k /\ k > 0
                BY <2>1, <3>2
            <4>2. ~ SameCharge(rows[k], r)
                BY <1>1, <4>1 DEF Last
            <4>. QED  BY <1>4, <4>1, <4>2 DEF KeptCharge, SameCharge
        <3>. QED  BY <1>3, <2>1, <3>1, <3>2
    <2>2. CASE n # k + 1
        <3>1. n \in 1..k /\ (n > 1 => n - 1 \in 1..k)
            BY <2>2
        <3>2. new[n].bill.revision = n /\ new[n].bill.supersedes = n - 1 /\ ~ new[n].bill.current
            BY <1>4, <3>1 DEF KeptCharge
        <3>3. n > 1 => ~ SameCharge(new[n - 1], new[n])
            BY <1>4, <3>1 DEF KeptCharge, SameCharge
        <3>. QED  BY <2>2, <3>2, <3>3
    <2>. QED  BY <2>1, <2>2
<1>6. ChargeChain(new)
    BY <1>3, <1>5 DEF ChargeChain, Chain
<1>. QED  BY <1>1, <1>3, <1>4, <1>6 DEF ExtendedCharge, ChargeRows, Last

LEMMA PlacedCharge ==
    ASSUME NEW payload \in ChargeRow, NEW rev \in Nat, NEW sup \in Nat,
           NEW p, p = Placed(payload, rev, sup)
    PROVE  PlacedAtCharge(p, payload, rev, sup)
<1>1. PICK b \in BillRow :
         /\ b = [payload.bill EXCEPT !.current = TRUE, !.revision = rev, !.supersedes = sup]
         /\ b.current /\ b.revision = rev /\ b.supersedes = sup
         /\ b.quantity = payload.bill.quantity /\ b.status = payload.bill.status
         /\ b.quality = payload.bill.quality
    <2>1. payload.bill \in BillRow
        BY DEF ChargeRow
    <2>2. [payload.bill EXCEPT !.current = TRUE, !.revision = rev, !.supersedes = sup] \in BillRow
        BY <2>1 DEF BillRow
    <2>. QED  BY <2>1, <2>2 DEF BillRow
<1>2. p = [payload EXCEPT !.bill = b]
    BY <1>1 DEF Placed, ChargeRow
<1>3. p \in ChargeRow /\ p.bill = b /\ p.determinant = payload.determinant /\ p.assigned = payload.assigned /\ p.rate = payload.rate /\ p.currency = payload.currency
    BY <1>2 DEF ChargeRow
<1>4. p # None
    BY <1>3, NoneIsNoRow
<1>5. Says(p) = Says(payload)
    BY <1>1, <1>3 DEF Says
<1>6. SameCharge(p, payload) /\ \A r : SameCharge(r, p) <=> SameCharge(r, payload)
    BY <1>3, <1>5 DEF SameCharge
<1>. QED  BY <1>1, <1>3, <1>4, <1>6 DEF PlacedAtCharge

(* A calculation that is compared with the current row, and its flush.        *)
LEMMA ChangedCharges ==
    ASSUME NEW rows, ChargeRows(rows), NEW payload \in ChargeRow,
           NEW same, \A n \in DOMAIN rows : n \in same <=> SameCharge(rows[n], payload),
           NEW change, change = Change(rows, payload, same),
           NEW new, new = Changed(rows, change)
    PROVE  SuccessorCharge(rows, change, new, payload)
<1>1. PICK k \in Nat : k = Len(rows)
    BY DEF ChargeRows
<1>2. CurrentRows(rows) = IF k = 0 THEN {} ELSE {k}
    BY <1>1 DEF CurrentRows, ChargeRows, ChargeChain, Chain
<1>3. k > 0 => CurrentRow(rows) = k /\ k \in DOMAIN rows /\ rows[k].bill.revision = k
               /\ Last(rows) = rows[k]
    <2>1. k > 0 => k \in DOMAIN rows
        BY <1>1 DEF ChargeRows
    <2>2. k > 0 => CurrentRow(rows) = k
        BY <1>2 DEF CurrentRow
    <2>3. k > 0 => rows[k].bill.revision = k
        BY <2>1 DEF ChargeRows, ChargeChain, Chain
    <2>. QED  BY <1>1, <2>1, <2>2, <2>3 DEF Last
<1>4. ASSUME NEW p, NEW old, HistoryCharge(rows, old), PlacedAtCharge(p, payload, k + 1, k),
             k > 0 => ~ SameCharge(rows[k], payload), change.old \in Nat,
             change = [old |-> change.old, new |-> p], new = Append(old, p)
      PROVE  SuccessorCharge(rows, change, new, payload)
    <2>1. /\ p \in ChargeRow /\ p.bill.current /\ p.bill.revision = k + 1 /\ p.bill.supersedes = k
          /\ SameCharge(p, payload) /\ p.rate = payload.rate /\ (k > 0 => ~ SameCharge(rows[k], p))
        BY <1>4 DEF PlacedAtCharge
    <2>2. ExtendedCharge(rows, new, p)
        BY <1>1, <1>3, <1>4, <2>1, GrownCharges
    <2>3. change.new = p
        BY <1>4
    <2>4. /\ ChargeRows(new) /\ Len(new) = k + 1 /\ Last(new) = p
          /\ \A n \in DOMAIN rows : KeptCharge(rows[n], new[n])
        BY <1>1, <2>2 DEF ExtendedCharge
    <2>5. change \in [old : Nat, new : ChargeRow \cup {None}]
        BY <1>4, <2>1, <2>3
    <2>6. Len(new) > 0 /\ Len(new) >= Len(rows) /\ Len(new) = Len(rows) + 1
        BY <1>1, <2>4
    <2>7. SameCharge(Last(new), payload) /\ Last(new).rate = payload.rate
        BY <2>1, <2>4
    <2>. QED  BY <2>4, <2>5, <2>6, <2>7 DEF SuccessorCharge
<1>5. CASE k = 0
    <2>1. PICK p : p = Placed(payload, 1, 0)
        OBVIOUS
    <2>2. PlacedAtCharge(p, payload, k + 1, k) /\ p # None
        BY <1>5, <2>1, PlacedCharge DEF PlacedAtCharge
    <2>3. change = [old |-> 0, new |-> p]
        BY <1>2, <1>5, <2>1 DEF Change
    <2>4. change.old = 0 /\ change.new = p
        BY <2>3
    <2>5. new = Append(rows, p)
        BY <2>2, <2>4 DEF Changed
    <2>6. HistoryCharge(rows, rows)
        BY <1>1, <1>5 DEF HistoryCharge, ChargeRows
    <2>. QED  BY <1>4, <1>5, <2>2, <2>3, <2>4, <2>5, <2>6
<1>6. CASE k > 0 /\ SameCharge(rows[k], payload)
    <2>1. change = NoChange
        BY <1>2, <1>3, <1>6 DEF Change
    <2>2. change.new = None /\ change.old = 0 /\ change \in [old : Nat, new : ChargeRow \cup {None}]
        BY <2>1 DEF NoChange
    <2>3. new = rows
        BY <2>2 DEF Changed
    <2>4. \A n \in DOMAIN rows : KeptCharge(rows[n], rows[n])
        BY DEF KeptCharge
    <2>. QED  BY <1>1, <1>3, <1>6, <2>2, <2>3, <2>4 DEF SuccessorCharge
<1>7. CASE k > 0 /\ ~ SameCharge(rows[k], payload)
    <2>1. PICK p : p = Placed(payload, k + 1, k)
        OBVIOUS
    <2>2. PlacedAtCharge(p, payload, k + 1, k) /\ p # None
        BY <2>1, PlacedCharge DEF PlacedAtCharge
    <2>3. change = [old |-> k, new |-> p]
        BY <1>2, <1>3, <1>7, <2>1 DEF Change
    <2>4. change.old = k /\ change.new = p
        BY <2>3
    <2>5. PICK old : old = [rows EXCEPT ![k] = Superseded(rows[k])]
        OBVIOUS
    <2>6. new = Append(old, p)
        BY <1>7, <2>2, <2>4, <2>5 DEF Changed
    <2>7. HistoryCharge(rows, old)
        BY <1>1, <1>7, <2>5, HistoryCharges DEF ChargeRows
    <2>. QED  BY <1>4, <1>7, <2>2, <2>3, <2>4, <2>6, <2>7
<1>. QED  BY <1>5, <1>6, <1>7

--------------------------------------------------------------------------------
(* What a correction calculates. *)

LEMMA LedgerRows ==
    ASSUME NEW dets, NEW chs, Ledger(dets, chs)
    PROVE  DeterminantRows(dets) /\ ChargeRows(chs)
BY DEF Ledger, DeterminantRows, ChargeRows

LEMMA RecalculateDeterminants ==
    ASSUME NEW dets, DeterminantRows(dets), NEW u \in UsageType, NEW c \in Contexts \cup {None},
           NEW change, change = Determined(dets, u, c), NEW new, new = Changed(dets, change)
    PROVE  SuccessorDeterminant(dets, change, new, DeterminantOf(u, c))
<1>1. PICK payload \in DeterminantRow : payload = DeterminantOf(u, c)
    BY DeterminantOfUsage
<1>2. PICK same : same = {n \in DOMAIN dets : SameDeterminant(dets[n], payload)}
    OBVIOUS
<1>3. \A n \in DOMAIN dets : n \in same <=> SameDeterminant(dets[n], payload)
    BY <1>2
<1>4. change = Change(dets, payload, same)
    BY <1>1, <1>2 DEF Determined
<1>. QED  BY <1>1, <1>3, <1>4, ChangedDeterminants

LEMMA RecalculateCharges ==
    ASSUME NEW chs, ChargeRows(chs), NEW dets, DeterminantRows(dets), Len(dets) > 0,
           NEW rate \in {Rate, None}, NEW assigned \in BOOLEAN,
           NEW change, change = Charged(chs, dets, rate, assigned),
           NEW new, new = Changed(chs, change)
    PROVE  \E payload \in ChargeRow :
              /\ SuccessorCharge(chs, change, new, payload)
              /\ payload.determinant = Len(dets) /\ payload.rate = rate
              /\ payload.bill.quantity = Last(dets).bill.quantity
              /\ payload.bill.status = "complete" =>
                    /\ Last(dets).bill.status = "complete"
                    /\ payload.assigned /\ payload.rate # None /\ payload.currency # None
<1>1. PICK k \in DOMAIN dets : k = Len(dets) /\ Last(dets) = dets[k] /\ dets \in Seq(DeterminantRow)
    BY DEF DeterminantRows, Last
<1>2. CurrentRow(dets) = k
    <2>1. CurrentRows(dets) = {k}
        BY <1>1 DEF CurrentRows, DeterminantRows, DeterminantChain, Chain
    <2>. QED  BY <2>1 DEF CurrentRow
<1>3. PICK payload : payload = ChargeOf(dets, k, rate, assigned)
    OBVIOUS
<1>4. /\ payload \in ChargeRow
      /\ payload.determinant = k /\ payload.rate = rate
      /\ payload.bill.quantity = dets[k].bill.quantity
      /\ payload.bill.status = "complete" =>
            /\ dets[k].bill.status = "complete"
            /\ payload.assigned /\ payload.rate # None /\ payload.currency # None
    BY <1>1, <1>3, ChargeOfDeterminant
<1>5. PICK same : same = {n \in DOMAIN chs : SameCharge(chs[n], payload)}
    OBVIOUS
<1>6. \A n \in DOMAIN chs : n \in same <=> SameCharge(chs[n], payload)
    BY <1>5
<1>7. change = Change(chs, payload, same)
    BY <1>2, <1>3, <1>5 DEF Charged
<1>8. SuccessorCharge(chs, change, new, payload)
    BY <1>4, <1>6, <1>7, ChangedCharges
<1>. QED  BY <1>1, <1>4, <1>8

(* A correction carries the ledger on, and pays only what is measured.        *)
LEMMA RecalculateLedger ==
    ASSUME NEW dets, NEW chs, Ledger(dets, chs),
           NEW u \in UsageType, NEW c \in Contexts \cup {None},
           NEW rate \in {Rate, None}, NEW assigned \in BOOLEAN,
           NEW dc, dc = Determined(dets, u, c), NEW dets2, dets2 = Changed(dets, dc),
           NEW cc, cc = Charged(chs, dets2, rate, assigned), NEW chs2, chs2 = Changed(chs, cc)
    PROVE  /\ dc \in [old : Nat, new : DeterminantRow \cup {None}]
           /\ cc \in [old : Nat, new : ChargeRow \cup {None}]
           /\ Ledger(dets2, chs2) /\ Len(chs2) > 0 /\ Last(chs2).rate = rate
           /\ dets2 = dets \/ Len(dets2) = Len(dets) + 1
           /\ chs2 = chs \/ Len(chs2) = Len(chs) + 1
           /\ Paid(chs2) => Paid(chs) \/ u.status = "complete"
<1>1. DeterminantRows(dets) /\ ChargeRows(chs)
    BY LedgerRows
<1>2. SuccessorDeterminant(dets, dc, dets2, DeterminantOf(u, c))
    BY <1>1, RecalculateDeterminants
<1>3. /\ dc \in [old : Nat, new : DeterminantRow \cup {None}]
      /\ DeterminantRows(dets2) /\ Len(dets2) > 0 /\ Len(dets2) >= Len(dets)
      /\ Last(dets2).bill.status = DeterminantOf(u, c).bill.status
    BY <1>2 DEF SuccessorDeterminant, SameDeterminant, Says
<1>4. PICK payload \in ChargeRow :
          /\ SuccessorCharge(chs, cc, chs2, payload)
          /\ payload.determinant = Len(dets2) /\ payload.rate = rate
          /\ payload.bill.quantity = Last(dets2).bill.quantity
          /\ payload.bill.status = "complete" =>
                /\ Last(dets2).bill.status = "complete"
                /\ payload.assigned /\ payload.rate # None /\ payload.currency # None
    BY <1>1, <1>3, RecalculateCharges
<1>5. PICK k \in Nat : k = Len(chs2) /\ k > 0 /\ k \in DOMAIN chs2 /\ Last(chs2) = chs2[k]
                      /\ DOMAIN chs2 = 1..k
    BY <1>4 DEF SuccessorCharge, ChargeRows, Last
<1>6. /\ chs2[k].determinant = payload.determinant /\ chs2[k].rate = payload.rate
      /\ chs2[k].assigned = payload.assigned /\ chs2[k].currency = payload.currency
      /\ chs2[k].bill.quantity = payload.bill.quantity
      /\ chs2[k].bill.status = payload.bill.status
    BY <1>4, <1>5 DEF SuccessorCharge, SameCharge, Says
<1>7. ASSUME NEW n \in DOMAIN chs2, n # k
      PROVE  /\ n \in DOMAIN chs
             /\ chs2[n].determinant = chs[n].determinant /\ chs2[n].rate = chs[n].rate
             /\ chs2[n].assigned = chs[n].assigned /\ chs2[n].currency = chs[n].currency
             /\ chs2[n].bill.status = chs[n].bill.status
    <2>1. n \in DOMAIN chs
        <3>1. chs2 = chs \/ k = Len(chs) + 1
            BY <1>4, <1>5 DEF SuccessorCharge
        <3>2. DOMAIN chs = 1..Len(chs) /\ Len(chs) \in Nat
            BY <1>1 DEF ChargeRows
        <3>. QED  BY <1>5, <1>7, <3>1, <3>2
    <2>2. KeptCharge(chs[n], chs2[n])
        BY <1>4, <2>1 DEF SuccessorCharge
    <2>. QED  BY <2>1, <2>2 DEF KeptCharge, Says
<1>8. Len(dets2) \in DOMAIN dets2 /\ \A i \in DOMAIN dets : i \in DOMAIN dets2
    BY <1>1, <1>3 DEF DeterminantRows
<1>9. \A n \in DOMAIN chs :
          /\ chs[n].determinant \in DOMAIN dets
          /\ chs[n].bill.status = "complete" =>
                chs[n].assigned /\ chs[n].rate # None /\ chs[n].currency # None
    BY DEF Ledger
<1>10. \A n \in DOMAIN chs2 :
          /\ chs2[n].determinant \in DOMAIN dets2
          /\ chs2[n].bill.status = "complete" =>
                chs2[n].assigned /\ chs2[n].rate # None /\ chs2[n].currency # None
    <2>. SUFFICES ASSUME NEW n \in DOMAIN chs2
                  PROVE  /\ chs2[n].determinant \in DOMAIN dets2
                         /\ chs2[n].bill.status = "complete" =>
                               chs2[n].assigned /\ chs2[n].rate # None /\ chs2[n].currency # None
        OBVIOUS
    <2>1. CASE n = k
        BY <1>4, <1>6, <1>8, <2>1
    <2>2. CASE n # k
        BY <1>7, <1>8, <1>9, <2>2
    <2>. QED  BY <2>1, <2>2
<1>11. Ledger(dets2, chs2)
    <2>1. ChargeRows(chs2)
        BY <1>4 DEF SuccessorCharge
    <2>2. Last(chs2).determinant = Len(dets2)
          /\ Last(chs2).bill.quantity = Last(dets2).bill.quantity
        BY <1>4, <1>5, <1>6
    <2>. QED  BY <1>3, <1>10, <2>1, <2>2 DEF Ledger, DeterminantRows, ChargeRows
<1>12. Paid(chs2) => Paid(chs) \/ u.status = "complete"
    <2>. SUFFICES ASSUME NEW n \in DOMAIN chs2, chs2[n].bill.status = "complete"
                  PROVE  Paid(chs) \/ u.status = "complete"
        BY DEF Paid
    <2>1. CASE n = k
        <3>1. DeterminantOf(u, c).bill.status = "complete"
            BY <1>3, <1>4, <1>6, <2>1
        <3>. QED  BY <3>1, DeterminantOfUsage
    <2>2. CASE n # k
        BY <1>7, <2>2 DEF Paid
    <2>. QED  BY <2>1, <2>2
<1>13. cc \in [old : Nat, new : ChargeRow \cup {None}]
    BY <1>4 DEF SuccessorCharge
<1>14. (dets2 = dets \/ Len(dets2) = Len(dets) + 1) /\ (chs2 = chs \/ Len(chs2) = Len(chs) + 1)
    BY <1>2, <1>4 DEF SuccessorDeterminant, SuccessorCharge
<1>. QED  BY <1>3, <1>4, <1>5, <1>6, <1>11, <1>12, <1>13, <1>14

--------------------------------------------------------------------------------
(* The invariant. *)

LEMMA IdleWork == Idle \in WorkType /\ Idle.pc = "idle"
BY DEF Idle, WorkType, NoUsage, NoChange

LEMMA NoLedger == Ledger(<<>>, <<>>) /\ ~ Paid(<<>>) /\ Len(<<>>) = 0
BY DEF Ledger, Paid, DeterminantChain, ChargeChain, Chain

(* The first calculation of a period with a usage.                            *)
FirstBill(dets, chs, u) ==
    /\ Ledger(dets, chs)
    /\ Len(dets) <= MaxRevisions /\ Len(chs) <= MaxRevisions
    /\ Paid(chs) => u.status = "complete"

LEMMA AtMostOne ==
    ASSUME NEW n, n = 0 \/ n = 0 + 1
    PROVE  n <= MaxRevisions
BY DownstreamAssumption

LEMMA FirstCalculation ==
    ASSUME NEW u \in UsageType, NEW c \in Contexts \cup {None}, NEW assigned \in BOOLEAN,
           NEW dets, dets = Changed(<<>>, Determined(<<>>, u, c)),
           NEW chs, chs = Changed(<<>>, Charged(<<>>, dets, Rate, assigned))
    PROVE  FirstBill(dets, chs, u)
<1>1. PICK e : e = <<>>
    OBVIOUS
<1>2. Ledger(e, e)
    BY <1>1, NoLedger
<1>3. PICK dc : dc = Determined(e, u, c)
    OBVIOUS
<1>4. PICK rate \in {Rate, None} : rate = Rate
    OBVIOUS
<1>5. PICK cc : cc = Charged(e, dets, rate, assigned)
    OBVIOUS
<1>6. dets = Changed(e, dc) /\ chs = Changed(e, cc)
    BY <1>1, <1>3, <1>4, <1>5
<1>7. /\ Ledger(dets, chs)
      /\ dets = e \/ Len(dets) = Len(e) + 1
      /\ chs = e \/ Len(chs) = Len(e) + 1
      /\ Paid(chs) => Paid(e) \/ u.status = "complete"
    <2>. HIDE <1>1
    <2>1. \A x, y : x = Changed(e, dc) /\ y = Changed(e, cc) /\ cc = Charged(e, x, rate, assigned) =>
              /\ Ledger(x, y)
              /\ x = e \/ Len(x) = Len(e) + 1
              /\ y = e \/ Len(y) = Len(e) + 1
              /\ Paid(y) => Paid(e) \/ u.status = "complete"
        <3>. SUFFICES ASSUME NEW x, NEW y, x = Changed(e, dc), y = Changed(e, cc),
                             cc = Charged(e, x, rate, assigned)
                      PROVE  /\ Ledger(x, y)
                             /\ x = e \/ Len(x) = Len(e) + 1
                             /\ y = e \/ Len(y) = Len(e) + 1
                             /\ Paid(y) => Paid(e) \/ u.status = "complete"
            OBVIOUS
        <3>. QED  BY <1>2, <1>3, RecalculateLedger
    <2>. QED  BY <1>5, <1>6, <2>1
<1>8. Len(dets) <= MaxRevisions /\ Len(chs) <= MaxRevisions
    BY <1>1, <1>7, NoLedger, AtMostOne
<1>. QED  BY <1>1, <1>7, <1>8, NoLedger DEF FirstBill

LEMMA DownstreamInit == Init => DownstreamInv
<1>. SUFFICES ASSUME Init PROVE DownstreamInv
    OBVIOUS
<1>1. /\ final \in Finals /\ context \in Contexts \cup {None} /\ tariff \in BOOLEAN
      /\ work \in [Operators -> WorkType] /\ \A o \in Operators : work[o].pc = "idle"
    BY IdleWork DEF Init, Finals
<1>2. DataInv
    <2>1. CASE usage = NoUsage /\ determinants = <<>> /\ charges = <<>>
        <3>1. Len(determinants) = 0 /\ Len(charges) = 0 /\ ~ Paid(charges)
              /\ Ledger(determinants, charges)
            BY <2>1, NoLedger
        <3>. QED  BY <1>1, <2>1, <3>1, DownstreamAssumption DEF DataInv, Finals
    <2>2. CASE /\ Found(final) # {}
               /\ usage = UsageOf(final)
               /\ determinants = Changed(<<>>, Determined(<<>>, usage, context))
               /\ charges = Changed(<<>>, Charged(<<>>, determinants, Rate, tariff))
        <3>1. usage \in UsageType /\ (usage.status = "complete" => Enough(Found(final)))
            BY <1>1, <2>2, UsageOfFinals
        <3>2. FirstBill(determinants, charges, usage)
            BY <1>1, <2>2, <3>1, FirstCalculation
        <3>. QED  BY <1>1, <3>1, <3>2 DEF DataInv, Finals, FirstBill
    <2>. QED  BY <2>1, <2>2 DEF Init
<1>3. LockInv /\ \A o \in Operators : ReadInv(o) /\ BilledInv(o)
    BY <1>1 DEF LockInv, Holds, ReadInv, BilledInv
<1>. QED  BY <1>1, <1>2, <1>3 DEF DownstreamInv

(* More finals are enough if fewer are. *)
LEMMA MeasuredStays ==
    ASSUME NEW o \in Operators, work'[o].at = work[o].at, Found(final) \subseteq Found(final')
    PROVE  MeasuredWith(o) => MeasuredWith(o)'
<1>1. Found(final) \cup {work[o].at} \in SUBSET (Found(final') \cup {work[o].at})
    OBVIOUS
<1>. QED  BY <1>1, FoundIsFinite, MoreIsEnough DEF MeasuredWith

LEMMA EnoughStays ==
    ASSUME Found(final) \subseteq Found(final'), Enough(Found(final))
    PROVE  Enough(Found(final'))
BY FoundIsFinite, MoreIsEnough

(* A step of one operator: finals are never taken away, and who writes the    *)
(* determinants and charges holds the lock.                                   *)
LEMMA StepKeeps ==
    ASSUME DownstreamInv, NEW o \in Operators, NEW w \in WorkType, work' = [work EXCEPT ![o] = w],
           w.pc \in {"stored", "billed"} => \A p \in Operators \ {o} : ~ Holds(p),
           Found(final) \subseteq Found(final'),
           UNCHANGED <<determinants, charges>> \/ Holds(o),
           DataInv', ReadInv(o)', BilledInv(o)'
    PROVE  DownstreamInv'
<1>1. \A p \in Operators : work'[p] = IF p = o THEN w ELSE work[p]
    BY DEF DownstreamInv
<1>2. work' \in [Operators -> WorkType]
    BY DEF DownstreamInv
<1>3. LockInv'
    BY <1>1 DEF LockInv, Holds, DownstreamInv
<1>4. ASSUME NEW p \in Operators, p # o PROVE ReadInv(p)' /\ BilledInv(p)'
    <2>1. work'[p] = work[p] /\ (MeasuredWith(p) => MeasuredWith(p)')
        BY <1>1, <1>4, MeasuredStays
    <2>2. ReadInv(p)'
        BY <2>1 DEF ReadInv, DownstreamInv
    <2>3. ASSUME work[p].pc = "billed" PROVE UNCHANGED <<determinants, charges>>
        BY <1>4, <2>3 DEF DownstreamInv, LockInv, Holds
    <2>4. BilledInv(p)'
        BY <2>1, <2>3 DEF BilledInv, DownstreamInv
    <2>. QED  BY <2>2, <2>4
<1>. QED  BY <1>2, <1>3, <1>4 DEF DownstreamInv

LEMMA BeginKeeps ==
    ASSUME DownstreamInv, NEW o \in Operators, NEW kind \in {"correction", "replay"},
           NEW m \in Measurements, NEW v \in Readings, Begin(o, kind, m, v)
    PROVE  DownstreamInv'
<1>1. PICK f \in Finals : f = [final EXCEPT ![m] = v] /\ f[m] = v
                        /\ \A n \in Measurements : n # m => f[n] = final[n]
    <2>1. final \in [Measurements -> Readings \cup {None}]
        BY DEF DownstreamInv, DataInv
    <2>2. [final EXCEPT ![m] = v] \in Finals
        BY <2>1 DEF Finals
    <2>. QED  BY <2>1, <2>2
<1>2. v # None /\ Found(f) = Found(final) \cup {m}
    BY <1>1, DownstreamAssumption DEF Found
<1>3. PICK u \in UsageType :
          u = UsageOf(f) /\ (u.status = "complete" => Enough(Found(final) \cup {m}))
    BY <1>1, <1>2, UsageOfFinals
<1>4. PICK created \in BOOLEAN : created = (usage = NoUsage)
    OBVIOUS
<1>5. PICK w : w = [Idle EXCEPT !.pc = "read", !.kind = kind, !.at = m, !.value = v, !.usage = u,
                                !.created = created]
    OBVIOUS
<1>6. w \in WorkType /\ w.pc = "read" /\ w.at = m /\ w.value = v /\ w.usage = u
    BY <1>5, IdleWork DEF WorkType
<1>7. work' = [work EXCEPT ![o] = w] /\ UNCHANGED <<final, usage, determinants, charges, context, tariff>>
    BY <1>1, <1>3, <1>4, <1>5 DEF Begin
<1>8. DataInv'
    BY <1>7 DEF DownstreamInv, DataInv
<1>9. work'[o] = w
    BY <1>7 DEF DownstreamInv
<1>10. ReadInv(o)' /\ BilledInv(o)'
    BY <1>1, <1>3, <1>6, <1>7, <1>9 DEF ReadInv, BilledInv, MeasuredWith
<1>. QED  BY <1>6, <1>7, <1>8, <1>10, StepKeeps

LEMMA StoreKeeps ==
    ASSUME DownstreamInv, NEW o \in Operators, Store(o)
    PROVE  DownstreamInv'
<1>1. work[o] \in WorkType /\ work[o].pc = "read"
    BY DEF DownstreamInv, Store
<1>2. PICK w \in WorkType : w = [work[o] EXCEPT !.pc = "stored"] /\ w.pc = "stored"
          /\ w.at = work[o].at /\ w.value = work[o].value /\ w.usage = work[o].usage
    <2>1. [work[o] EXCEPT !.pc = "stored"] \in WorkType
        BY <1>1 DEF WorkType
    <2>. QED  BY <1>1, <2>1 DEF WorkType
<1>3. /\ work' = [work EXCEPT ![o] = w]
      /\ UNCHANGED <<final, usage, determinants, charges, context, tariff>>
      /\ \A p \in Operators \ {o} : ~ Holds(p)
    BY <1>2 DEF Store, MayStore, Holds
<1>4. DataInv'
    BY <1>3 DEF DownstreamInv, DataInv
<1>5. work'[o] = w
    BY <1>3 DEF DownstreamInv
<1>6. ReadInv(o)
    BY DEF DownstreamInv
<1>7. ReadInv(o)' /\ BilledInv(o)'
    BY <1>1, <1>2, <1>3, <1>5, <1>6 DEF ReadInv, BilledInv, MeasuredWith
<1>. QED  BY <1>2, <1>3, <1>4, <1>7, StepKeeps

LEMMA RateSoFar ==
    ASSUME NEW chs, ChargeRows(chs), NEW dets
    PROVE  /\ ExistingRate(chs, dets) \in {Rate, None}
           /\ Len(chs) > 0 => CurrentRows(chs) = {Len(chs)} /\ ExistingRate(chs, dets) = Last(chs).rate
<1>1. PICK k \in Nat : k = Len(chs)
    BY DEF ChargeRows
<1>2. CurrentRows(chs) = IF k = 0 THEN {} ELSE {k}
    BY <1>1 DEF CurrentRows, ChargeRows, ChargeChain, Chain
<1>3. CASE k = 0
    BY <1>1, <1>2, <1>3 DEF ExistingRate
<1>4. CASE k > 0
    <2>1. CurrentRow(chs) = k
        BY <1>2, <1>4 DEF CurrentRow
    <2>2. chs[k] \in ChargeRow
        BY <1>1, <1>4 DEF ChargeRows
    <2>3. chs[k].rate \in {Rate, None}
        BY <2>2 DEF ChargeRow
    <2>4. ExistingRate(chs, dets) = chs[k].rate
        BY <1>2, <1>4, <2>1 DEF ExistingRate
    <2>. QED  BY <1>1, <1>2, <1>4, <2>3, <2>4 DEF Last
<1>. QED  BY <1>3, <1>4

LEMMA RecalculateKeeps ==
    ASSUME DownstreamInv, NEW o \in Operators, Recalculate(o)
    PROVE  DownstreamInv'
<1>1. work[o] \in WorkType /\ work[o].pc = "stored" /\ ReadInv(o)
    BY DEF DownstreamInv, Recalculate
<1>2. PICK u \in UsageType : u = work[o].usage /\ (u.status = "complete" => MeasuredWith(o))
    BY <1>1 DEF ReadInv
<1>3. Ledger(determinants, charges) /\ context \in Contexts \cup {None} /\ tariff \in BOOLEAN
      /\ (Paid(charges) => Enough(Found(final)))
    BY DEF DownstreamInv, DataInv
<1>4. PICK dc : dc = Determined(determinants, u, context)
    OBVIOUS
<1>5. PICK dets : dets = Changed(determinants, dc)
    OBVIOUS
<1>6. PICK rate \in {Rate, None} : rate = ExistingRate(charges, dets)
                                   /\ (Len(charges) > 0 => rate = Last(charges).rate)
    BY <1>3, LedgerRows, RateSoFar
<1>7. PICK cc : cc = Charged(charges, dets, rate, tariff)
    OBVIOUS
<1>8. PICK chs : chs = Changed(charges, cc)
    OBVIOUS
<1>9. /\ dc \in [old : Nat, new : DeterminantRow \cup {None}]
      /\ cc \in [old : Nat, new : ChargeRow \cup {None}]
      /\ Ledger(dets, chs) /\ Len(chs) > 0 /\ Last(chs).rate = rate
      /\ Paid(chs) => Paid(charges) \/ u.status = "complete"
    BY <1>3, <1>4, <1>5, <1>7, <1>8, RecalculateLedger
<1>10. PICK w \in WorkType :
          /\ w = [work[o] EXCEPT !.pc = "billed", !.determinant = dc, !.charge = cc]
          /\ w.pc = "billed" /\ w.at = work[o].at /\ w.value = work[o].value
          /\ w.usage = work[o].usage /\ w.determinant = dc /\ w.charge = cc
    <2>1. [work[o] EXCEPT !.pc = "billed", !.determinant = dc, !.charge = cc] \in WorkType
        BY <1>1, <1>9 DEF WorkType
    <2>. QED  BY <1>1, <2>1 DEF WorkType
<1>11. /\ work' = [work EXCEPT ![o] = w]
       /\ UNCHANGED <<final, usage, determinants, charges, context, tariff>>
    BY <1>2, <1>4, <1>5, <1>6, <1>7, <1>10 DEF Recalculate
<1>12. \A p \in Operators \ {o} : ~ Holds(p)
    BY <1>1 DEF DownstreamInv, LockInv, Holds
<1>13. DataInv'
    BY <1>11 DEF DownstreamInv, DataInv
<1>14. work'[o] = w
    BY <1>11 DEF DownstreamInv
<1>15. ReadInv(o)'
    BY <1>1, <1>10, <1>11, <1>14 DEF ReadInv, MeasuredWith
<1>16. Paid(chs) => MeasuredWith(o)'
    <2>1. Enough(Found(final)) => MeasuredWith(o)
        BY FoundIsFinite, MoreIsEnough DEF MeasuredWith
    <2>2. MeasuredWith(o) => MeasuredWith(o)'
        BY <1>10, <1>11, <1>14 DEF MeasuredWith
    <2>. QED  BY <1>2, <1>3, <1>9, <2>1, <2>2
<1>17. BilledInv(o)'
    BY <1>5, <1>6, <1>8, <1>9, <1>10, <1>11, <1>14, <1>16 DEF BilledInv
<1>. QED  BY <1>10, <1>11, <1>12, <1>13, <1>15, <1>17, StepKeeps

(* The end of a transaction, with its final measurement and usage. *)
LEMMA WriteEffect ==
    ASSUME DownstreamInv, NEW o \in Operators, work[o].pc # "idle", Write(o)
    PROVE  /\ final' \in Finals /\ usage' \in UsageType /\ UNCHANGED <<context, tariff>>
           /\ work' = [work EXCEPT ![o] = Idle] /\ work'[o] = Idle
           /\ Found(final) \subseteq Found(final')
           /\ MeasuredWith(o) => Enough(Found(final'))
<1>1. work[o].at \in Measurements /\ work[o].value \in Readings /\ work[o].usage \in UsageType
    BY DEF DownstreamInv, ReadInv
<1>2. work[o].value # None
    BY <1>1, DownstreamAssumption
<1>3. final \in Finals /\ work \in [Operators -> WorkType]
    BY DEF DownstreamInv, DataInv, Finals
<1>4. final' = [final EXCEPT ![work[o].at] = work[o].value]
    BY DEF Write
<1>5. /\ final' \in Finals
      /\ \A m \in Measurements : final'[m] = IF m = work[o].at THEN work[o].value ELSE final[m]
    BY <1>1, <1>3, <1>4 DEF Finals
<1>6. Found(final') = Found(final) \cup {work[o].at}
    BY <1>1, <1>2, <1>5 DEF Found
<1>. QED  BY <1>1, <1>3, <1>5, <1>6 DEF Write, MeasuredWith

LEMMA CommitKeeps ==
    ASSUME DownstreamInv, NEW o \in Operators, CommitCorrection(o) \/ CommitReplay(o) \/ RollBack(o)
    PROVE  DownstreamInv'
<1>1. CASE CommitCorrection(o)
    <2>1. /\ work[o].pc = "billed" /\ Write(o) /\ Holds(o) /\ BilledInv(o)
          /\ determinants' = Changed(determinants, work[o].determinant)
          /\ charges' = Changed(charges, work[o].charge)
          /\ Len(determinants') <= MaxRevisions /\ Len(charges') <= MaxRevisions
        BY <1>1 DEF CommitCorrection, Holds, DownstreamInv
    <2>2. Ledger(determinants', charges') /\ (Paid(charges') => MeasuredWith(o))
        BY <2>1 DEF BilledInv
    <2>3. DataInv'
        BY <2>1, <2>2, WriteEffect DEF DataInv, Finals, DownstreamInv
    <2>4. ReadInv(o)' /\ BilledInv(o)'
        BY <2>1, WriteEffect, IdleWork DEF ReadInv, BilledInv
    <2>. QED  BY <2>1, <2>3, <2>4, WriteEffect, IdleWork, StepKeeps
<1>2. CASE CommitReplay(o)
    <2>1. work[o].pc # "idle" /\ Write(o) /\ UNCHANGED <<determinants, charges>>
        BY <1>2 DEF CommitReplay
    <2>2. DataInv'
        BY <2>1, WriteEffect, EnoughStays DEF DataInv, Finals, DownstreamInv
    <2>3. ReadInv(o)' /\ BilledInv(o)'
        BY <2>1, WriteEffect, IdleWork DEF ReadInv, BilledInv
    <2>. QED  BY <2>1, <2>2, <2>3, WriteEffect, IdleWork, StepKeeps
<1>3. CASE RollBack(o)
    <2>1. work' = [work EXCEPT ![o] = Idle]
          /\ UNCHANGED <<final, usage, determinants, charges, context, tariff>>
        BY <1>3 DEF RollBack
    <2>2. DataInv' /\ work'[o] = Idle
        BY <2>1 DEF DataInv, DownstreamInv
    <2>3. ReadInv(o)' /\ BilledInv(o)'
        BY <2>2, IdleWork DEF ReadInv, BilledInv
    <2>. QED  BY <2>1, <2>2, <2>3, IdleWork, StepKeeps
<1>. QED  BY <1>1, <1>2, <1>3

LEMMA OutsideKeeps ==
    ASSUME DownstreamInv, UNCHANGED <<usage, determinants, charges, work>>,
           final' \in Finals, context' \in Contexts \cup {None}, tariff' \in BOOLEAN,
           Found(final) \subseteq Found(final')
    PROVE  DownstreamInv'
<1>1. DataInv'
    BY EnoughStays DEF DownstreamInv, DataInv, Finals
<1>2. \A o \in Operators : MeasuredWith(o) => MeasuredWith(o)'
    BY MeasuredStays
<1>3. \A o \in Operators : ReadInv(o)' /\ BilledInv(o)'
    BY <1>2 DEF DownstreamInv, ReadInv, BilledInv
<1>4. LockInv' /\ work' \in [Operators -> WorkType]
    BY DEF DownstreamInv, LockInv, Holds
<1>. QED  BY <1>1, <1>3, <1>4 DEF DownstreamInv

LEMMA DownstreamStep == DownstreamInv /\ [Next]_vars => DownstreamInv'
<1>. SUFFICES ASSUME DownstreamInv, [Next]_vars PROVE DownstreamInv'
    OBVIOUS
<1>1. final \in Finals /\ context \in Contexts \cup {None} /\ tariff \in BOOLEAN
    BY DEF DownstreamInv, DataInv, Finals
<1>2. ASSUME NEW m \in Measurements, NEW v \in Readings, Finalize(m, v) PROVE DownstreamInv'
    <2>1. v # None
        BY DownstreamAssumption
    <2>2. /\ final' \in Finals /\ Found(final) \subseteq Found(final')
        BY <1>1, <1>2, <2>1 DEF Finalize, Finals, Found
    <2>. QED  BY <1>1, <1>2, <2>2, OutsideKeeps DEF Finalize
<1>3. ASSUME NEW c \in Contexts, SetContext(c) PROVE DownstreamInv'
    BY <1>1, <1>3, OutsideKeeps DEF SetContext
<1>4. CASE AssignTariff
    BY <1>1, <1>4, OutsideKeeps DEF AssignTariff
<1>5. CASE UNCHANGED vars
    BY <1>1, <1>5, OutsideKeeps DEF vars
<1>. QED  BY <1>2, <1>3, <1>4, <1>5, BeginKeeps, StoreKeeps, RecalculateKeeps, CommitKeeps DEF Next

--------------------------------------------------------------------------------
(* What the invariant says. *)

(* The place of a row in its chain, and the one row that is current. *)
LEMMA DeterminantPlaces ==
    ASSUME NEW rows, DeterminantRows(rows), NEW n \in DOMAIN rows
    PROVE  /\ rows[n] \in DeterminantRow /\ n \in 1..Len(rows) /\ Len(rows) \in Nat
           /\ rows[n].bill.revision = n /\ rows[n].bill.supersedes = n - 1
           /\ CurrentRows(rows) = {Len(rows)}
<1>1. n \in 1..Len(rows) /\ Len(rows) \in Nat /\ rows[n] \in DeterminantRow
    BY DEF DeterminantRows
<1>2. /\ rows[n].bill.revision = n /\ rows[n].bill.supersedes = n - 1
      /\ \A m \in DOMAIN rows : rows[m].bill.current <=> m = Len(rows)
    BY DEF DeterminantRows, DeterminantChain, Chain
<1>3. Len(rows) \in DOMAIN rows
    BY <1>1 DEF DeterminantRows
<1>. QED  BY <1>1, <1>2, <1>3 DEF CurrentRows

LEMMA ChargePlaces ==
    ASSUME NEW rows, ChargeRows(rows), NEW n \in DOMAIN rows
    PROVE  /\ rows[n] \in ChargeRow /\ n \in 1..Len(rows) /\ Len(rows) \in Nat
           /\ rows[n].bill.revision = n /\ rows[n].bill.supersedes = n - 1
           /\ CurrentRows(rows) = {Len(rows)}
<1>1. n \in 1..Len(rows) /\ Len(rows) \in Nat /\ rows[n] \in ChargeRow
    BY DEF ChargeRows
<1>2. /\ rows[n].bill.revision = n /\ rows[n].bill.supersedes = n - 1
      /\ \A m \in DOMAIN rows : rows[m].bill.current <=> m = Len(rows)
    BY DEF ChargeRows, ChargeChain, Chain
<1>3. Len(rows) \in DOMAIN rows
    BY <1>1 DEF ChargeRows
<1>. QED  BY <1>1, <1>2, <1>3 DEF CurrentRows

LEMMA NoCurrentRow ==
    ASSUME NEW rows, ChargeRows(rows), CurrentRows(rows) # {}
    PROVE  Len(rows) \in DOMAIN rows /\ CurrentRows(rows) = {Len(rows)} /\ Len(rows) > 0
<1>1. PICK n \in DOMAIN rows : TRUE
    BY DEF CurrentRows
<1>2. n \in 1..Len(rows) /\ Len(rows) \in Nat /\ CurrentRows(rows) = {Len(rows)}
    BY ChargePlaces
<1>. QED  BY <1>2 DEF ChargeRows

LEMMA BillInBounds ==
    ASSUME NEW b \in BillRow, b.revision \in 1..MaxRevisions, b.supersedes \in 0..MaxRevisions
    PROVE  b \in BillType
BY DEF BillRow, BillType

LEMMA RowsInBounds ==
    ASSUME DownstreamInv
    PROVE  /\ DeterminantRows(determinants) /\ ChargeRows(charges)
           /\ \A n \in DOMAIN determinants : determinants[n] \in DeterminantType
           /\ \A n \in DOMAIN charges : charges[n] \in ChargeType
<1>1. /\ Ledger(determinants, charges) /\ DeterminantRows(determinants) /\ ChargeRows(charges)
      /\ Len(determinants) <= MaxRevisions /\ Len(charges) <= MaxRevisions /\ MaxRevisions \in Nat
    BY LedgerRows, DownstreamAssumption DEF DownstreamInv, DataInv
<1>2. ASSUME NEW n \in DOMAIN determinants PROVE determinants[n] \in DeterminantType
    <2>1. PICK r : r = determinants[n]
        OBVIOUS
    <2>2. /\ r \in DeterminantRow /\ n \in 1..Len(determinants) /\ Len(determinants) \in Nat
          /\ r.bill.revision = n /\ r.bill.supersedes = n - 1
        BY <1>1, <1>2, <2>1, DeterminantPlaces
    <2>3. r.bill \in BillRow /\ n \in 1..MaxRevisions /\ n - 1 \in 0..MaxRevisions
        BY <1>1, <2>2 DEF DeterminantRow
    <2>4. r.bill \in BillType
        BY <2>2, <2>3, BillInBounds
    <2>. QED  BY <2>1, <2>2, <2>4 DEF DeterminantRow, DeterminantType
<1>3. ASSUME NEW n \in DOMAIN charges PROVE charges[n] \in ChargeType
    <2>1. PICK r : r = charges[n]
        OBVIOUS
    <2>2. /\ r \in ChargeRow /\ n \in 1..Len(charges) /\ Len(charges) \in Nat
          /\ r.bill.revision = n /\ r.bill.supersedes = n - 1
        BY <1>1, <1>3, <2>1, ChargePlaces
    <2>3. r.bill \in BillRow /\ n \in 1..MaxRevisions /\ n - 1 \in 0..MaxRevisions
        BY <1>1, <2>2 DEF ChargeRow
    <2>4. r.bill \in BillType
        BY <2>2, <2>3, BillInBounds
    <2>5. r.determinant \in DOMAIN determinants
        BY <1>1, <1>3, <2>1 DEF Ledger
    <2>6. r.determinant \in 1..MaxRevisions
        BY <1>1, <2>5, DeterminantPlaces
    <2>. QED  BY <2>1, <2>2, <2>4, <2>6 DEF ChargeRow, ChargeType
<1>. QED  BY <1>1, <1>2, <1>3

LEMMA InvTypes == DownstreamInv => TypeOK
<1>. SUFFICES ASSUME DownstreamInv PROVE TypeOK
    OBVIOUS
<1>1. \A o \in Operators : work[o].pc \in {"idle", "read", "stored", "billed"}
    BY DEF DownstreamInv, WorkType
<1>. QED  BY <1>1, RowsInBounds DEF TypeOK, DownstreamInv, DataInv

LEMMA InvCharge == DownstreamInv => ChargeOfCurrentDeterminant
<1>. SUFFICES ASSUME DownstreamInv, NEW n \in CurrentRows(charges)
              PROVE  /\ CurrentRows(determinants) = {charges[n].determinant}
                     /\ charges[n].bill.quantity = determinants[charges[n].determinant].bill.quantity
    BY InvTypes DEF ChargeOfCurrentDeterminant
<1>1. /\ Ledger(determinants, charges) /\ DeterminantRows(determinants) /\ ChargeRows(charges)
    BY RowsInBounds DEF DownstreamInv, DataInv
<1>2. n = Len(charges) /\ n \in DOMAIN charges /\ Len(charges) > 0
    BY <1>1, NoCurrentRow
<1>3. /\ charges[n].determinant \in DOMAIN determinants
      /\ charges[n].determinant = Len(determinants)
      /\ charges[n].bill.quantity = determinants[Len(determinants)].bill.quantity
    BY <1>1, <1>2 DEF Ledger, Last
<1>. QED  BY <1>1, <1>3, DeterminantPlaces

(* As many finals as intervals: one interval is without a final only if       *)
(* another one has two.                                                       *)
LEMMA EnoughOrTwice ==
    ASSUME Enough(Found(final)), NEW i \in Intervals, ~ HasFinal(i)
    PROVE  \E j \in Intervals : HasTwoFinals(j)
<1>. DEFINE others == Intervals \ {i}
<1>1. PICK f : f = [m \in Found(final) |-> IntervalOf[m]]
    OBVIOUS
<1>2. f \in [Found(final) -> others]
    BY <1>1, DownstreamAssumption DEF HasFinal, Found
<1>3. IsFiniteSet(Found(final)) /\ IsFiniteSet(others)
      /\ Cardinality(others) = Cardinality(Intervals) - 1
    BY FoundIsFinite, DownstreamAssumption, FS_RemoveElement
<1>4. Cardinality(others) < Cardinality(Found(final))
    <2>1. Cardinality(Intervals) \in Nat /\ Cardinality(Found(final)) \in Nat
        BY <1>3, DownstreamAssumption, FS_CardinalityType
    <2>. QED  BY <1>3, <2>1 DEF Enough
<1>5. PICK m, n \in Found(final) : m # n /\ f[m] = f[n]
    <2>. HIDE DEF others
    <2>. QED  BY <1>2, <1>3, <1>4, FS_PigeonHole
<1>6. IntervalOf[m] = f[m] /\ IntervalOf[n] = f[m] /\ f[m] \in Intervals
    BY <1>1, <1>2, <1>5
<1>. QED  BY <1>5, <1>6 DEF HasTwoFinals

LEMMA InvEligible == DownstreamInv => EligibleMeansMeasured
<1>. SUFFICES ASSUME DownstreamInv, ExportEligible
              PROVE  /\ Enough(Found(final))
                     /\ (\A i \in Intervals : HasFinal(i)) \/ (\E i \in Intervals : HasTwoFinals(i))
                     /\ \A n \in CurrentRows(charges) :
                           charges[n].assigned /\ charges[n].rate # None /\ charges[n].currency # None
    BY DEF EligibleMeansMeasured, Enough
<1>1. Ledger(determinants, charges) /\ (Paid(charges) => Enough(Found(final)))
    BY DEF DownstreamInv, DataInv
<1>2. \A n \in CurrentRows(charges) : n \in DOMAIN charges /\ charges[n].bill.status = "complete"
    BY DEF ExportEligible, CurrentRows
<1>3. Paid(charges)
    BY <1>2 DEF ExportEligible, Paid
<1>4. \A n \in CurrentRows(charges) :
          charges[n].assigned /\ charges[n].rate # None /\ charges[n].currency # None
    BY <1>1, <1>2 DEF Ledger
<1>. QED  BY <1>1, <1>3, <1>4, EnoughOrTwice

LEMMA InvChain == DownstreamInv => OneChainOfRevisions
BY DEF DownstreamInv, DataInv, Ledger, OneChainOfRevisions

(* Only a correction changes the charges, to a ledger with the same rate.     *)
LEMMA StepRate ==
    ASSUME DownstreamInv, DownstreamInv', [Next]_vars, NEW n \in CurrentRows(charges),
           charges[n].rate # None
    PROVE  \E m \in CurrentRows(charges)' : charges'[m].rate = charges[n].rate
<1>1. n = Len(charges) /\ Len(charges) > 0 /\ Last(charges).rate = charges[n].rate
    BY RowsInBounds, NoCurrentRow DEF Last
<1>2. ASSUME NEW o \in Operators, CommitCorrection(o)
      PROVE  \E m \in CurrentRows(charges)' : charges'[m].rate = charges[n].rate
    <2>1. BilledInv(o) /\ work[o].pc = "billed" /\ charges' = Changed(charges, work[o].charge)
        BY <1>2 DEF DownstreamInv, CommitCorrection
    <2>2. Len(charges') > 0 /\ Last(charges').rate = charges[n].rate
        BY <1>1, <2>1 DEF BilledInv
    <2>3. ChargeRows(charges')
        BY LedgerRows DEF DownstreamInv, DataInv
    <2>4. Len(charges') \in DOMAIN charges'
        BY <2>2, <2>3 DEF ChargeRows
    <2>5. CurrentRows(charges') = {Len(charges')}
        BY <2>3, <2>4, ChargePlaces
    <2>. QED  BY <2>2, <2>5 DEF Last
<1>3. CASE UNCHANGED charges
    BY <1>3
<1>4. \/ UNCHANGED charges
      \/ \E o \in Operators : CommitCorrection(o)
    BY DEF Next, Begin, Store, Recalculate, CommitReplay, RollBack, Finalize, SetContext,
           AssignTariff, vars
<1>. QED  BY <1>2, <1>3, <1>4

--------------------------------------------------------------------------------
(* The theorems. *)

(* The charge that counts is the charge of the determinant that counts, for    *)
(* the quantity it determines, whatever corrections and replays overlap.       *)
THEOREM ChargedAsDetermined == Spec => []ChargeOfCurrentDeterminant
<1>. QED  BY DownstreamInit, DownstreamStep, InvCharge, PTL DEF Spec

(* A period eligible for export has a tariff, a rate and a currency, and as    *)
(* many finals as intervals: one in each, or two in some.  No lost update of   *)
(* the usage row makes it eligible with fewer.                                 *)
THEOREM OnlyMeasuredIsEligible == Spec => []EligibleMeansMeasured
<1>. QED  BY DownstreamInit, DownstreamStep, InvEligible, PTL DEF Spec

(* The determinants and the charges of a period are one chain of revisions     *)
(* each, of which the last is current, without an index that says so.          *)
THEOREM RevisionsFormAChain == Spec => []OneChainOfRevisions
<1>. QED  BY DownstreamInit, DownstreamStep, InvChain, PTL DEF Spec

(* A current charge with a rate is superseded only by one with that rate.      *)
THEOREM RateIsKept == Spec => RateSurvives
<1>1. DownstreamInv /\ DownstreamInv' /\ [Next]_vars =>
          [\A n \in CurrentRows(charges) : charges[n].rate # None =>
              \E m \in CurrentRows(charges)' : charges'[m].rate = charges[n].rate]_vars
    BY StepRate
<1>. QED  BY <1>1, DownstreamInit, DownstreamStep, PTL DEF Spec, RateSurvives

================================================================================
