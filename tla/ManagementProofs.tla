-------------------------- MODULE ManagementProofs --------------------------
(***************************************************************************)
(* What holds of the management pages, the playground and the table behind *)
(* them for every number of tabs, identifiers, keys and requests.          *)
(***************************************************************************)
EXTENDS Management, TLAPS, WellFoundedInduction, SequenceTheorems

-----------------------------------------------------------------------------
(***************************************************************************)
(* Induction, over the naturals and over sequences, with the property as   *)
(* the set of what has it.                                                 *)
(***************************************************************************)
Less == {p \in Nat \X Nat : p[1] < p[2]}

LEMMA LessIsWellFounded == IsWellFoundedOn(Less, Nat)
BY NatLessThanWellFounded DEF OpToRel, Less

LEMMA Induction ==
    ASSUME NEW S, 0 \in S, \A n \in Nat : n \in S => n + 1 \in S
    PROVE  \A n \in Nat : n \in S
<1>1. SUFFICES ASSUME Nat \ S # {} PROVE FALSE
    OBVIOUS
<1>2. PICK n \in Nat \ S : \A m \in Nat \ S : <<m, n>> \notin Less
    BY <1>1, LessIsWellFounded, WFMin
<1>3. n # 0 /\ n - 1 \in Nat
    BY <1>2
<1>4. <<n - 1, n>> \in Less
    BY <1>3 DEF Less
<1>5. n - 1 \in S
    BY <1>2, <1>3, <1>4
<1>6. QED
    BY <1>3, <1>5

LEMMA SequenceInduction ==
    ASSUME NEW T, NEW S, << >> \in S, \A s \in Seq(T), x \in T : s \in S => Append(s, x) \in S
    PROVE  \A s \in Seq(T) : s \in S
<1> DEFINE N == {n \in Nat : \A s \in Seq(T) : Len(s) = n => s \in S}
<1>1. 0 \in N
    BY EmptySeq
<1>2. ASSUME NEW n \in Nat, n \in N
      PROVE  n + 1 \in N
    <2> SUFFICES ASSUME NEW s \in Seq(T), Len(s) = n + 1
                 PROVE  s \in S
        OBVIOUS
    <2>1. PICK front, x : front \in Seq(T) /\ x \in T /\ s = Append(front, x)
        <3>1. s # << >>
            BY EmptySeq
        <3>2. QED
            BY <3>1, SequenceEmptyOrAppend
    <2>2. Len(s) = Len(front) + 1 /\ Len(front) \in Nat
        BY <2>1, AppendProperties
    <2>3. Len(front) = n
        BY <2>2
    <2>4. QED
        BY <1>2, <2>1, <2>3
<1> HIDE DEF N
<1>3. \A n \in Nat : n \in N
    BY <1>1, <1>2, Induction
<1>4. \A s \in Seq(T) : Len(s) \in N
    BY <1>3
<1>5. QED
    BY <1>4 DEF N

-----------------------------------------------------------------------------
(***************************************************************************)
(* What filter leaves.                                                     *)
(***************************************************************************)
IsKept(g, rows, gone, m) ==
    g = [n \in 0 .. m |->
            IF n = 0 THEN << >>
            ELSE IF rows[n].id \in gone THEN g[n - 1]
            ELSE Append(g[n - 1], rows[n])]

LEMMA KeptExists ==
    ASSUME NEW rows, NEW gone
    PROVE  \A m \in Nat : \E g : IsKept(g, rows, gone, m)
<1> DEFINE S == {m \in Nat : \E g : IsKept(g, rows, gone, m)}
           step(g, n) == IF rows[n].id \in gone THEN g[n - 1] ELSE Append(g[n - 1], rows[n])
<1>1. 0 \in S
    <2>1. IsKept([n \in 0 .. 0 |-> << >>], rows, gone, 0)
        BY DEF IsKept
    <2>2. QED
        BY <2>1
<1>2. ASSUME NEW m \in Nat, m \in S
      PROVE  m + 1 \in S
    <2>1. PICK g : IsKept(g, rows, gone, m)
        BY <1>2
    <2> DEFINE h == [n \in 0 .. m + 1 |-> IF n <= m THEN g[n] ELSE step(g, n)]
    <2>2. /\ \A n \in 0 .. m : h[n] = g[n]
          /\ h[m + 1] = step(g, m + 1)
          /\ h = [n \in 0 .. m + 1 |-> h[n]]
        OBVIOUS
    <2> HIDE DEF h
    <2>3. \A n \in 0 .. m : g[n] = IF n = 0 THEN << >> ELSE step(g, n)
        BY <2>1 DEF IsKept
    <2>4. \A n \in 0 .. m + 1 : h[n] = IF n = 0 THEN << >> ELSE step(h, n)
        BY <2>2, <2>3
    <2>5. IsKept(h, rows, gone, m + 1)
        BY <2>2, <2>4 DEF IsKept
    <2>6. QED
        BY <2>5
<1> HIDE DEF S
<1>3. \A m \in Nat : m \in S
    BY <1>1, <1>2, Induction
<1>4. QED
    BY <1>3 DEF S

KeptStep(g, rows, gone, n) ==
    g[n] = IF rows[n].id \in gone THEN g[n - 1] ELSE Append(g[n - 1], rows[n])

LEMMA KeptSteps ==
    ASSUME NEW rows \in Seq(Row), NEW gone
    PROVE  /\ Kept(rows, gone)[0] = << >>
           /\ \A n \in 1 .. Len(rows) : KeptStep(Kept(rows, gone), rows, gone, n)
<1>0. Len(rows) \in Nat
    BY LenProperties
<1>1. \E g : IsKept(g, rows, gone, Len(rows))
    BY <1>0, KeptExists
<1>2. PICK g : g = Kept(rows, gone)
    OBVIOUS
<1>3. g = CHOOSE f : IsKept(f, rows, gone, Len(rows))
    BY <1>2 DEF Kept, IsKept
<1>4. IsKept(g, rows, gone, Len(rows))
    BY <1>1, <1>3
<1>5. g[0] = << >> /\ \A n \in 1 .. Len(rows) : KeptStep(g, rows, gone, n)
    <2>1. PICK m \in Nat : m = Len(rows)
        BY <1>0
    <2>2. \A n \in 0 .. m : g[n] = IF n = 0 THEN << >>
                                 ELSE IF rows[n].id \in gone THEN g[n - 1]
                                 ELSE Append(g[n - 1], rows[n])
        BY <1>4, <2>1 DEF IsKept
    <2>3. QED
        BY <2>1, <2>2 DEF KeptStep
<1>6. QED
    BY <1>2, <1>5

(* One row after the other.                                                *)
Filtered(rows, gone) == Kept(rows, gone)[Len(rows)]

LEMMA FilteredEmpty == \A gone : Filtered(<< >>, gone) = << >>
<1>1. << >> \in Seq(Row) /\ Len(<< >>) = 0
    BY EmptySeq
<1>2. QED
    BY <1>1, KeptSteps DEF Filtered

LEMMA KeptOfPrefix ==
    ASSUME NEW s \in Seq(Row), NEW x \in Row, NEW gone
    PROVE  \A n \in 0 .. Len(s) : Kept(Append(s, x), gone)[n] = Kept(s, gone)[n]
<1> DEFINE a == Append(s, x)
           K == Kept(s, gone)
           L == Kept(a, gone)
           S == {n \in Nat : n <= Len(s) => L[n] = K[n]}
<1>1. /\ a \in Seq(Row) /\ Len(a) = Len(s) + 1 /\ Len(s) \in Nat
      /\ \A n \in 1 .. Len(s) : a[n] = s[n]
    BY AppendProperties, LenProperties
<1>2. /\ K[0] = << >> /\ L[0] = << >>
      /\ \A n \in 1 .. Len(s) : KeptStep(K, s, gone, n)
      /\ \A n \in 1 .. Len(s) + 1 : KeptStep(L, a, gone, n)
    BY <1>1, KeptSteps
<1> HIDE DEF a, K, L
<1>3. 0 \in S
    BY <1>2
<1>4. ASSUME NEW n \in Nat, n \in S
      PROVE  n + 1 \in S
    <2> SUFFICES ASSUME n + 1 <= Len(s)
                 PROVE  L[n + 1] = K[n + 1]
        OBVIOUS
    <2>1. KeptStep(K, s, gone, n + 1) /\ KeptStep(L, a, gone, n + 1) /\ a[n + 1] = s[n + 1]
        BY <1>1, <1>2
    <2>2. L[n] = K[n] /\ (n + 1) - 1 = n
        BY <1>1, <1>4
    <2>3. QED
        BY <2>1, <2>2 DEF KeptStep
<1> HIDE DEF S
<1>5. \A n \in Nat : n \in S
    BY <1>3, <1>4, Induction
<1>6. QED
    BY <1>1, <1>5 DEF S, K, L, a

LEMMA FilteredAppend ==
    ASSUME NEW s \in Seq(Row), NEW x \in Row, NEW gone
    PROVE  Filtered(Append(s, x), gone) =
               IF x.id \in gone THEN Filtered(s, gone) ELSE Append(Filtered(s, gone), x)
<1> DEFINE a == Append(s, x)
           L == Kept(a, gone)
<1>1. /\ a \in Seq(Row) /\ Len(a) = Len(s) + 1 /\ a[Len(s) + 1] = x /\ Len(s) \in Nat
    BY AppendProperties, LenProperties
<1>2. KeptStep(L, a, gone, Len(s) + 1)
    <2>1. \A n \in 1 .. Len(a) : KeptStep(L, a, gone, n)
        BY <1>1, KeptSteps
    <2> HIDE DEF a, L
    <2>2. QED
        BY <1>1, <2>1
<1>3. L[Len(s)] = Filtered(s, gone)
    BY <1>1, KeptOfPrefix DEF Filtered
<1> HIDE DEF a, L
<1>4. (Len(s) + 1) - 1 = Len(s)
    BY <1>1
<1>5. L[Len(s) + 1] = IF x.id \in gone THEN L[Len(s)] ELSE Append(L[Len(s)], x)
    BY <1>1, <1>2, <1>4 DEF KeptStep
<1>6. QED
    BY <1>1, <1>3, <1>5 DEF Filtered, a, L

(* No two rows have one id.                                                *)
Distinct(rows) == \A m, n \in DOMAIN rows : rows[m].id = rows[n].id => m = n

LEMMA RowAppended ==
    ASSUME NEW s \in Seq(Row), NEW x \in Row
    PROVE  /\ Append(s, x) \in Seq(Row)
           /\ Listed(Append(s, x)) = Listed(s) \cup {x}
           /\ Distinct(Append(s, x)) <=> Distinct(s) /\ \A row \in Listed(s) : row.id # x.id
<1> DEFINE a == Append(s, x)
<1>1. /\ a \in Seq(Row) /\ Len(a) = Len(s) + 1 /\ a[Len(s) + 1] = x /\ Len(s) \in Nat
      /\ DOMAIN s = 1 .. Len(s) /\ DOMAIN a = 1 .. Len(s) + 1
      /\ \A n \in 1 .. Len(s) : a[n] = s[n]
    BY AppendProperties, LenProperties
<1> HIDE DEF a
<1>2. Listed(a) = Listed(s) \cup {x}
    <2>1. ASSUME NEW n \in DOMAIN a
          PROVE  a[n] = x \/ (n \in DOMAIN s /\ a[n] = s[n])
        <3>1. n = Len(s) + 1 \/ n \in 1 .. Len(s)
            BY <1>1
        <3>2. QED
            BY <1>1, <3>1
    <2>2. \A n \in DOMAIN s : n \in DOMAIN a /\ a[n] = s[n]
        BY <1>1
    <2>3. \E n \in DOMAIN a : a[n] = x
        BY <1>1
    <2>4. QED
        BY <2>1, <2>2, <2>3 DEF Listed
<1>3. Distinct(a) <=> Distinct(s) /\ \A row \in Listed(s) : row.id # x.id
    <2>1. ASSUME Distinct(a)
          PROVE  Distinct(s) /\ \A n \in DOMAIN s : s[n].id # x.id
        BY <1>1, <2>1 DEF Distinct
    <2>2. ASSUME Distinct(s), \A n \in DOMAIN s : s[n].id # x.id
          PROVE  Distinct(a)
        BY <1>1, <2>2 DEF Distinct
    <2>3. QED
        BY <2>1, <2>2 DEF Listed
<1>4. QED
    BY <1>1, <1>2, <1>3 DEF a

LEMMA RowFirst ==
    ASSUME NEW s \in Seq(Row), NEW x \in Row
    PROVE  /\ <<x>> \o s \in Seq(Row)
           /\ Len(<<x>> \o s) = Len(s) + 1
           /\ (<<x>> \o s)[1] = x /\ \A n \in 1 .. Len(s) : (<<x>> \o s)[n + 1] = s[n]
           /\ Listed(<<x>> \o s) = Listed(s) \cup {x}
           /\ Distinct(<<x>> \o s) <=> Distinct(s) /\ \A row \in Listed(s) : row.id # x.id
<1> DEFINE a == <<x>> \o s
<1>1. <<x>> \in Seq(Row) /\ Len(<<x>>) = 1 /\ <<x>>[1] = x
    OBVIOUS
<1>2. /\ a \in Seq(Row) /\ Len(a) = Len(s) + 1 /\ Len(s) \in Nat
      /\ DOMAIN s = 1 .. Len(s) /\ DOMAIN a = 1 .. Len(s) + 1
      /\ a[1] = x /\ \A n \in 2 .. Len(s) + 1 : a[n] = s[n - 1]
    BY <1>1, ConcatProperties, LenProperties
<1> HIDE DEF a
<1>3. \A n \in 1 .. Len(s) : n + 1 \in 2 .. Len(s) + 1 /\ a[n + 1] = s[n]
    BY <1>2
<1>4. Listed(a) = Listed(s) \cup {x}
    <2>1. ASSUME NEW n \in DOMAIN a
          PROVE  a[n] = x \/ (n - 1 \in DOMAIN s /\ a[n] = s[n - 1])
        <3>1. n = 1 \/ (n \in 2 .. Len(s) + 1 /\ n - 1 \in 1 .. Len(s))
            BY <1>2
        <3>2. QED
            BY <1>2, <3>1
    <2>2. \A n \in DOMAIN s : n + 1 \in DOMAIN a /\ a[n + 1] = s[n]
        BY <1>2, <1>3
    <2>3. 1 \in DOMAIN a /\ a[1] = x
        BY <1>2
    <2>4. QED
        BY <2>1, <2>2, <2>3 DEF Listed
<1>5. Distinct(a) <=> Distinct(s) /\ \A row \in Listed(s) : row.id # x.id
    <2>1. ASSUME Distinct(a), NEW m \in DOMAIN s, NEW n \in DOMAIN s, s[m].id = s[n].id
          PROVE  m = n
        <3>1. m + 1 \in DOMAIN a /\ n + 1 \in DOMAIN a /\ a[m + 1] = s[m] /\ a[n + 1] = s[n]
            BY <1>2, <1>3
        <3>2. m + 1 = n + 1
            BY <2>1, <3>1 DEF Distinct
        <3>3. QED
            BY <1>2, <3>2
    <2>2. ASSUME Distinct(a), NEW n \in DOMAIN s
          PROVE  s[n].id # x.id
        <3>1. n + 1 \in DOMAIN a /\ a[n + 1] = s[n] /\ 1 \in DOMAIN a /\ n + 1 # 1
            BY <1>2, <1>3
        <3>2. QED
            BY <1>2, <2>2, <3>1 DEF Distinct
    <2>3. ASSUME Distinct(s), \A n \in DOMAIN s : s[n].id # x.id,
                 NEW m \in DOMAIN a, NEW n \in DOMAIN a, a[m].id = a[n].id
          PROVE  m = n
        <3>1. \A k \in DOMAIN a : k = 1 \/ (k - 1 \in DOMAIN s /\ a[k] = s[k - 1] /\ k \in Nat)
            BY <1>2
        <3>2. CASE m = 1 \/ n = 1
            BY <1>2, <2>3, <3>1, <3>2
        <3>3. CASE m # 1 /\ n # 1
            <4>1. m - 1 = n - 1
                BY <2>3, <3>1, <3>3 DEF Distinct
            <4>2. QED
                BY <3>1, <3>3, <4>1
        <3>4. QED
            BY <3>2, <3>3
    <2>4. QED
        BY <2>1, <2>2, <2>3 DEF Listed, Distinct
<1>6. QED
    BY <1>2, <1>3, <1>4, <1>5 DEF a

LEMMA FilteredRows ==
    ASSUME NEW gone
    PROVE  \A s \in Seq(Row) :
              /\ Filtered(s, gone) \in Seq(Row)
              /\ Listed(Filtered(s, gone)) = {row \in Listed(s) : row.id \notin gone}
              /\ Distinct(s) => Distinct(Filtered(s, gone))
<1> DEFINE Fine(s) == /\ Filtered(s, gone) \in Seq(Row)
                      /\ Listed(Filtered(s, gone)) = {row \in Listed(s) : row.id \notin gone}
                      /\ Distinct(s) => Distinct(Filtered(s, gone))
           S == {s \in Seq(Row) : Fine(s)}
<1>1. << >> \in S
    <2>1. << >> \in Seq(Row) /\ Listed(<< >>) = {} /\ Distinct(<< >>)
        BY EmptySeq DEF Listed, Distinct
    <2>2. QED
        BY <2>1, FilteredEmpty
<1>2. ASSUME NEW s \in Seq(Row), NEW x \in Row, s \in S
      PROVE  Append(s, x) \in S
    <2> DEFINE f == Filtered(s, gone)
               a == Append(s, x)
    <2>1. /\ f \in Seq(Row) /\ Listed(f) = {row \in Listed(s) : row.id \notin gone}
          /\ Distinct(s) => Distinct(f)
        BY <1>2
    <2>2. /\ a \in Seq(Row) /\ Listed(a) = Listed(s) \cup {x}
          /\ Distinct(a) <=> Distinct(s) /\ \A row \in Listed(s) : row.id # x.id
        BY RowAppended
    <2>3. Filtered(a, gone) = IF x.id \in gone THEN f ELSE Append(f, x)
        BY FilteredAppend
    <2>4. /\ Append(f, x) \in Seq(Row) /\ Listed(Append(f, x)) = Listed(f) \cup {x}
          /\ Distinct(Append(f, x)) <=> Distinct(f) /\ \A row \in Listed(f) : row.id # x.id
        BY <2>1, RowAppended
    <2> HIDE DEF f, a
    <2>5. Fine(a)
        BY <2>1, <2>2, <2>3, <2>4
    <2>6. QED
        BY <2>2, <2>5 DEF a
<1> HIDE DEF S
<1>3. \A s \in Seq(Row) : s \in S
    BY <1>1, <1>2, SequenceInduction
<1>4. QED
    BY <1>3 DEF S

LEMMA FilteredTwice ==
    ASSUME NEW A, NEW B
    PROVE  \A s \in Seq(Row) : Filtered(Filtered(s, A), B) = Filtered(s, A \cup B)
<1> DEFINE S == {s \in Seq(Row) : Filtered(Filtered(s, A), B) = Filtered(s, A \cup B)}
<1>1. << >> \in S
    BY EmptySeq, FilteredEmpty
<1>2. ASSUME NEW s \in Seq(Row), NEW x \in Row, s \in S
      PROVE  Append(s, x) \in S
    <2>1. Append(s, x) \in Seq(Row) /\ Filtered(s, A) \in Seq(Row)
        BY RowAppended, FilteredRows
    <2>2. /\ Filtered(Append(s, x), A) =
               IF x.id \in A THEN Filtered(s, A) ELSE Append(Filtered(s, A), x)
          /\ Filtered(Append(s, x), A \cup B) =
               IF x.id \in A \cup B THEN Filtered(s, A \cup B) ELSE Append(Filtered(s, A \cup B), x)
          /\ Filtered(Append(Filtered(s, A), x), B) =
               IF x.id \in B THEN Filtered(Filtered(s, A), B)
               ELSE Append(Filtered(Filtered(s, A), B), x)
        BY <2>1, FilteredAppend
    <2>3. QED
        BY <1>2, <2>1, <2>2
<1> HIDE DEF S
<1>3. \A s \in Seq(Row) : s \in S
    BY <1>1, <1>2, SequenceInduction
<1>4. QED
    BY <1>3 DEF S

LEMMA FilteredNone == \A s \in Seq(Row) : Filtered(s, {}) = s
<1> DEFINE S == {s \in Seq(Row) : Filtered(s, {}) = s}
<1>1. << >> \in S
    BY EmptySeq, FilteredEmpty
<1>2. ASSUME NEW s \in Seq(Row), NEW x \in Row, s \in S
      PROVE  Append(s, x) \in S
    <2>1. Filtered(Append(s, x), {}) = Append(Filtered(s, {}), x) /\ Append(s, x) \in Seq(Row)
        BY FilteredAppend, RowAppended
    <2>2. QED
        BY <1>2, <2>1
<1> HIDE DEF S
<1>3. \A s \in Seq(Row) : s \in S
    BY <1>1, <1>2, SequenceInduction
<1>4. QED
    BY <1>3 DEF S

LEMMA FilteredFirst ==
    ASSUME NEW gone, NEW x \in Row, x.id \notin gone
    PROVE  \A s \in Seq(Row) : Filtered(<<x>> \o s, gone) = <<x>> \o Filtered(s, gone)
<1> DEFINE S == {s \in Seq(Row) : Filtered(<<x>> \o s, gone) = <<x>> \o Filtered(s, gone)}
<1>0. \A s \in Seq(Row), y \in Row : <<x>> \o Append(s, y) = Append(<<x>> \o s, y)
    <2> SUFFICES ASSUME NEW s \in Seq(Row), NEW y \in Row
                 PROVE  <<x>> \o Append(s, y) = Append(<<x>> \o s, y)
        OBVIOUS
    <2>1. <<x>> \in Seq(Row) /\ <<y>> \in Seq(Row) /\ <<x>> \o s \in Seq(Row)
        BY RowFirst
    <2>2. Append(s, y) = s \o <<y>> /\ Append(<<x>> \o s, y) = (<<x>> \o s) \o <<y>>
        BY <2>1, AppendIsConcat
    <2>3. QED
        BY <2>1, <2>2, ConcatAssociative
<1>1. << >> \in S
    <2>1. /\ << >> \in Seq(Row) /\ <<x>> \in Seq(Row) /\ <<x>> \o << >> = <<x>>
          /\ <<x>> = Append(<< >>, x)
        BY EmptySeq, ConcatEmptySeq
    <2>2. Filtered(<<x>>, gone) = <<x>>
        <3>1. PICK e : e = << >>
            OBVIOUS
        <3>2. e \in Seq(Row) /\ Filtered(e, gone) = e /\ <<x>> = Append(e, x)
            BY <2>1, <3>1, FilteredEmpty
        <3>3. Filtered(Append(e, x), gone) = Append(Filtered(e, gone), x)
            BY <3>2, FilteredAppend
        <3>4. QED
            BY <3>2, <3>3
    <2>3. QED
        BY <2>1, <2>2, FilteredEmpty
<1>2. ASSUME NEW s \in Seq(Row), NEW y \in Row, s \in S
      PROVE  Append(s, y) \in S
    <2>1. /\ Filtered(s, gone) \in Seq(Row)
          /\ <<x>> \o s \in Seq(Row) /\ Append(s, y) \in Seq(Row)
        BY FilteredRows, RowFirst, RowAppended
    <2>2. /\ Filtered(Append(<<x>> \o s, y), gone) =
               IF y.id \in gone THEN Filtered(<<x>> \o s, gone)
               ELSE Append(Filtered(<<x>> \o s, gone), y)
          /\ Filtered(Append(s, y), gone) =
               IF y.id \in gone THEN Filtered(s, gone) ELSE Append(Filtered(s, gone), y)
        BY <2>1, FilteredAppend
    <2>3. /\ <<x>> \o Append(s, y) = Append(<<x>> \o s, y)
          /\ <<x>> \o Append(Filtered(s, gone), y) = Append(<<x>> \o Filtered(s, gone), y)
        BY <1>0, <2>1
    <2>4. QED
        BY <1>2, <2>1, <2>2, <2>3
<1> HIDE DEF S
<1>3. \A s \in Seq(Row) : s \in S
    BY <1>1, <1>2, SequenceInduction
<1>4. QED
    BY <1>3 DEF S

-----------------------------------------------------------------------------
(***************************************************************************)
(* What is left of rows when those with the ids of `gone' are filtered out *)
(* or marked.                                                              *)
(***************************************************************************)
LEMMA MarkedRow ==
    ASSUME NEW row \in Row
    PROVE  /\ Marked(row) \in Row /\ Marked(row).id = row.id /\ Marked(row).revoked
           /\ Marked(Marked(row)) = Marked(row)
BY DEF Marked, Row

MarkedAmong(rows, gone) ==
    [n \in DOMAIN rows |-> IF rows[n].id \in gone THEN Marked(rows[n]) ELSE rows[n]]

LEMMA MarkedRows ==
    ASSUME NEW rows \in Seq(Row), NEW gone
    PROVE  LET m == MarkedAmong(rows, gone)
           IN  /\ m \in Seq(Row) /\ Len(m) = Len(rows) /\ DOMAIN m = DOMAIN rows
               /\ \A n \in DOMAIN rows :
                     /\ rows[n] \in Row /\ m[n].id = rows[n].id
                     /\ m[n] = IF rows[n].id \in gone THEN Marked(rows[n]) ELSE rows[n]
<1> DEFINE m == MarkedAmong(rows, gone)
<1>1. /\ Len(rows) \in Nat /\ DOMAIN rows = 1 .. Len(rows)
      /\ \A n \in 1 .. Len(rows) : rows[n] \in Row
    BY LenProperties, ElementOfSeq
<1>2. \A n \in 1 .. Len(rows) :
        m[n] = IF rows[n].id \in gone THEN Marked(rows[n]) ELSE rows[n]
    BY <1>1 DEF MarkedAmong
<1>3. \A n \in 1 .. Len(rows) : m[n] \in Row /\ m[n].id = rows[n].id
    BY <1>1, <1>2, MarkedRow
<1>4. m = [n \in 1 .. Len(rows) |-> m[n]]
    BY <1>1 DEF MarkedAmong
<1> HIDE DEF m
<1>5. m \in [1 .. Len(rows) -> Row]
    BY <1>3, <1>4
<1>6. m \in Seq(Row) /\ Len(m) = Len(rows)
    BY <1>1, <1>5
<1>7. QED
    BY <1>1, <1>2, <1>3, <1>4, <1>6 DEF m

LEMMA WithoutIs ==
    ASSUME NEW rows, NEW gone
    PROVE  /\ Without(rows, "limits", gone) = Filtered(rows, gone)
           /\ Without(rows, "keys", gone) = MarkedAmong(rows, gone)
BY DEF Without, Filtered, MarkedAmong

LEMMA WithoutRows ==
    ASSUME NEW rows \in Seq(Row), NEW kind \in Kinds, NEW gone
    PROVE  LET left == Without(rows, kind, gone)
           IN  /\ left \in Seq(Row)
               /\ Distinct(rows) => Distinct(left)
               /\ \A row \in Listed(rows) : row.id \notin gone => row \in Listed(left)
               /\ \A row \in Listed(left) :
                     /\ \E old \in Listed(rows) : old.id = row.id
                     /\ row \in Listed(rows) \/ (row.id \in gone /\ row.revoked)
                     /\ row.id \in gone => row.revoked
<1>1. CASE kind = "limits"
    BY <1>1, WithoutIs, FilteredRows
<1>2. CASE kind = "keys"
    <2> DEFINE m == MarkedAmong(rows, gone)
    <2>1. /\ m \in Seq(Row) /\ DOMAIN m = DOMAIN rows
          /\ \A n \in DOMAIN rows :
                /\ rows[n] \in Row /\ m[n].id = rows[n].id
                /\ m[n] = IF rows[n].id \in gone THEN Marked(rows[n]) ELSE rows[n]
        BY MarkedRows
    <2> HIDE DEF m
    <2>2. Distinct(rows) => Distinct(m)
        BY <2>1 DEF Distinct
    <2>3. \A row \in Listed(rows) : row.id \notin gone => row \in Listed(m)
        BY <2>1 DEF Listed
    <2>4. ASSUME NEW n \in DOMAIN rows
          PROVE  /\ rows[n] \in Listed(rows) /\ rows[n].id = m[n].id
                 /\ m[n] = rows[n] \/ (m[n].id \in gone /\ m[n].revoked)
                 /\ m[n].id \in gone => m[n].revoked
        <3>1. rows[n] \in Row /\ Marked(rows[n]).revoked
            BY <2>1, MarkedRow
        <3>2. QED
            BY <2>1, <3>1 DEF Listed
    <2>5. \A row \in Listed(m) :
            /\ \E old \in Listed(rows) : old.id = row.id
            /\ row \in Listed(rows) \/ (row.id \in gone /\ row.revoked)
            /\ row.id \in gone => row.revoked
        BY <2>1, <2>4 DEF Listed
    <2>6. QED
        BY <1>2, <2>1, <2>2, <2>3, <2>5, WithoutIs DEF m
<1>3. QED
    BY <1>1, <1>2 DEF Kinds

LEMMA WithoutNone ==
    ASSUME NEW rows \in Seq(Row), NEW kind \in Kinds
    PROVE  Without(rows, kind, {}) = rows
<1>1. MarkedAmong(rows, {}) = rows
    <2>1. MarkedAmong(rows, {}) = [n \in DOMAIN rows |-> rows[n]]
        BY DEF MarkedAmong
    <2>2. rows = [n \in 1 .. Len(rows) |-> rows[n]] /\ DOMAIN rows = 1 .. Len(rows)
        BY LenProperties
    <2>3. QED
        BY <2>1, <2>2
<1>2. QED
    BY <1>1, WithoutIs, FilteredNone DEF Kinds

LEMMA WithoutTwice ==
    ASSUME NEW rows \in Seq(Row), NEW kind \in Kinds, NEW A, NEW B
    PROVE  Without(Without(rows, kind, A), kind, B) = Without(rows, kind, A \cup B)
<1>1. CASE kind = "limits"
    BY <1>1, WithoutIs, FilteredTwice
<1>2. CASE kind = "keys"
    <2> DEFINE a == MarkedAmong(rows, A)
               b == MarkedAmong(a, B)
               c == MarkedAmong(rows, A \cup B)
    <2>1. /\ a \in Seq(Row) /\ DOMAIN a = DOMAIN rows /\ Len(a) = Len(rows)
          /\ \A n \in DOMAIN rows :
                /\ rows[n] \in Row /\ a[n].id = rows[n].id
                /\ a[n] = IF rows[n].id \in A THEN Marked(rows[n]) ELSE rows[n]
        BY MarkedRows
    <2> HIDE DEF a
    <2>2. /\ b \in Seq(Row) /\ DOMAIN b = DOMAIN a /\ Len(b) = Len(a)
          /\ \A n \in DOMAIN a : b[n] = IF a[n].id \in B THEN Marked(a[n]) ELSE a[n]
        BY <2>1, MarkedRows
    <2>3. /\ c \in Seq(Row) /\ DOMAIN c = DOMAIN rows /\ Len(c) = Len(rows)
          /\ \A n \in DOMAIN rows :
                c[n] = IF rows[n].id \in A \cup B THEN Marked(rows[n]) ELSE rows[n]
        BY MarkedRows
    <2> HIDE DEF b, c
    <2>4. \A n \in DOMAIN rows : Marked(Marked(rows[n])) = Marked(rows[n])
        BY <2>1, MarkedRow
    <2>5. \A n \in DOMAIN rows : b[n] = c[n]
        BY <2>1, <2>2, <2>3, <2>4
    <2>6. b = c
        <3>1. Len(b) = Len(c) /\ \A n \in 1 .. Len(b) : b[n] = c[n]
            BY <2>1, <2>2, <2>3, <2>5, LenProperties
        <3>2. QED
            BY <2>2, <2>3, <3>1, SeqEqual
    <2>7. QED
        BY <1>2, <2>6, WithoutIs DEF a, b, c
<1>3. QED
    BY <1>1, <1>2 DEF Kinds

LEMMA WithoutFirst ==
    ASSUME NEW rows \in Seq(Row), NEW kind \in Kinds, NEW gone, NEW x \in Row, x.id \notin gone
    PROVE  Without(<<x>> \o rows, kind, gone) = <<x>> \o Without(rows, kind, gone)
<1>1. CASE kind = "limits"
    <2>1. Filtered(<<x>> \o rows, gone) = <<x>> \o Filtered(rows, gone)
        BY FilteredFirst
    <2>2. /\ Without(<<x>> \o rows, kind, gone) = Filtered(<<x>> \o rows, gone)
          /\ Without(rows, kind, gone) = Filtered(rows, gone)
        BY <1>1, WithoutIs
    <2>3. QED
        BY <2>1, <2>2
<1>2. CASE kind = "keys"
    <2> DEFINE r == <<x>> \o rows
               a == MarkedAmong(r, gone)
               m == MarkedAmong(rows, gone)
               b == <<x>> \o m
    <2>1. /\ r \in Seq(Row) /\ Len(r) = Len(rows) + 1 /\ Len(rows) \in Nat
          /\ DOMAIN r = 1 .. Len(rows) + 1 /\ DOMAIN rows = 1 .. Len(rows)
          /\ r[1] = x /\ \A n \in 1 .. Len(rows) : r[n + 1] = rows[n]
        BY RowFirst, LenProperties
    <2> HIDE DEF r
    <2>2. /\ a \in Seq(Row) /\ Len(a) = Len(rows) + 1
          /\ \A n \in 1 .. Len(rows) + 1 :
                a[n] = IF r[n].id \in gone THEN Marked(r[n]) ELSE r[n]
        BY <2>1, MarkedRows
    <2>3. /\ m \in Seq(Row) /\ Len(m) = Len(rows)
          /\ \A n \in 1 .. Len(rows) :
                m[n] = IF rows[n].id \in gone THEN Marked(rows[n]) ELSE rows[n]
        BY <2>1, MarkedRows
    <2> HIDE DEF a, m
    <2>4. /\ b \in Seq(Row) /\ Len(b) = Len(rows) + 1
          /\ b[1] = x /\ \A n \in 1 .. Len(rows) : b[n + 1] = m[n]
        BY <2>3, RowFirst
    <2> HIDE DEF b
    <2>5. a[1] = b[1]
        BY <2>1, <2>2, <2>4
    <2>6. ASSUME NEW n \in 1 .. Len(rows)
          PROVE  a[n + 1] = b[n + 1]
        <3>1. n + 1 \in 1 .. Len(rows) + 1
            BY <2>1
        <3>2. QED
            BY <2>1, <2>2, <2>3, <2>4, <3>1
    <2>7. \A n \in 1 .. Len(rows) + 1 : a[n] = b[n]
        <3> SUFFICES ASSUME NEW n \in 1 .. Len(rows) + 1
                     PROVE  a[n] = b[n]
            OBVIOUS
        <3>1. n = 1 \/ (n - 1 \in 1 .. Len(rows) /\ (n - 1) + 1 = n)
            BY <2>1
        <3>2. QED
            BY <2>5, <2>6, <3>1
    <2>8. a = b
        BY <2>2, <2>4, <2>7, SeqEqual
    <2>9. QED
        BY <1>2, <2>8, WithoutIs DEF r, a, m, b
<1>3. QED
    BY <1>1, <1>2 DEF Kinds

-----------------------------------------------------------------------------
(***************************************************************************)
(* Pages.                                                                  *)
(***************************************************************************)
Pages == Page \cup Playground \cup {Closed}

LEMMA PageKinds ==
    /\ \A p \in Page : p.kind \in Kinds /\ p # Closed
    /\ \A p \in Playground : p.kind = "playground" /\ p # Closed
    /\ Closed.kind = "none"
    /\ Kinds = {"limits", "keys"}
    /\ \A p \in Pages : /\ p.kind \in Kinds <=> p \in Page
                        /\ p.kind = "playground" <=> p \in Playground
                        /\ p # Closed <=> p.kind # "none"
<1>1. \A p \in Page : p.kind \in Kinds
    BY DEF Page
<1>2. \A p \in Playground : p.kind = "playground"
    BY DEF Playground
<1>3. Closed.kind = "none" /\ Kinds = {"limits", "keys"}
    BY DEF Closed, Kinds
<1>4. QED
    BY <1>1, <1>2, <1>3 DEF Pages

(* What of p the arrival of an answer leaves, and what it sets.            *)
Edit(q, p, loading, failed, rows, removing) ==
    /\ q \in Page /\ q.kind = p.kind
    /\ q.loading = loading /\ q.failed = failed /\ q.rows = rows /\ q.removing = removing

LEMMA ListReceived ==
    ASSUME NEW p \in Page, NEW r \in Request
    PROVE  Edit(ReceiveList(r, p), p, FALSE, r.answer # "ok",
                IF r.answer = "ok" THEN r.rows ELSE p.rows, p.removing)
<1> DEFINE rows == IF r.answer = "ok" THEN r.rows ELSE p.rows
           failed == r.answer # "ok"
           a == [p EXCEPT !.loading = FALSE]
           b == [a EXCEPT !.failed = failed]
           q == [b EXCEPT !.rows = rows]
<1>0. rows \in Seq(Row) /\ failed \in BOOLEAN
    BY DEF Request, Page
<1>1. a \in Page /\ a.kind = p.kind /\ a.loading = FALSE /\ a.rows = p.rows
      /\ a.removing = p.removing
    BY DEF Page
<1> HIDE DEF a, rows, failed
<1>2. b \in Page /\ b.kind = a.kind /\ b.loading = a.loading /\ b.failed = failed
      /\ b.rows = a.rows /\ b.removing = a.removing
    BY <1>0, <1>1 DEF Page
<1>3. ReceiveList(r, p) = q
    BY <1>1, <1>2 DEF ReceiveList, a, rows, failed
<1> HIDE DEF b
<1>4. q \in Page /\ q.kind = b.kind /\ q.loading = b.loading /\ q.failed = b.failed
      /\ q.rows = rows /\ q.removing = b.removing
    BY <1>0, <1>2 DEF Page
<1> HIDE DEF q
<1>5. QED
    BY <1>1, <1>2, <1>3, <1>4 DEF Edit, rows, failed

LEMMA CreateReceived ==
    ASSUME NEW p \in Page, NEW r,
           r.answer = "ok" => r.rows[1] \in Row /\ (r.kind = "keys" => r.rows[1].id \in Nat)
    PROVE  Edit(ReceiveCreate(r, p), p, p.loading, p.failed,
                IF r.answer = "ok" THEN <<r.rows[1]>> \o p.rows ELSE p.rows, p.removing)
<1> DEFINE rows == IF r.answer = "ok" THEN <<r.rows[1]>> \o p.rows ELSE p.rows
           newKey == IF r.answer = "ok" /\ r.kind = "keys" THEN r.rows[1].id ELSE p.newKey
           a == [p EXCEPT !.creating = FALSE]
           b == [a EXCEPT !.newKey = newKey]
           q == [b EXCEPT !.rows = rows]
<1>0. rows \in Seq(Row) /\ newKey \in Nat \cup {None}
    <2>1. p.rows \in Seq(Row) /\ p.newKey \in Nat \cup {None}
        BY DEF Page
    <2>2. r.answer = "ok" => <<r.rows[1]>> \o p.rows \in Seq(Row)
        BY <2>1, RowFirst
    <2>3. QED
        BY <2>1, <2>2
<1>1. a \in Page /\ a.kind = p.kind /\ a.loading = p.loading /\ a.failed = p.failed
      /\ a.rows = p.rows /\ a.removing = p.removing /\ a.newKey = p.newKey
    BY DEF Page
<1> HIDE DEF a, rows, newKey
<1>2. b \in Page /\ b.kind = a.kind /\ b.loading = a.loading /\ b.failed = a.failed
      /\ b.rows = a.rows /\ b.removing = a.removing
    BY <1>0, <1>1 DEF Page
<1>3. ReceiveCreate(r, p) = q
    BY <1>1, <1>2 DEF ReceiveCreate, DoneCreating, WithNew, a, rows, newKey
<1> HIDE DEF b
<1>4. q \in Page /\ q.kind = b.kind /\ q.loading = b.loading /\ q.failed = b.failed
      /\ q.rows = rows /\ q.removing = b.removing
    BY <1>0, <1>2 DEF Page
<1> HIDE DEF q
<1>5. QED
    BY <1>1, <1>2, <1>3, <1>4 DEF Edit, rows

LEMMA RemoveReceived ==
    ASSUME NEW p \in Page, NEW r, r.kind \in Kinds
    PROVE  Edit(ReceiveRemove(r, p), p, p.loading, p.failed,
                IF r.answer = "ok" THEN Without(p.rows, r.kind, {r.id}) ELSE p.rows, None)
<1> DEFINE rows == IF r.answer = "ok" THEN Without(p.rows, r.kind, {r.id}) ELSE p.rows
           a == [p EXCEPT !.removing = None]
           q == [a EXCEPT !.rows = rows]
<1>0. rows \in Seq(Row)
    <2>1. p.rows \in Seq(Row)
        BY DEF Page
    <2>2. QED
        BY <2>1, WithoutRows
<1>1. a \in Page /\ a.kind = p.kind /\ a.loading = p.loading /\ a.failed = p.failed
      /\ a.rows = p.rows /\ a.removing = None
    BY DEF Page
<1> HIDE DEF a, rows
<1>2. ReceiveRemove(r, p) = q
    BY <1>1 DEF ReceiveRemove, a, rows
<1>3. q \in Page /\ q.kind = a.kind /\ q.loading = a.loading /\ q.failed = a.failed
      /\ q.rows = rows /\ q.removing = a.removing
    BY <1>0, <1>1 DEF Page
<1> HIDE DEF q
<1>4. QED
    BY <1>1, <1>2, <1>3 DEF Edit, rows

(* The playground: the button, the last decision and the log.              *)
Decided(q, loading, result, log) ==
    /\ q \in Playground
    /\ q.loading = loading /\ q.lastResult = result /\ q.history = log

Logged(number, log) == SubSeq(<<number>> \o log, 1, AtMost(LogSize, Len(log) + 1))

LEMMA LoggedIs ==
    ASSUME NEW log \in Seq(Nat), NEW number \in Nat
    PROVE  LET new == Logged(number, log)
           IN  /\ new \in Seq(Nat) /\ Len(new) \in Nat \ {0} /\ DOMAIN new = 1 .. Len(new)
               /\ new[1] = number
               /\ \A n \in 2 .. Len(new) : n - 1 \in DOMAIN log /\ new[n] = log[n - 1]
<1> DEFINE s == <<number>> \o log
           m == AtMost(LogSize, Len(log) + 1)
           new == SubSeq(s, 1, m)
<1>1. /\ s \in Seq(Nat) /\ Len(s) = Len(log) + 1 /\ Len(log) \in Nat
      /\ DOMAIN log = 1 .. Len(log)
      /\ s[1] = number /\ \A n \in 2 .. Len(s) : s[n] = log[n - 1]
    <2>1. <<number>> \in Seq(Nat) /\ Len(<<number>>) = 1 /\ <<number>>[1] = number
        OBVIOUS
    <2>2. QED
        BY <2>1, ConcatProperties, LenProperties
<1>2. m \in Nat \ {0} /\ m <= Len(s)
    BY <1>1, ManagementAssumption DEF AtMost
<1> HIDE DEF s, m
<1>3. \A n \in 1 .. m : s[n] \in Nat
    BY <1>1, <1>2, ElementOfSeq
<1>4. new \in Seq(Nat) /\ Len(new) = m /\ \A n \in 1 .. m : new[n] = s[n]
    <2>1. /\ new \in Seq(Nat) /\ Len(new) = IF 1 <= m THEN m - 1 + 1 ELSE 0
          /\ \A n \in 1 .. m - 1 + 1 : new[n] = s[1 + n - 1]
        BY <1>2, <1>3, SubSeqProperties
    <2> HIDE DEF new
    <2>2. QED
        BY <1>2, <2>1
<1> HIDE DEF new
<1>5. DOMAIN new = 1 .. Len(new)
    BY <1>4, LenProperties
<1>6. \A n \in 2 .. m : n - 1 \in 1 .. Len(log) /\ new[n] = log[n - 1]
    BY <1>1, <1>2, <1>4
<1>7. new[1] = number
    BY <1>1, <1>2, <1>4
<1>8. QED
    BY <1>1, <1>2, <1>4, <1>5, <1>6, <1>7 DEF Logged, new, s, m

LEMMA CheckReceived ==
    ASSUME NEW p \in Playground, NEW r \in Request
    PROVE  /\ r.answer = "ok" =>
                 Decided(ReceiveCheck(r, p), FALSE, r.number, Logged(r.number, p.history))
           /\ r.answer \in {"invalid", "failed"} =>
                 Decided(ReceiveCheck(r, p), FALSE, p.lastResult, p.history)
<1> DEFINE a == [p EXCEPT !.loading = FALSE]
           b == [a EXCEPT !.lastResult = r.number]
           log == Logged(r.number, p.history)
           q == [b EXCEPT !.history = log]
           c == [a EXCEPT !.error = r.answer]
<1>0. r.number \in Nat /\ p.history \in Seq(Nat)
    BY DEF Request, Playground
<1>1. log \in Seq(Nat)
    BY <1>0, LoggedIs
<1>2. /\ a \in Playground /\ a.loading = FALSE
      /\ a.lastResult = p.lastResult /\ a.history = p.history
    BY DEF Playground
<1> HIDE DEF a, log
<1>3. /\ b \in Playground /\ b.loading = a.loading
      /\ b.lastResult = r.number /\ b.history = a.history
    BY <1>0, <1>2 DEF Playground
<1>4. r.answer \in {"invalid", "failed"} =>
          c \in Playground /\ c.loading = a.loading
          /\ c.lastResult = a.lastResult /\ c.history = a.history
    BY <1>2 DEF Playground
<1>5. r.answer \in {"invalid", "failed"} => ReceiveCheck(r, p) = c
    BY DEF ReceiveCheck, a
<1>6. r.answer = "ok" => ReceiveCheck(r, p) = q
    BY <1>2, <1>3 DEF ReceiveCheck, Logged, a, log
<1> HIDE DEF b, c
<1>7. /\ q \in Playground /\ q.loading = b.loading
      /\ q.lastResult = b.lastResult /\ q.history = log
    BY <1>1, <1>3 DEF Playground
<1> HIDE DEF q
<1>8. QED
    BY <1>2, <1>3, <1>4, <1>5, <1>6, <1>7 DEF Decided, log

-----------------------------------------------------------------------------
(***************************************************************************)
(* Requests: what each carries, and that the page that waits for it is one *)
(* that can receive it.                                                    *)
(***************************************************************************)
Good(r) ==
    /\ r \in Request
    /\ r.op = "check" <=> r.kind = "playground"
    /\ (r.op = "create" /\ r.kind = "limits") => r.id \in Identifiers
    /\ r.op = "remove" => r.id \in Ids
    /\ r.op = "check" => r.id \in Nat /\ r.answer \in {None, "ok", "invalid", "failed"}
    /\ (r.op = "create" /\ r.answer = "ok") =>
          \E row \in Row : r.rows = <<row>> /\ (r.kind = "keys" => row.id \in Nat)
    /\ r.tab = None => r.answer = None

Listens(r) == r.tab # None => page[r.tab].kind = r.kind

FlightInv == \A r \in flight : Good(r) /\ Listens(r)
TypeInv   == TypeOK /\ FlightInv

(* No page is closed or becomes one of another kind.                       *)
KindsKept == \A t \in Tabs : page[t] # Closed => page'[t].kind = page[t].kind

LEMMA Tabbed ==
    ASSUME NEW r, Good(r), r.tab # None
    PROVE  r.tab \in Tabs /\ r.kind \in Kinds \cup {"playground"}
BY DEF Good, Request

LEMMA StaysHeard ==
    ASSUME NEW r, Good(r), Listens(r), KindsKept
    PROVE  Listens(r)'
<1>1. r.tab # None => page[r.tab].kind \in Kinds \cup {"playground"} /\ r.tab \in Tabs
    BY Tabbed DEF Listens
<1>2. Closed.kind \notin Kinds \cup {"playground"}
    BY PageKinds
<1>3. QED
    BY <1>1, <1>2 DEF Listens, KindsKept

LEMMA FlightKept ==
    ASSUME FlightInv, KindsKept, NEW m, Good(m), Listens(m)', flight' \subseteq flight \cup {m}
    PROVE  FlightInv'
BY StaysHeard DEF FlightInv

LEMMA FlightShrinks ==
    ASSUME FlightInv, KindsKept, flight' \subseteq flight
    PROVE  FlightInv'
BY StaysHeard DEF FlightInv

Ops == {"list", "create", "remove", "check"}

Asked(t, kind, op, id) ==
    [number |-> sent, tab |-> t, kind |-> kind, op |-> op, id |-> id,
     answer |-> None, rows |-> << >>, late |-> op = "check" /\ ShownRevoked(id)]

LEMMA AskedIsGood ==
    ASSUME NEW t \in Tabs, NEW kind \in Kinds \cup {"playground"}, NEW op \in Ops,
           NEW id \in Ids \cup {None}, sent \in Nat,
           op = "check" <=> kind = "playground",
           (op = "create" /\ kind = "limits") => id \in Identifiers,
           op = "remove" => id \in Ids, op = "check" => id \in Nat
    PROVE  LET m == Asked(t, kind, op, id)
           IN  /\ Good(m)
               /\ m.number = sent /\ m.tab = t /\ m.kind = kind /\ m.op = op /\ m.id = id
               /\ m.answer = None /\ m.rows = << >>
               /\ m.late = (op = "check" /\ ShownRevoked(id))
<1>1. PICK late \in BOOLEAN : late = (op = "check" /\ ShownRevoked(id))
    OBVIOUS
<1>2. PICK m : m = Asked(t, kind, op, id)
    OBVIOUS
<1>3. m = [number |-> sent, tab |-> t, kind |-> kind, op |-> op, id |-> id,
           answer |-> None, rows |-> << >>, late |-> late]
    BY <1>1, <1>2 DEF Asked
<1>4. << >> \in Seq(Row)
    BY EmptySeq
<1>5. m \in Request
    BY <1>3, <1>4 DEF Request, Ops
<1>6. /\ m.number = sent /\ m.tab = t /\ m.kind = kind /\ m.op = op /\ m.id = id
      /\ m.answer = None /\ m.rows = << >> /\ m.late = late
    BY <1>3
<1>7. m.answer # "ok" /\ m.tab # None
    BY <1>6, ManagementAssumption
<1>8. Good(m)
    BY <1>5, <1>6, <1>7 DEF Good
<1>9. QED
    BY <1>1, <1>2, <1>6, <1>8

(* A page sends a request of its kind.                                     *)
LEMMA SendKeeps ==
    ASSUME TypeInv, KindsKept,
           NEW t \in Tabs, NEW kind \in Kinds \cup {"playground"}, NEW op \in Ops,
           NEW id \in Ids \cup {None}, Send(t, kind, op, id), page'[t].kind = kind,
           op = "check" <=> kind = "playground",
           (op = "create" /\ kind = "limits") => id \in Identifiers,
           op = "remove" => id \in Ids, op = "check" => id \in Nat
    PROVE  FlightInv' /\ sent' \in Nat
<1>1. PICK m : m = Asked(t, kind, op, id)
    OBVIOUS
<1>2. sent \in Nat /\ FlightInv
    BY DEF TypeInv, TypeOK
<1>3. Good(m) /\ m.tab = t /\ m.kind = kind
    BY <1>1, <1>2, AskedIsGood
<1>4. Listens(m)'
    BY <1>3 DEF Listens
<1>5. flight' = flight \cup {m} /\ sent' = sent + 1
    BY <1>1 DEF Send, Asked
<1>6. QED
    BY <1>2, <1>3, <1>4, <1>5, FlightKept

(* A request is answered.                                                  *)
Answers == {"ok", "conflict", "missing", "invalid", "failed"}

AnsweredAs(r, answer, rows) == [r EXCEPT !.answer = answer, !.rows = rows]

SameRequest(a, r) ==
    /\ a.number = r.number /\ a.tab = r.tab /\ a.kind = r.kind /\ a.op = r.op /\ a.id = r.id
    /\ a.late = r.late

LEMMA AnsweredIsGood ==
    ASSUME NEW r, Good(r), r.tab # None, NEW answer \in Answers, NEW rows \in Seq(Row),
           r.op = "check" => answer \in {"ok", "invalid", "failed"},
           (r.op = "create" /\ answer = "ok") =>
               \E row \in Row : rows = <<row>> /\ (r.kind = "keys" => row.id \in Nat)
    PROVE  LET a == AnsweredAs(r, answer, rows)
           IN  Good(a) /\ SameRequest(a, r) /\ a.answer = answer /\ a.rows = rows
<1> DEFINE b == [r EXCEPT !.answer = answer]
           a == [b EXCEPT !.rows = rows]
<1>1. r \in Request
    BY DEF Good
<1>2. b \in Request /\ SameRequest(b, r) /\ b.answer = answer
    BY <1>1 DEF Request, SameRequest, Answers
<1> HIDE DEF b
<1>3. a \in Request /\ SameRequest(a, b) /\ a.answer = b.answer /\ a.rows = rows
    BY <1>2 DEF Request, SameRequest
<1>4. a = AnsweredAs(r, answer, rows)
    BY DEF b, AnsweredAs
<1> HIDE DEF a
<1>5. Good(a)
    BY <1>2, <1>3 DEF Good, SameRequest
<1>6. QED
    BY <1>2, <1>3, <1>4, <1>5 DEF SameRequest

LEMMA AnswerKeeps ==
    ASSUME TypeInv, UNCHANGED page, NEW r \in flight, NEW answer \in Answers,
           NEW rows \in Seq(Row), Answered(r, answer, rows),
           r.op = "check" => answer \in {"ok", "invalid", "failed"},
           (r.op = "create" /\ answer = "ok") =>
               \E row \in Row : rows = <<row>> /\ (r.kind = "keys" => row.id \in Nat)
    PROVE  FlightInv'
<1>0. FlightInv /\ Good(r) /\ Listens(r) /\ KindsKept
    BY DEF TypeInv, FlightInv, KindsKept
<1>1. CASE r.tab = None
    BY <1>0, <1>1, FlightShrinks DEF Answered
<1>2. CASE r.tab # None
    <2>1. PICK a : a = AnsweredAs(r, answer, rows)
        OBVIOUS
    <2>2. Good(a) /\ SameRequest(a, r)
        BY <1>0, <1>2, <2>1, AnsweredIsGood
    <2>3. flight' = (flight \ {r}) \cup {a}
        BY <1>2, <2>1 DEF Answered, AnsweredAs
    <2>4. Listens(a)'
        BY <1>0, <2>2 DEF Listens, SameRequest
    <2>5. QED
        BY <1>0, <2>2, <2>3, <2>4, FlightKept
<1>3. QED
    BY <1>1, <1>2

LEMMA OutcomeIs ==
    ASSUME NEW r, Good(r)
    PROVE  /\ Outcome(r) \in Answers
           /\ r.op = "list" => Outcome(r) = "ok"
           /\ r.op = "create" => Outcome(r) \in {"ok", "conflict"}
           /\ r.op = "remove" => Outcome(r) \in {"ok", "missing"}
           /\ r.op = "check" => Outcome(r) \in {"ok", "invalid"}
<1>1. r.op \in Ops
    BY DEF Good, Request, Ops
<1>2. QED
    BY <1>1 DEF Outcome, Ops, Answers

LEMMA InsertedIs ==
    ASSUME NEW r, Good(r), r.op = "create", made \in Nat
    PROVE  /\ Inserted(r) \in Row /\ ~Inserted(r).revoked
           /\ Inserted(r).id = IF r.kind = "limits" THEN r.id ELSE made
           /\ r.kind = "keys" => Inserted(r).id \in Nat
BY DEF Inserted, Good, Row, Ids

LEMMA ServesKeeps ==
    ASSUME TypeInv, NEW r \in flight, NEW op, NEW rows \in Seq(Row), NEW told \in BOOLEAN,
           Serves(r, op, rows, told),
           op = "create" /\ Outcome(r) = "ok" => rows = <<Inserted(r)>>
    PROVE  FlightInv'
<1>1. PICK answer : answer = IF told THEN Outcome(r) ELSE "failed"
    OBVIOUS
<1>2. Good(r) /\ made \in Nat
    BY DEF TypeInv, FlightInv, TypeOK
<1>3. /\ answer \in Answers
      /\ r.op = "check" => answer \in {"ok", "invalid", "failed"}
    BY <1>1, <1>2, OutcomeIs DEF Answers
<1>4. (r.op = "create" /\ answer = "ok") =>
          \E row \in Row : rows = <<row>> /\ (r.kind = "keys" => row.id \in Nat)
    <2> SUFFICES ASSUME r.op = "create", answer = "ok"
                 PROVE  \E row \in Row : rows = <<row>> /\ (r.kind = "keys" => row.id \in Nat)
        OBVIOUS
    <2>1. rows = <<Inserted(r)>>
        BY <1>1 DEF Serves
    <2>2. QED
        BY <1>2, <2>1, InsertedIs
<1>5. Answered(r, answer, rows) /\ UNCHANGED page
    BY <1>1 DEF Serves
<1>6. QED
    BY <1>3, <1>4, <1>5, AnswerKeeps

Orphaned(r) == [r EXCEPT !.tab = None]

LEMMA OrphanedIsGood ==
    ASSUME NEW r, Good(r), r.answer = None
    PROVE  LET o == Orphaned(r)
           IN  /\ Good(o) /\ o.tab = None /\ o.answer = None
               /\ o.kind = r.kind /\ o.op = r.op /\ o.id = r.id /\ o.rows = r.rows
               /\ o.late = r.late
<1> DEFINE o == Orphaned(r)
<1>1. r \in Request
    BY DEF Good
<1>2. /\ o \in Request /\ o.tab = None /\ o.answer = None
      /\ o.kind = r.kind /\ o.op = r.op /\ o.id = r.id /\ o.rows = r.rows /\ o.late = r.late
    BY <1>1 DEF Request, Orphaned
<1> HIDE DEF o
<1>3. Good(o)
    BY <1>2, ManagementAssumption DEF Good
<1>4. QED
    BY <1>2, <1>3 DEF o

(* What a page leaves behind.                                              *)
Remnants(t) == {q \in flight : q.tab = t /\ q.answer = None /\ q.op \in {"create", "remove"}}

LEMMA LeftBehind ==
    ASSUME FlightInv, NEW t \in Tabs, Leave(t)
    PROVE  \A r \in flight' :
              \/ r \in flight /\ r.tab # t
              \/ \E q \in Remnants(t) : r = Orphaned(q) /\ Good(q)
<1>1. flight' = {r \in flight : r.tab # t} \cup {Orphaned(q) : q \in Remnants(t)}
    BY DEF Leave, Remnants, Orphaned
<1>2. \A q \in Remnants(t) : Good(q)
    BY DEF FlightInv, Remnants
<1>3. QED
    BY <1>1, <1>2

LEMMA LeaveKeeps ==
    ASSUME TypeInv, NEW t \in Tabs, Leave(t)
    PROVE  FlightInv'
<1>0. FlightInv /\ page' = [page EXCEPT ![t] = Closed] /\ page \in [Tabs -> Pages]
    BY DEF TypeInv, TypeOK, Leave, Pages
<1>1. ASSUME NEW r \in flight, r.tab # t
      PROVE  Good(r) /\ Listens(r)'
    <2>1. Good(r) /\ Listens(r)
        BY <1>0 DEF FlightInv
    <2>2. r.tab # None => r.tab \in Tabs
        BY <2>1, Tabbed
    <2>3. QED
        BY <1>0, <1>1, <2>1, <2>2 DEF Listens
<1>2. ASSUME NEW q \in Remnants(t), Good(q)
      PROVE  Good(Orphaned(q)) /\ Listens(Orphaned(q))'
    <2>1. q.answer = None
        BY DEF Remnants
    <2>2. Good(Orphaned(q)) /\ Orphaned(q).tab = None
        BY <1>2, <2>1, OrphanedIsGood
    <2>3. QED
        BY <2>2 DEF Listens
<1>3. QED
    BY <1>0, <1>1, <1>2, LeftBehind DEF FlightInv

-----------------------------------------------------------------------------
(***************************************************************************)
(* Type correctness.                                                       *)
(***************************************************************************)
LEMMA PageMoves ==
    ASSUME TypeOK, NEW t \in Tabs, NEW q \in Pages, page' = [page EXCEPT ![t] = q],
           page[t] # Closed => q.kind = page[t].kind
    PROVE  /\ page' \in [Tabs -> Pages] /\ KindsKept
           /\ page'[t] = q /\ \A u \in Tabs \ {t} : page'[u] = page[u]
<1>1. page \in [Tabs -> Pages]
    BY DEF TypeOK, Pages
<1>2. QED
    BY <1>1 DEF KindsKept

(* The answer finds the page that asked.                                   *)
LEMMA Received ==
    ASSUME TypeInv, NEW r \in flight, Receive(r)
    PROVE  LET p == page[r.tab]
           IN  /\ Good(r) /\ r \in Request /\ r.tab \in Tabs /\ p.kind = r.kind /\ r.op \in Ops
               /\ r.op \in {"list", "create", "remove"} => p \in Page /\ r.kind \in Kinds
               /\ r.op = "check" => p \in Playground /\ r.answer \in {"ok", "invalid", "failed"}
               /\ \A u \in Tabs \ {r.tab} : page'[u] = page[u]
               /\ r.op = "list" => page'[r.tab] = ReceiveList(r, p)
               /\ r.op = "create" => page'[r.tab] = ReceiveCreate(r, p)
               /\ r.op = "remove" => page'[r.tab] = ReceiveRemove(r, p)
               /\ r.op = "check" => page'[r.tab] = ReceiveCheck(r, p)
               /\ page' = [page EXCEPT ![r.tab] = page'[r.tab]]
<1>0. page \in [Tabs -> Pages]
    BY DEF TypeInv, TypeOK, Pages
<1>1. /\ Good(r) /\ r \in Request /\ Listens(r) /\ r.answer # None /\ r.tab # None
      /\ r.op \in Ops
    BY DEF TypeInv, FlightInv, Receive, Good, Request, Ops
<1>2. r.tab \in Tabs /\ page[r.tab].kind = r.kind
    BY <1>1, Tabbed DEF Listens
<1>3. PICK p : p = page[r.tab]
    OBVIOUS
<1>4. p \in Pages /\ p.kind = r.kind
    BY <1>0, <1>2, <1>3
<1>5. r.op \in {"list", "create", "remove"} => p \in Page /\ r.kind \in Kinds
    BY <1>1, <1>2, <1>4, Tabbed, PageKinds DEF Good
<1>6. r.op = "check" => p \in Playground /\ r.answer \in {"ok", "invalid", "failed"}
    BY <1>1, <1>4, PageKinds DEF Good
<1>7. PICK q : /\ r.op = "list" => q = ReceiveList(r, p)
               /\ r.op = "create" => q = ReceiveCreate(r, p)
               /\ r.op = "remove" => q = ReceiveRemove(r, p)
               /\ r.op = "check" => q = ReceiveCheck(r, p)
               /\ page' = [page EXCEPT ![r.tab] = q]
    <2>1. page' = [page EXCEPT ![r.tab] =
                     CASE r.op = "list"   -> ReceiveList(r, p)
                       [] r.op = "create" -> ReceiveCreate(r, p)
                       [] r.op = "remove" -> ReceiveRemove(r, p)
                       [] r.op = "check"  -> ReceiveCheck(r, p)]
        BY <1>0, <1>2, <1>3 DEF Receive
    <2>2. QED
        BY <1>1, <2>1 DEF Ops
<1>8. page'[r.tab] = q /\ \A u \in Tabs \ {r.tab} : page'[u] = page[u]
    BY <1>0, <1>2, <1>7
<1>9. QED
    BY <1>1, <1>2, <1>3, <1>5, <1>6, <1>7, <1>8

LEMMA ReceivedKind ==
    ASSUME TypeInv, NEW r \in flight, Receive(r)
    PROVE  page'[r.tab] \in Pages /\ page'[r.tab].kind = page[r.tab].kind
<1> DEFINE p == page[r.tab]
           q == page'[r.tab]
<1>0. TypeOK /\ FlightInv /\ Good(r)
    BY DEF TypeInv, FlightInv
<1>1. /\ r \in Request /\ r.tab \in Tabs /\ p.kind = r.kind /\ r.op \in Ops
      /\ r.op \in {"list", "create", "remove"} => p \in Page /\ r.kind \in Kinds
      /\ r.op = "check" => p \in Playground /\ r.answer \in {"ok", "invalid", "failed"}
      /\ r.op = "list" => q = ReceiveList(r, p)
      /\ r.op = "create" => q = ReceiveCreate(r, p)
      /\ r.op = "remove" => q = ReceiveRemove(r, p)
      /\ r.op = "check" => q = ReceiveCheck(r, p)
      /\ page' = [page EXCEPT ![r.tab] = q]
    BY Received
<1> HIDE DEF p, q
<1>2. (r.op = "create" /\ r.answer = "ok") =>
          r.rows[1] \in Row /\ (r.kind = "keys" => r.rows[1].id \in Nat)
    BY <1>0 DEF Good
<1>3. q \in Pages /\ q.kind = p.kind
    <2>1. CASE r.op = "list"
        <3>1. Edit(q, p, FALSE, r.answer # "ok",
                   IF r.answer = "ok" THEN r.rows ELSE p.rows, p.removing)
            BY <1>1, <2>1, ListReceived
        <3>2. QED
            BY <3>1 DEF Edit, Pages
    <2>2. CASE r.op = "create"
        <3>1. Edit(q, p, p.loading, p.failed,
                   IF r.answer = "ok" THEN <<r.rows[1]>> \o p.rows ELSE p.rows, p.removing)
            BY <1>1, <1>2, <2>2, CreateReceived
        <3>2. QED
            BY <3>1 DEF Edit, Pages
    <2>3. CASE r.op = "remove"
        <3>1. Edit(q, p, p.loading, p.failed,
                   IF r.answer = "ok" THEN Without(p.rows, r.kind, {r.id}) ELSE p.rows, None)
            BY <1>1, <2>3, RemoveReceived
        <3>2. QED
            BY <3>1 DEF Edit, Pages
    <2>4. CASE r.op = "check"
        BY <1>1, <2>4, CheckReceived, PageKinds DEF Decided, Pages
    <2>5. QED
        BY <1>1, <2>1, <2>2, <2>3, <2>4 DEF Ops
<1>4. QED
    BY <1>3 DEF p, q

LEMMA ReceiveType ==
    ASSUME TypeInv, NEW r \in flight, Receive(r)
    PROVE  TypeInv'
<1> DEFINE p == page[r.tab]
           q == page'[r.tab]
<1>0. TypeOK /\ FlightInv /\ Good(r)
    BY DEF TypeInv, FlightInv
<1>1. /\ r \in Request /\ r.tab \in Tabs /\ p.kind = r.kind /\ r.op \in Ops
      /\ r.op \in {"list", "create", "remove"} => p \in Page /\ r.kind \in Kinds
      /\ r.op = "check" => p \in Playground /\ r.answer \in {"ok", "invalid", "failed"}
      /\ r.op = "list" => q = ReceiveList(r, p)
      /\ r.op = "create" => q = ReceiveCreate(r, p)
      /\ r.op = "remove" => q = ReceiveRemove(r, p)
      /\ r.op = "check" => q = ReceiveCheck(r, p)
      /\ page' = [page EXCEPT ![r.tab] = q]
    BY Received
<1> HIDE DEF p, q
<1>2. (r.op = "create" /\ r.answer = "ok") =>
          r.rows[1] \in Row /\ (r.kind = "keys" => r.rows[1].id \in Nat)
    BY <1>0 DEF Good
<1>3. q \in Pages /\ q.kind = p.kind
    BY ReceivedKind DEF p, q
<1>4. page' \in [Tabs -> Pages] /\ KindsKept
    BY <1>0, <1>1, <1>3, PageMoves DEF p
<1>5. FlightInv'
    BY <1>0, <1>4, FlightShrinks DEF Receive
<1>6. known' \in SUBSET Nat
    BY <1>0, <1>2 DEF Receive, TypeOK
<1>7. flight' \in SUBSET Request
    BY <1>5 DEF FlightInv, Good
<1>8. QED
    BY <1>0, <1>4, <1>5, <1>6, <1>7 DEF TypeInv, TypeOK, Receive, Pages

LEMMA ServeType ==
    ASSUME TypeInv, NEW r \in flight, Serve(r) \/ Fail(r)
    PROVE  TypeInv'
<1>0. /\ TypeOK /\ FlightInv /\ Good(r) /\ r \in Request
      /\ table \in [Kinds -> Seq(Row)] /\ made \in Nat
      /\ << >> \in Seq(Row)
    BY EmptySeq DEF TypeInv, FlightInv, TypeOK, Good
<1>1. r.op # "check" => r.kind \in Kinds
    BY <1>0 DEF Good, Request
<1>2. ASSUME FlightInv', table' \in [Kinds -> Seq(Row)], made' \in Nat, raced' \in SUBSET Tabs,
             UNCHANGED <<page, sent, known, visits, crowded>>
      PROVE  TypeInv'
    <2>1. flight' \in SUBSET Request
        BY <1>2 DEF FlightInv, Good
    <2>2. QED
        BY <1>0, <1>2, <2>1 DEF TypeInv, TypeOK
<1>3. ASSUME NEW told \in BOOLEAN, ServeList(r, told)
      PROVE  TypeInv'
    <2>1. table[r.kind] \in Seq(Row)
        BY <1>0, <1>1, <1>3 DEF ServeList, Serves
    <2>2. r.op # "create"
        BY <1>3 DEF ServeList, Serves
    <2>3. FlightInv'
        BY <1>3, <2>1, ServesKeeps DEF ServeList
    <2>4. QED
        BY <1>0, <1>2, <1>3, <2>3 DEF ServeList, Serves, TypeOK
<1>4. ASSUME NEW told \in BOOLEAN, ServeCreate(r, told)
      PROVE  TypeInv'
    <2>1. r.op = "create" /\ r.kind \in Kinds /\ Inserted(r) \in Row
        BY <1>0, <1>1, <1>4, InsertedIs DEF ServeCreate, Serves
    <2>2. <<Inserted(r)>> \in Seq(Row)
        BY <2>1
    <2>3. FlightInv'
        BY <1>4, <2>2, ServesKeeps DEF ServeCreate
    <2>4. Listing(Inserted(r), table[r.kind]) \in Seq(Row)
        BY <1>0, <2>1, RowFirst DEF Listing
    <2>5. table' \in [Kinds -> Seq(Row)]
        BY <1>0, <1>4, <2>1, <2>4 DEF ServeCreate
    <2>6. raced' \in SUBSET Tabs /\ made' \in Nat
        BY <1>0, <1>4 DEF ServeCreate, PassedBy, TypeOK
    <2>7. QED
        BY <1>2, <1>4, <2>3, <2>5, <2>6 DEF ServeCreate, Serves
<1>5. ASSUME NEW told \in BOOLEAN, ServeRemove(r, told)
      PROVE  TypeInv'
    <2>1. r.op = "remove" /\ r.kind \in Kinds
        BY <1>1, <1>5 DEF ServeRemove, Serves
    <2>2. FlightInv'
        BY <1>0, <1>5, <2>1, ServesKeeps DEF ServeRemove
    <2>3. Without(table[r.kind], r.kind, {r.id}) \in Seq(Row)
        BY <1>0, <2>1, WithoutRows
    <2>4. table' \in [Kinds -> Seq(Row)]
        BY <1>0, <1>5, <2>1, <2>3 DEF ServeRemove
    <2>5. raced' \in SUBSET Tabs /\ made' \in Nat
        BY <1>0, <1>5 DEF ServeRemove, PassedBy, TypeOK
    <2>6. QED
        BY <1>2, <1>5, <2>2, <2>4, <2>5 DEF ServeRemove, Serves
<1>6. ASSUME NEW told \in BOOLEAN, ServeCheck(r, told)
      PROVE  TypeInv'
    <2>1. FlightInv'
        BY <1>0, <1>6, ServesKeeps DEF ServeCheck
    <2>2. QED
        BY <1>0, <1>2, <1>6, <2>1 DEF ServeCheck, Serves, TypeOK
<1>7. ASSUME NEW told \in BOOLEAN, Refuse(r, told)
      PROVE  TypeInv'
    <2>1. Outcome(r) # "ok"
        BY <1>7 DEF Refuse
    <2>2. FlightInv'
        BY <1>0, <1>7, <2>1, ServesKeeps DEF Refuse
    <2>3. QED
        BY <1>0, <1>2, <1>7, <2>2 DEF Refuse, Serves, TypeOK
<1>8. ASSUME NEW told \in BOOLEAN, FailLookup(r, told)
      PROVE  TypeInv'
    <2>1. PICK answer : answer = (IF told THEN "invalid" ELSE "failed")
        OBVIOUS
    <2>2. Answered(r, answer, << >>) /\ r.op = "check" /\ UNCHANGED page
        BY <1>8, <2>1 DEF FailLookup
    <2>3. answer \in Answers /\ answer \in {"ok", "invalid", "failed"}
        BY <2>1 DEF Answers
    <2>4. FlightInv'
        BY <1>0, <2>2, <2>3, AnswerKeeps
    <2>5. QED
        BY <1>0, <1>2, <1>8, <2>4 DEF FailLookup, TypeOK
<1>9. CASE Fail(r)
    <2>1. FlightInv'
        BY <1>0, <1>9, AnswerKeeps DEF Fail, Answers
    <2>2. QED
        BY <1>0, <1>2, <1>9, <2>1 DEF Fail, TypeOK
<1>10. QED
    BY <1>3, <1>4, <1>5, <1>6, <1>7, <1>8, <1>9 DEF Serve

(* A page goes on, or appears, and what is under way is left alone.        *)
LEMMA PageMovesType ==
    ASSUME TypeInv, NEW t \in Tabs, NEW q \in Pages, page' = [page EXCEPT ![t] = q],
           page[t] # Closed => q.kind = page[t].kind,
           FlightInv', sent' \in Nat, UNCHANGED <<table, made, known, visits>>,
           raced' \in SUBSET Tabs, crowded' \in SUBSET Tabs
    PROVE  TypeInv'
<1>1. page' \in [Tabs -> Pages]
    BY PageMoves DEF TypeInv
<1>2. flight' \in SUBSET Request
    BY DEF FlightInv, Good
<1>3. QED
    BY <1>1, <1>2 DEF TypeInv, TypeOK, Pages

LEMMA NewPage ==
    /\ Closed \in Pages
    /\ \A kind \in Kinds :
          LET q == [kind |-> kind, rows |-> << >>, loading |-> TRUE, failed |-> FALSE,
                    creating |-> FALSE, removing |-> None, newKey |-> None]
          IN  q \in Page /\ q \in Pages /\ q.kind = kind
    /\ LET q == [kind |-> "playground", loading |-> FALSE, error |-> None,
                 lastResult |-> None, history |-> << >>]
       IN  q \in Playground /\ q \in Pages /\ q.kind = "playground"
<1>1. << >> \in Seq(Row) /\ << >> \in Seq(Nat)
    BY EmptySeq
<1>2. QED
    BY <1>1 DEF Pages, Page, Playground

LEMMA UserType ==
    ASSUME TypeInv, NEW t \in Tabs,
           \/ \E kind \in Kinds : Mount(t, kind)
           \/ MountPlayground(t)
           \/ Leave(t)
           \/ Dismiss(t)
           \/ ClickCheckUnfilled(t)
           \/ ClearHistory(t)
           \/ \E key \in known : ClickCheck(t, key)
           \/ \E id \in Identifiers \cup {None} : ClickCreate(t, id)
           \/ \E id \in Identifiers \cup 0 .. made : ClickRemove(t, id)
    PROVE  TypeInv'
<1> DEFINE p == page[t]
<1>0. /\ TypeOK /\ FlightInv /\ page \in [Tabs -> Pages] /\ p \in Pages
      /\ sent \in Nat /\ made \in Nat /\ known \in SUBSET Nat
      /\ raced \in SUBSET Tabs /\ crowded \in SUBSET Tabs
    BY DEF TypeInv, TypeOK, Pages
<1>1. ASSUME NEW kind \in Kinds, Mount(t, kind)
      PROVE  TypeInv'
    <2> DEFINE q == [kind |-> kind, rows |-> << >>, loading |-> TRUE, failed |-> FALSE,
                     creating |-> FALSE, removing |-> None, newKey |-> None]
    <2>1. q \in Pages /\ q.kind = kind
        BY NewPage
    <2>2. page' = [page EXCEPT ![t] = q] /\ p = Closed /\ Send(t, kind, "list", None)
          /\ UNCHANGED <<raced, crowded>>
        BY <1>1 DEF Mount, Mounted
    <2> HIDE DEF q
    <2>3. KindsKept /\ page'[t].kind = kind
        BY <1>0, <2>1, <2>2, PageMoves
    <2>4. kind # "playground"
        BY DEF Kinds
    <2>5. FlightInv' /\ sent' \in Nat
        BY <2>2, <2>3, <2>4, SendKeeps DEF Ops
    <2>6. QED
        BY <1>0, <2>1, <2>2, <2>5, PageMovesType DEF Send
<1>2. ASSUME NEW q \in Pages, p # Closed => q.kind = p.kind, page' = [page EXCEPT ![t] = q],
             UNCHANGED <<table, flight, sent, made, known, visits, raced, crowded>>
      PROVE  TypeInv'
    <2>1. KindsKept
        BY <1>0, <1>2, PageMoves
    <2>2. FlightInv'
        BY <1>0, <1>2, <2>1, FlightShrinks
    <2>3. QED
        BY <1>0, <1>2, <2>2, PageMovesType
<1>3. CASE MountPlayground(t)
    <2>1. PICK q : /\ q = [kind |-> "playground", loading |-> FALSE, error |-> None,
                           lastResult |-> None, history |-> << >>]
                   /\ q \in Pages
        BY NewPage
    <2>2. page' = [page EXCEPT ![t] = q] /\ p = Closed
          /\ UNCHANGED <<table, flight, sent, made, known, visits, raced, crowded>>
        BY <1>3, <2>1 DEF MountPlayground, Mounted
    <2>3. QED
        BY <1>2, <2>1, <2>2
<1>4. CASE Leave(t)
    <2>1. FlightInv'
        BY <1>4, LeaveKeeps
    <2>2. page' \in [Tabs -> Pages]
        BY <1>0, <1>4 DEF Leave, Pages
    <2>3. flight' \in SUBSET Request
        BY <2>1 DEF FlightInv, Good
    <2>4. QED
        BY <1>0, <1>4, <2>1, <2>2, <2>3 DEF Leave, TypeInv, TypeOK, Pages
<1>5. CASE Dismiss(t)
    <2>1. PICK q : q = [p EXCEPT !.newKey = None]
        OBVIOUS
    <2>2. p \in Page
        BY <1>0, <1>5, PageKinds DEF Dismiss
    <2>3. q \in Page /\ q.kind = p.kind
        BY <2>1, <2>2 DEF Page
    <2>4. page' = [page EXCEPT ![t] = q]
          /\ UNCHANGED <<table, flight, sent, made, known, visits, raced, crowded>>
        BY <1>0, <1>5, <2>1 DEF Dismiss
    <2>5. QED
        BY <1>2, <2>3, <2>4 DEF Pages
<1>6. CASE ClickCheckUnfilled(t)
    <2>1. PICK q : q = [p EXCEPT !.error = "input"]
        OBVIOUS
    <2>2. p \in Playground
        BY <1>0, <1>6, PageKinds DEF ClickCheckUnfilled
    <2>3. q \in Playground /\ q.kind = p.kind
        BY <2>1, <2>2 DEF Playground
    <2>4. page' = [page EXCEPT ![t] = q]
          /\ UNCHANGED <<table, flight, sent, made, known, visits, raced, crowded>>
        BY <1>0, <1>6, <2>1 DEF ClickCheckUnfilled
    <2>5. QED
        BY <1>2, <2>3, <2>4 DEF Pages
<1>7. CASE ClearHistory(t)
    <2>1. PICK q : q = [p EXCEPT !.history = << >>]
        OBVIOUS
    <2>2. p \in Playground /\ << >> \in Seq(Nat)
        BY <1>0, <1>7, PageKinds, EmptySeq DEF ClearHistory
    <2>3. q \in Playground /\ q.kind = p.kind
        BY <2>1, <2>2 DEF Playground
    <2>4. page' = [page EXCEPT ![t] = q]
          /\ UNCHANGED <<table, flight, sent, made, known, visits, raced, crowded>>
        BY <1>0, <1>7, <2>1 DEF ClearHistory
    <2>5. QED
        BY <1>2, <2>3, <2>4 DEF Pages
<1>8. ASSUME NEW q \in Pages, q.kind = p.kind, page' = [page EXCEPT ![t] = q],
             NEW op \in Ops, NEW id \in Ids \cup {None}, Send(t, p.kind, op, id),
             p.kind \in Kinds \cup {"playground"},
             op = "check" <=> p.kind = "playground",
             (op = "create" /\ p.kind = "limits") => id \in Identifiers,
             op = "remove" => id \in Ids, op = "check" => id \in Nat,
             raced' \in SUBSET Tabs, crowded' \in SUBSET Tabs
      PROVE  TypeInv'
    <2>1. KindsKept /\ page'[t].kind = p.kind
        BY <1>0, <1>8, PageMoves
    <2>2. FlightInv' /\ sent' \in Nat
        BY <1>8, <2>1, SendKeeps
    <2>3. QED
        BY <1>0, <1>8, <2>2, PageMovesType DEF Send
<1>9. ASSUME NEW key \in known, ClickCheck(t, key)
      PROVE  TypeInv'
    <2>1. PICK a : a = [p EXCEPT !.error = None]
        OBVIOUS
    <2>2. PICK q : q = [a EXCEPT !.loading = TRUE]
        OBVIOUS
    <2>3. p \in Playground /\ p.kind = "playground"
        BY <1>0, <1>9, PageKinds DEF ClickCheck
    <2>4. a \in Playground /\ a.kind = p.kind
        BY <2>1, <2>3 DEF Playground
    <2>5. q \in Playground /\ q.kind = p.kind
        BY <2>2, <2>4 DEF Playground
    <2>6. page' = [page EXCEPT ![t] = q] /\ Send(t, p.kind, "check", key)
          /\ UNCHANGED <<raced, crowded>>
        BY <1>0, <1>9, <2>1, <2>2, <2>3 DEF ClickCheck
    <2>7. key \in Nat /\ key \in Ids \cup {None} /\ "check" \in Ops
        BY <1>0 DEF Ids, Ops
    <2>8. QED
        BY <1>0, <1>8, <2>3, <2>5, <2>6, <2>7 DEF Pages
<1>10. ASSUME NEW id \in Identifiers \cup {None}, ClickCreate(t, id)
       PROVE  TypeInv'
    <2>1. PICK q : q = [p EXCEPT !.creating = TRUE]
        OBVIOUS
    <2>2. p \in Page /\ p.kind \in Kinds
        BY <1>0, <1>10, PageKinds DEF ClickCreate
    <2>3. q \in Page /\ q.kind = p.kind
        BY <2>1, <2>2 DEF Page
    <2>4. page' = [page EXCEPT ![t] = q] /\ Send(t, p.kind, "create", id)
        BY <1>0, <1>10, <2>1 DEF ClickCreate
    <2>5. raced' \in SUBSET Tabs /\ crowded' \in SUBSET Tabs
        BY <1>0, <1>10 DEF ClickCreate
    <2>6. /\ id \in Ids \cup {None} /\ "create" \in Ops /\ p.kind # "playground"
          /\ p.kind = "limits" => id \in Identifiers
        BY <1>10, <2>2 DEF Ids, Ops, Kinds, ClickCreate
    <2>7. QED
        BY <1>8, <2>2, <2>3, <2>4, <2>5, <2>6 DEF Pages
<1>11. ASSUME NEW id \in Identifiers \cup 0 .. made, ClickRemove(t, id)
       PROVE  TypeInv'
    <2>1. PICK q : q = [p EXCEPT !.removing = id]
        OBVIOUS
    <2>2. p \in Page /\ p.kind \in Kinds
        BY <1>0, <1>11, PageKinds DEF ClickRemove, Shown
    <2>3. id \in Ids /\ "remove" \in Ops /\ p.kind # "playground"
        BY <1>0, <2>2 DEF Ids, Ops, Kinds
    <2>4. q \in Page /\ q.kind = p.kind
        BY <2>1, <2>2, <2>3 DEF Page
    <2>5. page' = [page EXCEPT ![t] = q] /\ Send(t, p.kind, "remove", id)
        BY <1>0, <1>11, <2>1 DEF ClickRemove
    <2>6. raced' \in SUBSET Tabs /\ crowded' \in SUBSET Tabs
        BY <1>0, <1>11 DEF ClickRemove
    <2>7. QED
        BY <1>8, <2>2, <2>3, <2>4, <2>5, <2>6 DEF Pages
<1>12. QED
    BY <1>1, <1>3, <1>4, <1>5, <1>6, <1>7, <1>9, <1>10, <1>11

(* Every step is that of a tab, of a request, or none.                     *)
LEMMA Steps ==
    ASSUME [Next]_vars
    PROVE  \/ \E t \in Tabs :
                \/ \E kind \in Kinds : Mount(t, kind)
                \/ MountPlayground(t)
                \/ Leave(t)
                \/ Dismiss(t)
                \/ ClickCheckUnfilled(t)
                \/ ClearHistory(t)
                \/ \E key \in known : ClickCheck(t, key)
                \/ \E id \in Identifiers \cup {None} : ClickCreate(t, id)
                \/ \E id \in Identifiers \cup 0 .. made : ClickRemove(t, id)
           \/ \E r \in flight : Serve(r) \/ Fail(r)
           \/ \E r \in flight : Receive(r)
           \/ UNCHANGED vars
BY DEF Next, Settled

LEMMA TypeStep == TypeInv /\ [Next]_vars => TypeInv'
<1> SUFFICES ASSUME TypeInv, [Next]_vars
             PROVE  TypeInv'
    OBVIOUS
<1>1. CASE UNCHANGED vars
    BY <1>1 DEF vars, TypeInv, TypeOK, FlightInv, Listens
<1>2. QED
    BY <1>1, Steps, UserType, ServeType, ReceiveType

LEMMA TypeInit == Init => TypeInv
<1> SUFFICES ASSUME Init
             PROVE  TypeInv
    OBVIOUS
<1>0. Existing \in Nat /\ << >> \in Seq(Row)
    BY ManagementAssumption, EmptySeq
<1>1. PICK keys : keys = [n \in 1 .. Existing |->
                            [id |-> Existing - n, version |-> Existing - n, revoked |-> FALSE]]
    OBVIOUS
<1>2. keys \in [1 .. Existing -> Row]
    BY <1>0, <1>1 DEF Row, Ids
<1>3. keys \in Seq(Row)
    BY <1>0, <1>2
<1>4. table \in [Kinds -> Seq(Row)]
    BY <1>0, <1>1, <1>3 DEF Init
<1>5. page \in [Tabs -> Page \cup Playground \cup {Closed}]
    BY DEF Init
<1>6. known \in SUBSET Nat /\ sent \in Nat /\ made \in Nat /\ visits \in Visits
    BY <1>0 DEF Init
<1>7. flight = {} /\ raced = {} /\ crowded = {}
    BY DEF Init
<1>8. QED
    BY <1>4, <1>5, <1>6, <1>7 DEF TypeInv, TypeOK, FlightInv

LEMMA TypeInvariant == Spec => []TypeInv
BY TypeInit, TypeStep, PTL DEF Spec

(* The variables keep their types, whatever the tabs do and however        *)
(* answers come (limits/page.tsx, api-keys/page.tsx, playground/page.tsx,  *)
(* store.go): no answer reaches a page that cannot take it.                *)
THEOREM TypeCorrect == Spec => []TypeOK
<1>1. TypeInv => TypeOK
    BY DEF TypeInv
<1>2. QED
    BY <1>1, TypeInvariant, PTL

-----------------------------------------------------------------------------
(***************************************************************************)
(* Revocation.  A key has a number below `made'.  A key that is not        *)
(* accepted stays so; every copy of a row that says that its key is        *)
(* revoked, in the table, on a page or in an answer on its way, is right.  *)
(***************************************************************************)
RowRight(row) == row.id \in 0 .. made - 1 /\ (row.revoked => ~Accepted(row.id))

KeysRequest(r) ==
    /\ r.kind = "keys" => \A row \in Listed(r.rows) : RowRight(row)
    /\ (r.kind = "keys" /\ r.op = "remove") =>
          r.id \in 0 .. made - 1 /\ (r.answer = "ok" => ~Accepted(r.id))
    /\ r.op = "check" => /\ r.id \in 0 .. made - 1
                         /\ r.late => ~Accepted(r.id)
                         /\ r.answer = "ok" => ~r.late

TableRight == \A row \in Listed(table["keys"]) : RowRight(row)
PageRight(t) == page[t].kind = "keys" => \A row \in Listed(page[t].rows) : RowRight(row)

KeysInv ==
    /\ known \subseteq 0 .. made - 1
    /\ TableRight
    /\ \A t \in Tabs : PageRight(t)
    /\ \A r \in flight : KeysRequest(r)

Older ==
    /\ made \in Nat /\ made' \in Nat /\ made <= made'
    /\ \A id \in 0 .. made - 1 : Accepted(id)' => Accepted(id)

LEMMA NumberStays ==
    ASSUME Older
    PROVE  \A id \in 0 .. made - 1 : id \in (0 .. made - 1)'
<1>1. PICK m \in Nat, n \in Nat : m = made /\ n = made' /\ m <= n
    BY DEF Older
<1>2. m <= n
    BY <1>1
<1>3. ASSUME NEW id \in 0 .. m - 1
      PROVE  id \in 0 .. n - 1
    BY <1>2
<1>4. QED
    BY <1>1, <1>3

LEMMA RowStays ==
    ASSUME Older, NEW row, RowRight(row)
    PROVE  RowRight(row)'
<1>1. row.id \in 0 .. made - 1 /\ row.id \in (0 .. made - 1)'
    BY NumberStays DEF RowRight
<1>2. QED
    BY <1>1 DEF RowRight, Older

LEMMA RequestStays ==
    ASSUME Older, NEW r, KeysRequest(r)
    PROVE  KeysRequest(r)'
<1>1. r.kind = "keys" => \A row \in Listed(r.rows) : RowRight(row)'
    BY RowStays DEF KeysRequest
<1>2. r.id \in 0 .. made - 1 => /\ r.id \in (0 .. made - 1)'
                                /\ Accepted(r.id)' => Accepted(r.id)
    BY NumberStays DEF Older
<1>3. QED
    BY <1>1, <1>2 DEF KeysRequest

LEMMA KeysKept ==
    ASSUME KeysInv, Older, TableRight', flight' \subseteq flight,
           known' \subseteq known, \A t \in Tabs : PageRight(t)'
    PROVE  KeysInv'
<1>1. known' \subseteq (0 .. made - 1)'
    BY NumberStays DEF KeysInv
<1>2. \A r \in flight' : KeysRequest(r)'
    BY RequestStays DEF KeysInv
<1>3. QED
    BY <1>1, <1>2 DEF KeysInv

LEMMA SameTableSameKeys ==
    ASSUME TypeInv, table'["keys"] = table["keys"], made' \in Nat, made <= made'
    PROVE  Older /\ \A id : Accepted(id)' = Accepted(id)
<1>1. made \in Nat
    BY DEF TypeInv, TypeOK
<1>2. \A id : Accepted(id)' = Accepted(id)
    BY DEF Accepted, Present
<1>3. QED
    BY <1>1, <1>2 DEF Older

LEMMA PagesStay ==
    ASSUME KeysInv, Older, NEW t \in Tabs,
           page'[t] = page[t] \/ page'[t].kind # "keys"
    PROVE  PageRight(t)'
<1>1. PageRight(t)
    BY DEF KeysInv
<1>2. CASE page'[t].kind # "keys"
    BY <1>2 DEF PageRight
<1>3. CASE page'[t] = page[t] /\ page[t].kind = "keys"
    <2>1. \A row \in Listed(page[t].rows) : RowRight(row)'
        BY <1>1, <1>3, RowStays DEF PageRight
    <2>2. QED
        BY <1>3, <2>1 DEF PageRight, Listed
<1>4. QED
    BY <1>2, <1>3

(* A key is made, or marked.                                               *)
LEMMA KeysInserted ==
    ASSUME TypeInv, KeysInv, NEW r \in flight, NEW told \in BOOLEAN, ServeCreate(r, told)
    PROVE  /\ Older /\ TableRight'
           /\ r.kind = "keys" => \A row : row = Inserted(r) => RowRight(row)'
<1> DEFINE x == Inserted(r)
<1>0. /\ Good(r) /\ r.op = "create" /\ made \in Nat /\ made' = made + 1
      /\ table \in [Kinds -> Seq(Row)] /\ r.kind \in Kinds
    BY DEF TypeInv, TypeOK, FlightInv, ServeCreate, Serves, Good, Request
<1>1. CASE r.kind = "limits"
    <2>1. table'["keys"] = table["keys"]
        BY <1>0, <1>1 DEF ServeCreate, Kinds
    <2>2. Older
        BY <1>0, <2>1, SameTableSameKeys
    <2>3. \A row \in Listed(table["keys"]) : RowRight(row)'
        BY <2>2, RowStays DEF KeysInv, TableRight
    <2>4. QED
        BY <1>1, <2>1, <2>2, <2>3 DEF TableRight, Listed
<1>2. CASE r.kind = "keys"
    <2>1. x \in Row /\ x.id = made /\ ~x.revoked
        BY <1>0, <1>2, InsertedIs
    <2>2. PICK y : y = x
        OBVIOUS
    <2>3. table["keys"] \in Seq(Row) /\ table'["keys"] = <<y>> \o table["keys"]
        BY <1>0, <1>2, <2>2 DEF ServeCreate, Listing, Kinds
    <2>4. Listed(table'["keys"]) = Listed(table["keys"]) \cup {y}
        BY <2>1, <2>2, <2>3, RowFirst
    <2>5. Older
        <3> SUFFICES ASSUME NEW id \in 0 .. made - 1, Accepted(id)'
                     PROVE  Accepted(id)
            BY <1>0 DEF Older
        <3>1. PICK row \in Listed(table'["keys"]) : row.id = id /\ ~row.revoked
            BY DEF Accepted, Present
        <3>2. id # made
            BY <1>0
        <3>3. row \in Listed(table["keys"])
            BY <2>1, <2>2, <2>4, <3>1, <3>2
        <3>4. QED
            BY <3>1, <3>3 DEF Accepted, Present
    <2>6. RowRight(y)'
        BY <1>0, <2>1, <2>2 DEF RowRight
    <2>7. \A row \in Listed(table["keys"]) : RowRight(row)'
        BY <2>5, RowStays DEF KeysInv, TableRight
    <2>8. TableRight'
        BY <2>4, <2>6, <2>7 DEF TableRight, Listed
    <2>9. QED
        BY <2>2, <2>5, <2>6, <2>8
<1>3. QED
    BY <1>0, <1>1, <1>2 DEF Kinds

LEMMA KeysRemoved ==
    ASSUME TypeInv, KeysInv, NEW r \in flight, NEW told \in BOOLEAN, ServeRemove(r, told)
    PROVE  /\ Older /\ TableRight'
           /\ r.kind = "keys" => r.id \in 0 .. made - 1 /\ ~Accepted(r.id)'
<1>0. /\ Good(r) /\ r.op = "remove" /\ made \in Nat /\ made' = made
      /\ table \in [Kinds -> Seq(Row)] /\ r.kind \in Kinds
    BY DEF TypeInv, TypeOK, FlightInv, ServeRemove, Serves, Good, Request
<1>1. CASE r.kind = "limits"
    <2>1. table'["keys"] = table["keys"]
        BY <1>0, <1>1 DEF ServeRemove, Kinds
    <2>2. Older
        BY <1>0, <2>1, SameTableSameKeys
    <2>3. \A row \in Listed(table["keys"]) : RowRight(row)'
        BY <2>2, RowStays DEF KeysInv, TableRight
    <2>4. QED
        BY <1>1, <2>1, <2>2, <2>3 DEF TableRight, Listed
<1>2. CASE r.kind = "keys"
    <2>0. PICK gone : gone = {r.id}
        OBVIOUS
    <2>1. PICK left : left = Without(table["keys"], "keys", gone)
        OBVIOUS
    <2>2. table["keys"] \in Seq(Row) /\ "keys" \in Kinds /\ table'["keys"] = left
        BY <1>0, <1>2, <2>0, <2>1 DEF ServeRemove, Kinds
    <2>3. \A row \in Listed(left) :
             /\ \E old \in Listed(table["keys"]) : old.id = row.id
             /\ row \in Listed(table["keys"]) \/ (row.id \in gone /\ row.revoked)
             /\ row.id \in gone => row.revoked
        BY <2>1, <2>2, WithoutRows
    <2>4. r.id \in 0 .. made - 1
        BY <1>0, <1>2 DEF KeysInv, KeysRequest
    <2>5. ~Accepted(r.id)'
        BY <2>0, <2>2, <2>3 DEF Accepted, Present, Listed
    <2>6. Older
        <3> SUFFICES ASSUME NEW id \in 0 .. made - 1, Accepted(id)'
                     PROVE  Accepted(id)
            BY <1>0 DEF Older
        <3>1. PICK row \in Listed(left) : row.id = id /\ ~row.revoked
            BY <2>2 DEF Accepted, Present, Listed
        <3>2. row \in Listed(table["keys"])
            BY <2>3, <3>1
        <3>3. QED
            BY <3>1, <3>2 DEF Accepted, Present
    <2>7. ASSUME NEW row \in Listed(left)
          PROVE  RowRight(row)'
        <3>1. CASE row \in Listed(table["keys"])
            BY <2>6, <3>1, RowStays DEF KeysInv, TableRight
        <3>2. CASE row.id \in gone
            <4>1. row.id = r.id
                BY <2>0, <3>2
            <4>2. QED
                BY <1>0, <2>4, <2>5, <4>1 DEF RowRight
        <3>3. QED
            BY <2>3, <3>1, <3>2
    <2>8. TableRight'
        BY <2>2, <2>7 DEF TableRight, Listed
    <2>9. QED
        BY <2>4, <2>5, <2>6, <2>8
<1>3. QED
    BY <1>0, <1>1, <1>2 DEF Kinds

LEMMA AnsweredFields ==
    ASSUME NEW r \in Request, NEW answer, NEW rows
    PROVE  LET a == AnsweredAs(r, answer, rows)
           IN  SameRequest(a, r) /\ a.answer = answer /\ a.rows = rows
BY DEF AnsweredAs, SameRequest, Request

(* The answer to r is sent, after the table has changed.                   *)
LEMMA KeysAnswered ==
    ASSUME TypeInv, KeysInv, Older, TableRight', UNCHANGED <<page, known>>,
           NEW r \in flight, NEW answer, NEW rows, Answered(r, answer, rows),
           r.kind = "keys" => \A row \in Listed(rows) : RowRight(row)',
           (r.kind = "keys" /\ r.op = "remove" /\ answer = "ok") => ~Accepted(r.id)',
           (r.op = "check" /\ answer = "ok") => Accepted(r.id)
    PROVE  KeysInv'
<1>0. r \in Request /\ KeysRequest(r)
    BY DEF TypeInv, TypeOK, KeysInv
<1>1. PICK a : a = AnsweredAs(r, answer, rows)
    OBVIOUS
<1>2. SameRequest(a, r) /\ a.answer = answer /\ a.rows = rows
    BY <1>0, <1>1, AnsweredFields
<1>3. r.id \in 0 .. made - 1 => /\ r.id \in (0 .. made - 1)'
                                /\ Accepted(r.id)' => Accepted(r.id)
    BY NumberStays DEF Older
<1>4. KeysRequest(a)'
    <2>1. r.kind = "keys" => \A row \in Listed(rows) : RowRight(row)'
        OBVIOUS
    <2>2. a.kind = "keys" => \A row \in Listed(a.rows) : RowRight(row)'
        BY <1>2, <2>1 DEF SameRequest
    <2>3. (a.kind = "keys" /\ a.op = "remove") =>
              a.id \in (0 .. made - 1)' /\ (a.answer = "ok" => ~Accepted(a.id)')
        BY <1>0, <1>2, <1>3 DEF KeysRequest, SameRequest
    <2>4. a.op = "check" => /\ a.id \in (0 .. made - 1)'
                            /\ a.late => ~Accepted(a.id)'
                            /\ a.answer = "ok" => ~a.late
        BY <1>0, <1>2, <1>3 DEF KeysRequest, SameRequest
    <2>5. QED
        BY <2>2, <2>3, <2>4 DEF KeysRequest
<1>5. \A q \in flight' : q \in flight \/ q = a
    BY <1>1 DEF Answered, AnsweredAs
<1>6. \A q \in flight' : KeysRequest(q)'
    BY <1>4, <1>5, RequestStays DEF KeysInv
<1>7. \A t \in Tabs : PageRight(t)'
    BY PagesStay
<1>8. known' \subseteq (0 .. made - 1)'
    BY NumberStays DEF KeysInv
<1>9. QED
    BY <1>6, <1>7, <1>8 DEF KeysInv

LEMMA KeysServe ==
    ASSUME TypeInv, KeysInv, NEW r \in flight, Serve(r) \/ Fail(r)
    PROVE  KeysInv'
<1>0. /\ made \in Nat /\ Good(r) /\ KeysRequest(r) /\ TableRight
      /\ Listed(<< >>) = {}
    BY DEF TypeInv, TypeOK, FlightInv, KeysInv, Listed
<1>1. ASSUME UNCHANGED <<table, made, page, known>>,
             NEW answer, NEW rows, Answered(r, answer, rows),
             r.kind = "keys" => \A row \in Listed(rows) : RowRight(row),
             r.op # "remove" \/ answer # "ok",
             (r.op = "check" /\ answer = "ok") => Accepted(r.id)
      PROVE  KeysInv'
    <2>1. Older
        BY <1>0, <1>1, SameTableSameKeys
    <2>2. TableRight'
        BY <1>0, <1>1 DEF TableRight, RowRight, Accepted, Present, Listed
    <2>3. r.kind = "keys" => \A row \in Listed(rows) : RowRight(row)'
        BY <1>1, <2>1, RowStays
    <2>4. QED
        BY <1>1, <2>1, <2>2, <2>3, KeysAnswered
<1>2. (r.op = "check" /\ Outcome(r) = "ok") => Accepted(r.id)
    BY <1>0 DEF Outcome
<1>4. ASSUME NEW told \in BOOLEAN, ServeList(r, told)
      PROVE  KeysInv'
    <2>1. r.kind = "keys" => \A row \in Listed(table[r.kind]) : RowRight(row)
        BY <1>0 DEF TableRight
    <2>2. PICK rows : rows = table[r.kind]
        OBVIOUS
    <2>3. PICK answer : Answered(r, answer, rows)
        BY <1>4, <2>2 DEF ServeList, Serves
    <2>4. r.op = "list" /\ UNCHANGED <<table, made, page, known>>
        BY <1>4 DEF ServeList, Serves
    <2>5. QED
        BY <1>1, <2>1, <2>2, <2>3, <2>4
<1>5. ASSUME NEW told \in BOOLEAN, ServeCreate(r, told)
      PROVE  KeysInv'
    <2>1. PICK x : x = Inserted(r)
        OBVIOUS
    <2>2. Older /\ TableRight' /\ (r.kind = "keys" => RowRight(x)')
        BY <1>5, <2>1, KeysInserted
    <2>3. PICK rows : rows = <<x>>
        OBVIOUS
    <2>4. Listed(rows) = {x}
        BY <2>3 DEF Listed
    <2>5. PICK answer : Answered(r, answer, rows)
        BY <1>5, <2>1, <2>3 DEF ServeCreate, Serves
    <2>6. r.op = "create" /\ UNCHANGED <<page, known>>
        BY <1>5 DEF ServeCreate, Serves
    <2>7. QED
        BY <2>2, <2>4, <2>5, <2>6, KeysAnswered
<1>6. ASSUME NEW told \in BOOLEAN, ServeRemove(r, told)
      PROVE  KeysInv'
    <2>1. Older /\ TableRight' /\ (r.kind = "keys" => ~Accepted(r.id)')
        BY <1>6, KeysRemoved
    <2>2. PICK answer : Answered(r, answer, << >>)
        BY <1>6 DEF ServeRemove, Serves
    <2>3. r.op = "remove" /\ UNCHANGED <<page, known>>
        BY <1>6 DEF ServeRemove, Serves
    <2>4. QED
        BY <1>0, <2>1, <2>2, <2>3, KeysAnswered
<1>7. ASSUME NEW told \in BOOLEAN, ServeCheck(r, told)
      PROVE  KeysInv'
    <2>1. PICK answer : answer = (IF told THEN Outcome(r) ELSE "failed")
        OBVIOUS
    <2>2. Answered(r, answer, << >>) /\ r.op = "check" /\ Outcome(r) = "ok"
          /\ UNCHANGED <<table, made, page, known>>
        BY <1>7, <2>1 DEF ServeCheck, Serves
    <2>3. QED
        BY <1>0, <1>1, <1>2, <2>2
<1>8. ASSUME NEW told \in BOOLEAN, Refuse(r, told)
      PROVE  KeysInv'
    <2>1. PICK answer : answer = (IF told THEN Outcome(r) ELSE "failed")
        OBVIOUS
    <2>2. Answered(r, answer, << >>) /\ Outcome(r) \in {"conflict", "missing", "invalid"}
          /\ UNCHANGED <<table, made, page, known>>
        BY <1>8, <2>1 DEF Refuse, Serves
    <2>3. answer # "ok"
        BY <2>1, <2>2
    <2>4. QED
        BY <1>0, <1>1, <2>2, <2>3
<1>9. ASSUME NEW told \in BOOLEAN, FailLookup(r, told)
      PROVE  KeysInv'
    <2>1. PICK answer : answer = (IF told THEN "invalid" ELSE "failed")
        OBVIOUS
    <2>2. Answered(r, answer, << >>) /\ UNCHANGED <<table, made, page, known>>
        BY <1>9, <2>1 DEF FailLookup
    <2>3. answer # "ok"
        BY <2>1
    <2>4. QED
        BY <1>0, <1>1, <2>2, <2>3
<1>10. CASE Fail(r)
    <2>1. Answered(r, "failed", << >>) /\ UNCHANGED <<table, made, page, known>>
        BY <1>10 DEF Fail
    <2>2. QED
        BY <1>0, <1>1, <2>1
<1>11. QED
    BY <1>4, <1>5, <1>6, <1>7, <1>8, <1>9, <1>10 DEF Serve

LEMMA KeysReceive ==
    ASSUME TypeInv, KeysInv, NEW r \in flight, Receive(r)
    PROVE  KeysInv'
<1> DEFINE p == page[r.tab]
           q == page'[r.tab]
<1>0. /\ UNCHANGED <<table, made>> /\ flight' \subseteq flight /\ made \in Nat
      /\ KeysRequest(r) /\ TableRight /\ Good(r)
    BY DEF Receive, TypeInv, TypeOK, FlightInv, KeysInv
<1>1. Older /\ \A id : Accepted(id)' = Accepted(id)
    BY <1>0, SameTableSameKeys
<1>2. TableRight'
    BY <1>0 DEF TableRight, RowRight, Accepted, Present, Listed
<1>3. /\ r \in Request /\ r.tab \in Tabs /\ p.kind = r.kind /\ r.op \in Ops
      /\ r.op \in {"list", "create", "remove"} => p \in Page /\ r.kind \in Kinds
      /\ r.op = "check" => p \in Playground /\ r.answer \in {"ok", "invalid", "failed"}
      /\ r.op = "list" => q = ReceiveList(r, p)
      /\ r.op = "create" => q = ReceiveCreate(r, p)
      /\ r.op = "remove" => q = ReceiveRemove(r, p)
      /\ r.op = "check" => q = ReceiveCheck(r, p)
      /\ \A u \in Tabs \ {r.tab} : page'[u] = page[u]
    BY Received
<1>4. PageRight(r.tab) /\ \A t \in Tabs \ {r.tab} : PageRight(t)'
    BY <1>1, <1>3, PagesStay DEF KeysInv
<1>5. (r.op = "create" /\ r.answer = "ok") =>
          /\ r.rows[1] \in Row
          /\ r.kind = "keys" => r.rows[1].id \in Nat /\ RowRight(r.rows[1])
    <2> SUFFICES ASSUME r.op = "create", r.answer = "ok"
                 PROVE  /\ r.rows[1] \in Row
                        /\ r.kind = "keys" => r.rows[1].id \in Nat /\ RowRight(r.rows[1])
        OBVIOUS
    <2>1. PICK row \in Row : r.rows = <<row>> /\ (r.kind = "keys" => row.id \in Nat)
        BY <1>0 DEF Good
    <2>2. r.rows[1] = row /\ row \in Listed(r.rows)
        BY <2>1 DEF Listed
    <2>3. QED
        BY <1>0, <2>1, <2>2 DEF KeysRequest
<1> DEFINE R == r.rows[1]
<1> HIDE DEF p, q, R
<1>6. r.kind = "keys" => \A row \in Listed(q.rows) : RowRight(row)
    <2> SUFFICES ASSUME r.kind = "keys"
                 PROVE  \A row \in Listed(q.rows) : RowRight(row)
        OBVIOUS
    <2>0. \A row \in Listed(p.rows) : RowRight(row)
        BY <1>3, <1>4 DEF PageRight, p
    <2>1. CASE r.op = "list"
        <3>1. Edit(q, p, FALSE, r.answer # "ok",
                   IF r.answer = "ok" THEN r.rows ELSE p.rows, p.removing)
            BY <1>3, <2>1, ListReceived
        <3>2. QED
            BY <1>0, <2>0, <3>1 DEF Edit, KeysRequest
    <2>2. CASE r.op = "create"
        <3>1. Edit(q, p, p.loading, p.failed,
                   IF r.answer = "ok" THEN <<R>> \o p.rows ELSE p.rows, p.removing)
            BY <1>3, <1>5, <2>2, CreateReceived DEF R
        <3>2. q.rows = IF r.answer = "ok" THEN <<R>> \o p.rows ELSE p.rows
            BY <3>1 DEF Edit
        <3>3. CASE r.answer = "ok"
            <4>1. R \in Row /\ RowRight(R) /\ p.rows \in Seq(Row)
                BY <1>3, <1>5, <2>2, <3>3 DEF R, Page
            <4>2. Listed(q.rows) = Listed(p.rows) \cup {R}
                BY <3>2, <3>3, <4>1, RowFirst
            <4>3. QED
                BY <2>0, <4>1, <4>2
        <3>4. QED
            BY <2>0, <3>2, <3>3
    <2>3. CASE r.op = "remove"
        <3>1. Edit(q, p, p.loading, p.failed,
                   IF r.answer = "ok" THEN Without(p.rows, r.kind, {r.id}) ELSE p.rows, None)
            BY <1>3, <2>3, RemoveReceived
        <3>2. PICK gone : gone = {r.id}
            OBVIOUS
        <3>3. q.rows = IF r.answer = "ok" THEN Without(p.rows, "keys", gone) ELSE p.rows
            BY <3>1, <3>2 DEF Edit
        <3>4. CASE r.answer = "ok"
            <4>0. p.rows \in Seq(Row) /\ "keys" \in Kinds
                BY <1>3, <2>3 DEF Page, Kinds
            <4>1. \A row \in Listed(q.rows) : row \in Listed(p.rows) \/ row.id \in gone
                BY <3>3, <3>4, <4>0, WithoutRows
            <4>2. r.id \in 0 .. made - 1 /\ ~Accepted(r.id)
                BY <1>0, <2>3, <3>4 DEF KeysRequest
            <4>3. ASSUME NEW row \in Listed(q.rows)
                  PROVE  RowRight(row)
                <5>1. CASE row \in Listed(p.rows)
                    BY <2>0, <5>1
                <5>2. CASE row.id \in gone
                    <6>1. row.id = r.id
                        BY <3>2, <5>2
                    <6>2. QED
                        BY <4>2, <6>1 DEF RowRight
                <5>3. QED
                    BY <4>1, <5>1, <5>2
            <4>4. QED
                BY <4>3
        <3>5. QED
            BY <2>0, <3>3, <3>4
    <2>4. CASE r.op = "check"
        BY <1>0, <2>4 DEF Good
    <2>5. QED
        BY <1>3, <2>1, <2>2, <2>3, <2>4 DEF Ops
<1>7. q.kind = p.kind
    BY ReceivedKind DEF p, q
<1>8. \A t \in Tabs : PageRight(t)'
    <2>1. PageRight(r.tab)'
        <3>1. r.kind = "keys" => \A row \in Listed(q.rows) : RowRight(row)'
            BY <1>1, <1>6, RowStays
        <3>2. QED
            BY <1>3, <1>7, <3>1 DEF PageRight, q, Listed
    <2>2. QED
        BY <1>4, <2>1
<1>9. known' \subseteq (0 .. made - 1)'
    <2>1. known' \subseteq known \cup {x \in {R.id} : r.op = "create" /\ r.kind = "keys" /\ r.answer = "ok"}
        BY DEF Receive, R
    <2>2. (r.op = "create" /\ r.kind = "keys" /\ r.answer = "ok") => R.id \in 0 .. made - 1
        BY <1>5 DEF R, RowRight
    <2>3. known' \subseteq 0 .. made - 1
        BY <2>1, <2>2 DEF KeysInv
    <2>4. QED
        BY <1>0, <2>3
<1>10. \A m \in flight' : KeysRequest(m)'
    BY <1>0, <1>1, RequestStays DEF KeysInv
<1>11. QED
    BY <1>2, <1>8, <1>9, <1>10 DEF KeysInv

LEMMA KeysUser ==
    ASSUME TypeInv, KeysInv, NEW t \in Tabs,
           \/ \E kind \in Kinds : Mount(t, kind)
           \/ MountPlayground(t)
           \/ Leave(t)
           \/ Dismiss(t)
           \/ ClickCheckUnfilled(t)
           \/ ClearHistory(t)
           \/ \E key \in known : ClickCheck(t, key)
           \/ \E id \in Identifiers \cup {None} : ClickCreate(t, id)
           \/ \E id \in Identifiers \cup 0 .. made : ClickRemove(t, id)
    PROVE  KeysInv'
<1> DEFINE p == page[t]
<1>0. /\ page \in [Tabs -> Pages] /\ p \in Pages /\ made \in Nat /\ sent \in Nat
      /\ TableRight /\ known \subseteq 0 .. made - 1 /\ PageRight(t)
      /\ UNCHANGED <<table, made, known>>
    BY DEF TypeInv, TypeOK, Pages, KeysInv, Mount, MountPlayground, Leave, Dismiss,
           ClickCheckUnfilled, ClearHistory, ClickCheck, ClickCreate, ClickRemove, Send
<1>1. Older /\ \A id : Accepted(id)' = Accepted(id)
    BY <1>0, SameTableSameKeys
<1>2. TableRight'
    BY <1>0 DEF TableRight, RowRight, Accepted, Present, Listed
<1>3. \A r : KeysRequest(r) => KeysRequest(r)'
    BY <1>1, RequestStays
<1>4. ASSUME NEW q, page' = [page EXCEPT ![t] = q],
             q.kind = "keys" => \A row \in Listed(q.rows) : RowRight(row)
      PROVE  \A u \in Tabs : PageRight(u)'
    <2>1. page'[t] = q /\ \A u \in Tabs \ {t} : page'[u] = page[u]
        BY <1>0, <1>4
    <2>2. PageRight(t)'
        <3>1. q.kind = "keys" => \A row \in Listed(q.rows) : RowRight(row)'
            BY <1>1, <1>4, RowStays
        <3>2. QED
            BY <2>1, <3>1 DEF PageRight, Listed
    <2>3. QED
        BY <1>1, <2>1, <2>2, PagesStay
<1>5. ASSUME NEW q, page' = [page EXCEPT ![t] = q],
             q.kind = "keys" => \A row \in Listed(q.rows) : RowRight(row),
             flight' \subseteq flight
      PROVE  KeysInv'
    <2>1. \A u \in Tabs : PageRight(u)'
        BY <1>4, <1>5
    <2>2. QED
        BY <1>0, <1>1, <1>2, <1>5, <2>1, KeysKept
<1>6. ASSUME NEW q, page' = [page EXCEPT ![t] = q],
             q.kind = "keys" => \A row \in Listed(q.rows) : RowRight(row),
             NEW m, flight' = flight \cup {m}, KeysRequest(m)
      PROVE  KeysInv'
    <2>1. \A u \in Tabs : PageRight(u)'
        BY <1>4, <1>6
    <2>2. \A r \in flight' : KeysRequest(r)'
        BY <1>3, <1>6 DEF KeysInv
    <2>3. QED
        BY <1>0, <1>2, <2>1, <2>2 DEF KeysInv
<1>7. ASSUME NEW kind \in Kinds \cup {"playground"}, NEW op \in Ops, NEW id \in Ids \cup {None},
             Send(t, kind, op, id),
             op = "check" <=> kind = "playground",
             (op = "create" /\ kind = "limits") => id \in Identifiers,
             op = "remove" => id \in Ids, op = "check" => id \in Nat,
             (kind = "keys" /\ op = "remove") \/ op = "check" => id \in 0 .. made - 1
      PROVE  \E m : flight' = flight \cup {m} /\ KeysRequest(m)
    <2>1. PICK m : m = Asked(t, kind, op, id)
        OBVIOUS
    <2>2. /\ m.kind = kind /\ m.op = op /\ m.id = id /\ m.answer = None /\ m.rows = << >>
          /\ m.late = (op = "check" /\ ShownRevoked(id))
        BY <1>0, <1>7, <2>1, AskedIsGood
    <2>3. None \notin {"ok", "invalid"}
        BY ManagementAssumption
    <2>4. ShownRevoked(id) => ~Accepted(id)
        BY DEF ShownRevoked, KeysInv, PageRight, RowRight
    <2>5. KeysRequest(m)
        <3>1. Listed(m.rows) = {}
            BY <2>2 DEF Listed
        <3>2. m.answer # "ok"
            BY <2>2, <2>3
        <3>3. op = "check" => id \in 0 .. made - 1 /\ (m.late => ~Accepted(id))
            BY <1>7, <2>2, <2>4
        <3>4. (kind = "keys" /\ op = "remove") => id \in 0 .. made - 1
            BY <1>7
        <3>5. QED
            BY <2>2, <3>1, <3>2, <3>3, <3>4 DEF KeysRequest
    <2>6. flight' = flight \cup {m}
        BY <1>7, <2>1 DEF Send, Asked
    <2>7. QED
        BY <2>5, <2>6
<1>8. ASSUME NEW kind \in Kinds, Mount(t, kind)
      PROVE  KeysInv'
    <2>1. PICK q : q = [kind |-> kind, rows |-> << >>, loading |-> TRUE, failed |-> FALSE,
                        creating |-> FALSE, removing |-> None, newKey |-> None]
        OBVIOUS
    <2>2. page' = [page EXCEPT ![t] = q] /\ Send(t, kind, "list", None)
        BY <1>8, <2>1 DEF Mount
    <2>3. Listed(q.rows) = {}
        BY <2>1 DEF Listed
    <2>4. kind # "playground" /\ "list" \in Ops
        BY DEF Kinds, Ops
    <2>5. PICK m : flight' = flight \cup {m} /\ KeysRequest(m)
        BY <1>7, <2>2, <2>4
    <2>6. QED
        BY <1>6, <2>2, <2>3, <2>5
<1>9. CASE MountPlayground(t)
    <2>1. PICK q : q = [kind |-> "playground", loading |-> FALSE, error |-> None,
                        lastResult |-> None, history |-> << >>]
        OBVIOUS
    <2>2. page' = [page EXCEPT ![t] = q] /\ flight' = flight /\ q.kind # "keys"
        BY <1>9, <2>1 DEF MountPlayground
    <2>3. QED
        BY <1>5, <2>2
<1>10. CASE Leave(t)
    <2>1. page' = [page EXCEPT ![t] = Closed] /\ Closed.kind # "keys"
        BY <1>10 DEF Leave, Closed
    <2>2. \A u \in Tabs : PageRight(u)'
        BY <1>4, <2>1
    <2>3. ASSUME NEW r \in flight'
          PROVE  KeysRequest(r)'
        <3>1. CASE r \in flight
            BY <1>3, <3>1 DEF KeysInv
        <3>2. ASSUME NEW q \in Remnants(t), r = Orphaned(q), Good(q)
              PROVE  KeysRequest(r)'
            <4>1. q \in flight /\ q.answer = None
                BY DEF Remnants
            <4>2. /\ r.answer = None /\ r.kind = q.kind /\ r.op = q.op /\ r.id = q.id
                  /\ r.rows = q.rows /\ r.late = q.late
                BY <3>2, <4>1, OrphanedIsGood
            <4>3. KeysRequest(r)
                BY <4>1, <4>2 DEF KeysInv, KeysRequest
            <4>4. QED
                BY <1>3, <4>3
        <3>3. FlightInv
            BY DEF TypeInv
        <3>4. QED
            BY <1>10, <3>1, <3>2, <3>3, LeftBehind
    <2>4. QED
        BY <1>0, <1>2, <2>2, <2>3 DEF KeysInv
<1>11. CASE Dismiss(t)
    <2>1. PICK q : q = [p EXCEPT !.newKey = None]
        OBVIOUS
    <2>2. p \in Page
        BY <1>0, <1>11, PageKinds DEF Dismiss
    <2>3. q.kind = p.kind /\ q.rows = p.rows
        BY <2>1, <2>2 DEF Page
    <2>4. page' = [page EXCEPT ![t] = q] /\ flight' = flight
        BY <1>0, <1>11, <2>1 DEF Dismiss
    <2>5. QED
        BY <1>0, <1>5, <2>3, <2>4 DEF PageRight
<1>12. CASE ClickCheckUnfilled(t)
    <2>1. PICK q : q = [p EXCEPT !.error = "input"]
        OBVIOUS
    <2>2. p \in Playground
        BY <1>0, <1>12, PageKinds DEF ClickCheckUnfilled
    <2>3. q.kind # "keys"
        BY <2>1, <2>2 DEF Playground
    <2>4. page' = [page EXCEPT ![t] = q] /\ flight' = flight
        BY <1>0, <1>12, <2>1 DEF ClickCheckUnfilled
    <2>5. QED
        BY <1>5, <2>3, <2>4
<1>13. CASE ClearHistory(t)
    <2>1. PICK q : q = [p EXCEPT !.history = << >>]
        OBVIOUS
    <2>2. p \in Playground
        BY <1>0, <1>13, PageKinds DEF ClearHistory
    <2>3. q.kind # "keys"
        BY <2>1, <2>2 DEF Playground
    <2>4. page' = [page EXCEPT ![t] = q] /\ flight' = flight
        BY <1>0, <1>13, <2>1 DEF ClearHistory
    <2>5. QED
        BY <1>5, <2>3, <2>4
<1>14. ASSUME NEW key \in known, ClickCheck(t, key)
       PROVE  KeysInv'
    <2>1. PICK a : a = [p EXCEPT !.error = None]
        OBVIOUS
    <2>2. PICK q : q = [a EXCEPT !.loading = TRUE]
        OBVIOUS
    <2>3. p \in Playground
        BY <1>0, <1>14, PageKinds DEF ClickCheck
    <2>4. a \in Playground
        BY <2>1, <2>3 DEF Playground
    <2>5. q.kind # "keys"
        BY <2>2, <2>4 DEF Playground
    <2>6. page' = [page EXCEPT ![t] = q] /\ Send(t, "playground", "check", key)
        BY <1>0, <1>14, <2>1, <2>2 DEF ClickCheck
    <2>7. /\ key \in 0 .. made - 1 /\ key \in Nat /\ key \in Ids \cup {None}
          /\ "check" \in Ops
        BY <1>0 DEF Ids, Ops
    <2>8. PICK m : flight' = flight \cup {m} /\ KeysRequest(m)
        BY <1>7, <2>6, <2>7
    <2>9. QED
        BY <1>6, <2>5, <2>6, <2>8
<1>15. ASSUME NEW id \in Identifiers \cup {None}, ClickCreate(t, id)
       PROVE  KeysInv'
    <2>1. PICK q : q = [p EXCEPT !.creating = TRUE]
        OBVIOUS
    <2>2. p \in Page /\ p.kind \in Kinds
        BY <1>0, <1>15, PageKinds DEF ClickCreate
    <2>3. q.kind = p.kind /\ q.rows = p.rows
        BY <2>1, <2>2 DEF Page
    <2>4. page' = [page EXCEPT ![t] = q] /\ Send(t, p.kind, "create", id)
        BY <1>0, <1>15, <2>1 DEF ClickCreate
    <2>5. /\ id \in Ids \cup {None} /\ "create" \in Ops /\ p.kind # "playground"
          /\ p.kind = "limits" => id \in Identifiers
        BY <1>15, <2>2 DEF Ids, Ops, Kinds, ClickCreate
    <2>6. PICK m : flight' = flight \cup {m} /\ KeysRequest(m)
        BY <1>7, <2>2, <2>4, <2>5
    <2>7. QED
        BY <1>0, <1>6, <2>3, <2>4, <2>6 DEF PageRight
<1>16. ASSUME NEW id \in Identifiers \cup 0 .. made, ClickRemove(t, id)
       PROVE  KeysInv'
    <2>1. PICK q : q = [p EXCEPT !.removing = id]
        OBVIOUS
    <2>2. p \in Page /\ p.kind \in Kinds
        BY <1>0, <1>16, PageKinds DEF ClickRemove, Shown
    <2>3. q.kind = p.kind /\ q.rows = p.rows
        BY <2>1, <2>2 DEF Page
    <2>4. page' = [page EXCEPT ![t] = q] /\ Send(t, p.kind, "remove", id)
        BY <1>0, <1>16, <2>1 DEF ClickRemove
    <2>5. id \in Ids /\ "remove" \in Ops /\ p.kind # "playground"
        BY <1>0, <2>2 DEF Ids, Ops, Kinds
    <2>6. p.kind = "keys" => id \in 0 .. made - 1
        BY <1>0, <1>16 DEF ClickRemove, CanRemove, PageRight, RowRight
    <2>7. PICK m : flight' = flight \cup {m} /\ KeysRequest(m)
        BY <1>7, <2>2, <2>4, <2>5, <2>6
    <2>8. QED
        BY <1>0, <1>6, <2>3, <2>4, <2>7 DEF PageRight
<1>17. QED
    BY <1>8, <1>9, <1>10, <1>11, <1>12, <1>13, <1>14, <1>15, <1>16

LEMMA KeysStep == TypeInv /\ KeysInv /\ [Next]_vars => KeysInv'
<1> SUFFICES ASSUME TypeInv, KeysInv, [Next]_vars
             PROVE  KeysInv'
    OBVIOUS
<1>1. CASE UNCHANGED vars
    BY <1>1 DEF vars, KeysInv, TableRight, PageRight, KeysRequest, RowRight, Accepted, Present,
                Listed
<1>2. QED
    BY <1>1, Steps, KeysUser, KeysServe, KeysReceive

LEMMA KeysInit == Init => KeysInv
<1> SUFFICES ASSUME Init
             PROVE  KeysInv
    OBVIOUS
<1>0. Existing \in Nat /\ made = Existing /\ known = 0 .. made - 1
    BY ManagementAssumption DEF Init
<1>1. table["keys"] = [n \in 1 .. Existing |->
                         [id |-> Existing - n, version |-> Existing - n, revoked |-> FALSE]]
    BY DEF Init, Kinds
<1>2. ASSUME NEW n \in 1 .. Existing
      PROVE  RowRight(table["keys"][n])
    <2>1. Existing - n \in 0 .. made - 1
        BY <1>0
    <2>2. QED
        BY <1>1, <2>1 DEF RowRight
<1>3. TableRight
    BY <1>1, <1>2 DEF TableRight, Listed
<1>4. \A t \in Tabs : PageRight(t)
    BY DEF Init, PageRight, Closed
<1>5. QED
    BY <1>0, <1>3, <1>4 DEF KeysInv, Init

LEMMA KeysInvariant == Spec => [](TypeInv /\ KeysInv)
BY TypeInit, TypeStep, KeysInit, KeysStep, PTL DEF Spec

(* No check that is sent when a page shows its key as revoked is decided,  *)
(* however many tabs manage keys and check at a time                       *)
(* (api-keys/page.tsx:93, apikey_auth.go:27).                              *)
THEOREM RevokedStaysRefused == Spec => []RevokedIsRefused
<1>1. KeysInv => RevokedIsRefused
    BY DEF KeysInv, KeysRequest, RevokedIsRefused
<1>2. QED
    BY <1>1, KeysInvariant, PTL

-----------------------------------------------------------------------------
(***************************************************************************)
(* A page and the table: p is the page, mine its requests, rows the table. *)
(* Until its list has arrived the page waits for it and for nothing else.  *)
(* Then the table is what the page shows without the rows it has been      *)
(* granted to remove, after the row of a creation of its own that it has   *)
(* not heard of yet, if there is one.                                      *)
(***************************************************************************)
Mine(t)    == {r \in flight : r.tab = t}
Gone(mine) == {r.id : r \in {q \in mine : q.op = "remove" /\ q.answer = "ok"}}

Waiting(p, mine, rows) ==
    /\ p.loading /\ p.rows = << >> /\ p.removing = None
    /\ \E l \in mine : /\ mine = {l} /\ l.op = "list"
                       /\ l.answer = None \/ (l.answer = "ok" /\ l.rows = rows)

Arriving(p, mine, fresh) ==
    \/ fresh = << >> /\ \A r \in mine : r.op = "create" => r.answer # "ok"
    \/ \E r \in mine, x \in Row :
          /\ r.op = "create" /\ r.answer = "ok" /\ r.rows = <<x>> /\ fresh = <<x>>
          /\ \A row \in Listed(p.rows) : row.id # x.id
          /\ \A q \in mine : q.op = "remove" => q.id # x.id

Apart(p, mine) ==
    /\ \A r \in mine : r.op \in {"create", "remove"}
    /\ \A r, q \in mine : r.op = "create" /\ q.op = "create" => r = q
    /\ p.kind = "limits" =>
          \A r, q \in mine : r.op = "create" /\ q.op = "remove" => r.id # q.id

Edited(p, mine, rows) ==
    /\ ~p.loading /\ ~p.failed
    /\ Apart(p, mine)
    /\ Distinct(p.rows)
    /\ \E fresh : /\ Arriving(p, mine, fresh)
                  /\ rows = fresh \o Without(p.rows, p.kind, Gone(mine))

Synced(p, mine, rows) == Waiting(p, mine, rows) \/ Edited(p, mine, rows)

Removing(p, mine) == p.removing # None => \E r \in mine : r.op = "remove" /\ r.id = p.removing

(* One removal at a time.                                                  *)
Alone(p, mine, rows) ==
    \A r \in mine : r.op = "remove" =>
        /\ p.removing = r.id
        /\ \A q \in mine : q.op = "remove" => q = r
        /\ r.answer = None => \E row \in Listed(rows) : row.id = r.id /\ ~row.revoked
        /\ r.answer # "missing"

Proper(p, mine) == p \in Page /\ \A r \in mine : Good(r) /\ r.kind = p.kind

LEMMA EditedLike ==
    ASSUME NEW p, NEW q, NEW mine, NEW rows, Edited(p, mine, rows),
           q.kind = p.kind, q.loading = p.loading, q.failed = p.failed, q.rows = p.rows
    PROVE  Edited(q, mine, rows)
<1>1. Apart(q, mine) /\ ~q.loading /\ ~q.failed /\ Distinct(q.rows)
    BY DEF Edited, Apart
<1>2. PICK fresh : /\ Arriving(p, mine, fresh)
                   /\ rows = fresh \o Without(p.rows, p.kind, Gone(mine))
    BY DEF Edited
<1>3. Arriving(q, mine, fresh) /\ rows = fresh \o Without(q.rows, q.kind, Gone(mine))
    BY <1>2 DEF Arriving
<1>4. QED
    BY <1>1, <1>3 DEF Edited

LEMMA NoneIsNoAnswer == None \notin Answers
BY ManagementAssumption DEF Answers

LEMMA AskedToCreate ==
    ASSUME NEW p, NEW mine, NEW rows, Edited(p, mine, rows),
           NEW m, m.op = "create", m.answer = None,
           \A r \in mine : r.op # "create",
           p.kind = "limits" => \A r \in mine : r.op = "remove" => r.id # m.id
    PROVE  Edited(p, mine \cup {m}, rows)
<1> DEFINE all == mine \cup {m}
<1>1. PICK fresh : /\ Arriving(p, mine, fresh)
                   /\ rows = fresh \o Without(p.rows, p.kind, Gone(mine))
    BY DEF Edited
<1>2. fresh = << >>
    BY <1>1 DEF Arriving
<1>3. Arriving(p, all, fresh)
    BY <1>2, NoneIsNoAnswer DEF Arriving, Answers
<1>4. Gone(all) = Gone(mine)
    BY DEF Gone
<1>5. Apart(p, all)
    BY DEF Edited, Apart
<1>6. QED
    BY <1>1, <1>3, <1>4, <1>5 DEF Edited

LEMMA AskedToRemove ==
    ASSUME NEW p, NEW mine, NEW rows, Edited(p, mine, rows),
           NEW m, m.op = "remove", m.answer = None,
           \E row \in Listed(p.rows) : row.id = m.id,
           \A r \in mine : r.op = "create" => r.id # m.id
    PROVE  Edited(p, mine \cup {m}, rows)
<1> DEFINE all == mine \cup {m}
<1>1. PICK fresh : /\ Arriving(p, mine, fresh)
                   /\ rows = fresh \o Without(p.rows, p.kind, Gone(mine))
    BY DEF Edited
<1>2. Arriving(p, all, fresh)
    <2>1. CASE fresh = << >> /\ \A r \in mine : r.op = "create" => r.answer # "ok"
        BY <2>1 DEF Arriving
    <2>2. ASSUME NEW r \in mine, NEW x \in Row,
                 r.op = "create", r.answer = "ok", r.rows = <<x>>, fresh = <<x>>,
                 \A row \in Listed(p.rows) : row.id # x.id,
                 \A q \in mine : q.op = "remove" => q.id # x.id
          PROVE  Arriving(p, all, fresh)
        <3>1. \A q \in all : q.op = "remove" => q.id # x.id
            BY <2>2
        <3>2. r \in all
            OBVIOUS
        <3>3. QED
            BY <2>2, <3>1, <3>2 DEF Arriving
    <2>3. QED
        BY <1>1, <2>1, <2>2 DEF Arriving
<1>3. Gone(all) = Gone(mine)
    BY NoneIsNoAnswer DEF Gone, Answers
<1>4. Apart(p, all)
    BY DEF Edited, Apart
<1>5. QED
    BY <1>1, <1>2, <1>3, <1>4 DEF Edited

(* An answer a is sent to the request r.                                   *)
LEMMA ApartAnswered ==
    ASSUME NEW p, NEW mine, Apart(p, mine), NEW r \in mine, NEW a, SameRequest(a, r)
    PROVE  Apart(p, (mine \ {r}) \cup {a})
BY DEF Apart, SameRequest

LEMMA RefusedEdited ==
    ASSUME NEW p, NEW mine, NEW rows, Edited(p, mine, rows),
           NEW r \in mine, r.answer = None, NEW a, SameRequest(a, r), a.answer # "ok"
    PROVE  Edited(p, (mine \ {r}) \cup {a}, rows)
<1> DEFINE all == (mine \ {r}) \cup {a}
<1>1. PICK fresh : /\ Arriving(p, mine, fresh)
                   /\ rows = fresh \o Without(p.rows, p.kind, Gone(mine))
    BY DEF Edited
<1>2. Arriving(p, all, fresh)
    <2>1. CASE fresh = << >> /\ \A c \in mine : c.op = "create" => c.answer # "ok"
        BY <2>1 DEF Arriving
    <2>2. ASSUME NEW c \in mine, NEW x \in Row,
                 c.op = "create", c.answer = "ok", c.rows = <<x>>, fresh = <<x>>,
                 \A row \in Listed(p.rows) : row.id # x.id,
                 \A q \in mine : q.op = "remove" => q.id # x.id
          PROVE  Arriving(p, all, fresh)
        <3>1. \A q \in all : q.op = "remove" => q.id # x.id
            BY <2>2 DEF SameRequest
        <3>2. c \in all
            BY <2>2, NoneIsNoAnswer DEF Answers
        <3>3. QED
            BY <2>2, <3>1, <3>2 DEF Arriving
    <2>3. QED
        BY <1>1, <2>1, <2>2 DEF Arriving
<1>3. Gone(all) = Gone(mine)
    BY NoneIsNoAnswer DEF Gone, Answers
<1>4. Apart(p, all)
    BY ApartAnswered DEF Edited
<1>5. QED
    BY <1>1, <1>2, <1>3, <1>4 DEF Edited

LEMMA CreatedEdited ==
    ASSUME NEW p \in Page, NEW mine, NEW rows, Edited(p, mine, rows),
           NEW r \in mine, r.answer = None, r.op = "create",
           NEW a, NEW x \in Row, SameRequest(a, r), a.answer = "ok", a.rows = <<x>>,
           \A row \in Listed(p.rows) : row.id # x.id,
           \A q \in mine : q.op = "remove" => q.id # x.id
    PROVE  Edited(p, (mine \ {r}) \cup {a}, <<x>> \o rows)
<1> DEFINE all == (mine \ {r}) \cup {a}
           left == Without(p.rows, p.kind, Gone(mine))
<1>1. PICK fresh : Arriving(p, mine, fresh) /\ rows = fresh \o left
    BY DEF Edited
<1>2. fresh = << >>
    BY <1>1, NoneIsNoAnswer DEF Arriving, Edited, Apart, Answers
<1>3. left \in Seq(Row)
    BY WithoutRows DEF Page
<1> HIDE DEF left
<1>4. rows = left
    BY <1>1, <1>2, <1>3, ConcatEmptySeq
<1>5. Gone(all) = Gone(mine)
    BY NoneIsNoAnswer DEF Gone, Answers, SameRequest
<1>6. Apart(p, all)
    BY ApartAnswered DEF Edited
<1>7. Arriving(p, all, <<x>>)
    <2>1. \A q \in all : q.op = "remove" => q.id # x.id
        BY DEF SameRequest
    <2>2. a \in all /\ a.op = "create"
        BY DEF SameRequest
    <2> HIDE DEF all
    <2>3. QED
        BY <2>1, <2>2 DEF Arriving
<1>8. <<x>> \o rows = <<x>> \o Without(p.rows, p.kind, Gone(all))
    BY <1>4, <1>5 DEF left
<1>9. QED
    BY <1>6, <1>7, <1>8 DEF Edited

LEMMA RemovedEdited ==
    ASSUME NEW p \in Page, NEW mine, NEW rows, Edited(p, mine, rows),
           NEW r \in mine, r.answer = None, r.op = "remove",
           NEW a, SameRequest(a, r), a.answer = "ok"
    PROVE  Edited(p, (mine \ {r}) \cup {a}, Without(rows, p.kind, {r.id}))
<1> DEFINE all == (mine \ {r}) \cup {a}
           left == Without(p.rows, p.kind, Gone(mine))
           then == Without(p.rows, p.kind, Gone(all))
<1>0. p.rows \in Seq(Row) /\ p.kind \in Kinds
    BY DEF Page
<1>1. PICK fresh : Arriving(p, mine, fresh) /\ rows = fresh \o left
    BY DEF Edited
<1>2. PICK gone : gone = {r.id}
    OBVIOUS
<1>3. Gone(all) = Gone(mine) \cup gone
    <2>1. \A q \in mine : q.op = "remove" /\ q.answer = "ok" => q \in all
        BY NoneIsNoAnswer DEF Answers
    <2>2. a \in all /\ a.op = "remove" /\ a.id = r.id
        BY DEF SameRequest
    <2>3. \A q \in all : q \in mine \/ q = a
        OBVIOUS
    <2> HIDE DEF all
    <2>4. \A id : id \in Gone(all) <=> (id \in Gone(mine) \/ id = r.id)
        BY <2>1, <2>2, <2>3 DEF Gone
    <2>5. QED
        BY <1>2, <2>4
<1>4. left \in Seq(Row) /\ Without(left, p.kind, gone) = then
    <2>1. PICK G, H : G = Gone(all) /\ H = Gone(mine) /\ G = H \cup gone
        BY <1>3
    <2>2. /\ Without(p.rows, p.kind, H) \in Seq(Row)
          /\ Without(Without(p.rows, p.kind, H), p.kind, gone) =
                Without(p.rows, p.kind, H \cup gone)
        BY <1>0, WithoutRows, WithoutTwice
    <2>3. QED
        BY <2>1, <2>2
<1>5. Apart(p, all)
    BY ApartAnswered DEF Edited
<1>6. \A q \in mine : q.op = "create" => q \in all
    BY DEF SameRequest
<1>7. \A q \in all : q \in mine \/ (q.op = "remove" /\ q.id = r.id)
    BY DEF SameRequest
<1> HIDE DEF all, left, then
<1>8. CASE fresh = << >> /\ \A c \in mine : c.op = "create" => c.answer # "ok"
    <2>1. Arriving(p, all, << >>)
        BY <1>7, <1>8 DEF Arriving
    <2>2. rows = left /\ then \in Seq(Row) /\ then = << >> \o then
        BY <1>0, <1>1, <1>4, <1>8, ConcatEmptySeq, WithoutRows DEF then
    <2>3. Without(rows, p.kind, gone) = << >> \o then
        BY <1>4, <2>2
    <2>4. QED
        BY <1>2, <1>5, <2>1, <2>3 DEF Edited, all, then
<1>9. ASSUME NEW c \in mine, NEW x \in Row,
             c.op = "create", c.answer = "ok", c.rows = <<x>>, fresh = <<x>>,
             \A row \in Listed(p.rows) : row.id # x.id,
             \A q \in mine : q.op = "remove" => q.id # x.id
      PROVE  Edited(p, all, Without(rows, p.kind, gone))
    <2>1. \A q \in all : q.op = "remove" => q.id # x.id
        BY <1>7, <1>9
    <2>2. c \in all
        BY <1>6, <1>9
    <2>3. Arriving(p, all, fresh)
        BY <1>9, <2>1, <2>2 DEF Arriving
    <2>4. x.id \notin gone
        BY <1>2, <1>9
    <2>5. Without(<<x>> \o left, p.kind, gone) = <<x>> \o Without(left, p.kind, gone)
        BY <1>0, <1>4, <2>4, WithoutFirst
    <2>6. Without(rows, p.kind, gone) = fresh \o then
        BY <1>1, <1>4, <1>9, <2>5
    <2>7. QED
        BY <1>5, <2>3, <2>6 DEF Edited, then
<1>10. QED
    BY <1>1, <1>2, <1>8, <1>9 DEF Arriving, all

(* The page receives the answer.                                           *)
LEMMA GoneWithout ==
    ASSUME NEW mine, NEW r \in mine
    PROVE  /\ (r.op # "remove" \/ r.answer # "ok") => Gone(mine \ {r}) = Gone(mine)
           /\ (r.op = "remove" /\ r.answer = "ok") =>
                 {r.id} \cup Gone(mine \ {r}) = Gone(mine)
BY DEF Gone

LEMMA RefusalReceived ==
    ASSUME NEW p, NEW mine, NEW rows, Edited(p, mine, rows),
           NEW r \in mine, r.answer # "ok",
           NEW q, q.kind = p.kind, q.loading = p.loading, q.failed = p.failed, q.rows = p.rows
    PROVE  Edited(q, mine \ {r}, rows)
<1> DEFINE all == mine \ {r}
<1>1. PICK fresh : /\ Arriving(p, mine, fresh)
                   /\ rows = fresh \o Without(p.rows, p.kind, Gone(mine))
    BY DEF Edited
<1>2. Arriving(p, all, fresh)
    <2>1. CASE fresh = << >> /\ \A c \in mine : c.op = "create" => c.answer # "ok"
        BY <2>1 DEF Arriving
    <2>2. ASSUME NEW c \in mine, NEW x \in Row,
                 c.op = "create", c.answer = "ok", c.rows = <<x>>, fresh = <<x>>,
                 \A row \in Listed(p.rows) : row.id # x.id,
                 \A d \in mine : d.op = "remove" => d.id # x.id
          PROVE  Arriving(p, all, fresh)
        <3>1. \A d \in all : d.op = "remove" => d.id # x.id
            BY <2>2
        <3>2. c \in all
            BY <2>2
        <3>3. QED
            BY <2>2, <3>1, <3>2 DEF Arriving
    <2>3. QED
        BY <1>1, <2>1, <2>2 DEF Arriving
<1>3. Gone(all) = Gone(mine)
    BY GoneWithout
<1>4. Apart(p, all)
    BY DEF Edited, Apart
<1>5. Edited(p, all, rows)
    BY <1>1, <1>2, <1>3, <1>4 DEF Edited
<1>6. QED
    BY <1>5, EditedLike

LEMMA CreationReceived ==
    ASSUME NEW p \in Page, NEW mine, NEW rows, Edited(p, mine, rows),
           NEW r \in mine, r.op = "create", r.answer = "ok", NEW x, r.rows = <<x>>,
           NEW q, q.kind = p.kind, q.loading = p.loading, q.failed = p.failed,
           q.rows = <<x>> \o p.rows
    PROVE  Edited(q, mine \ {r}, rows)
<1> DEFINE all == mine \ {r}
<1>0. p.rows \in Seq(Row) /\ p.kind \in Kinds
    BY DEF Page
<1>1. PICK fresh : /\ Arriving(p, mine, fresh)
                   /\ rows = fresh \o Without(p.rows, p.kind, Gone(mine))
    BY DEF Edited
<1>2. PICK c \in mine, y \in Row :
          /\ c.op = "create" /\ c.answer = "ok" /\ c.rows = <<y>> /\ fresh = <<y>>
          /\ \A row \in Listed(p.rows) : row.id # y.id
          /\ \A d \in mine : d.op = "remove" => d.id # y.id
    BY <1>1 DEF Arriving
<1>3. c = r
    BY <1>2 DEF Edited, Apart
<1>4. y = x
    <2>1. <<y>>[1] = y /\ <<x>>[1] = x
        OBVIOUS
    <2>2. QED
        BY <1>2, <1>3, <2>1
<1>5. Gone(all) = Gone(mine) /\ x.id \notin Gone(mine)
    BY <1>2, <1>4, GoneWithout DEF Gone
<1>6. Without(<<x>> \o p.rows, p.kind, Gone(mine)) = <<x>> \o Without(p.rows, p.kind, Gone(mine))
    BY <1>0, <1>2, <1>4, <1>5, WithoutFirst
<1>7. q.rows \in Seq(Row) /\ Distinct(q.rows)
    BY <1>0, <1>2, <1>4, RowFirst DEF Edited
<1>8. Without(q.rows, q.kind, Gone(all)) \in Seq(Row)
    BY <1>0, <1>7, WithoutRows
<1>9. rows = << >> \o Without(q.rows, q.kind, Gone(all))
    BY <1>1, <1>2, <1>4, <1>5, <1>6, <1>8, ConcatEmptySeq
<1>10. Apart(q, all)
    BY DEF Edited, Apart
<1>11. Arriving(q, all, << >>)
    BY DEF Arriving, Edited, Apart
<1>12. QED
    BY <1>7, <1>9, <1>10, <1>11 DEF Edited

LEMMA RemovalReceived ==
    ASSUME NEW p \in Page, NEW mine, NEW rows, Edited(p, mine, rows),
           NEW r \in mine, r.op = "remove", r.answer = "ok",
           NEW q, q.kind = p.kind, q.loading = p.loading, q.failed = p.failed,
           q.rows = Without(p.rows, p.kind, {r.id})
    PROVE  Edited(q, mine \ {r}, rows)
<1> DEFINE all == mine \ {r}
<1>0. p.rows \in Seq(Row) /\ p.kind \in Kinds
    BY DEF Page
<1>1. PICK fresh : /\ Arriving(p, mine, fresh)
                   /\ rows = fresh \o Without(p.rows, p.kind, Gone(mine))
    BY DEF Edited
<1>2. PICK gone : gone = {r.id}
    OBVIOUS
<1>3. gone \cup Gone(all) = Gone(mine)
    <2>1. {r.id} \cup Gone(mine \ {r}) = Gone(mine)
        BY GoneWithout
    <2>2. QED
        BY <1>2, <2>1
<1>4. Without(q.rows, q.kind, Gone(all)) = Without(p.rows, p.kind, Gone(mine))
    <2>1. PICK G, H : G = Gone(all) /\ H = Gone(mine) /\ gone \cup G = H
        BY <1>3
    <2>2. Without(Without(p.rows, p.kind, gone), p.kind, G) = Without(p.rows, p.kind, gone \cup G)
        BY <1>0, WithoutTwice
    <2>3. q.rows = Without(p.rows, p.kind, gone)
        BY <1>2
    <2>4. QED
        BY <2>1, <2>2, <2>3
<1>5. /\ Distinct(q.rows)
      /\ \A row \in Listed(q.rows) : \E old \in Listed(p.rows) : old.id = row.id
    <2>1. q.rows = Without(p.rows, p.kind, gone) /\ Distinct(p.rows)
        BY <1>2 DEF Edited
    <2>2. QED
        BY <1>0, <2>1, WithoutRows
<1>6. Apart(q, all)
    BY DEF Edited, Apart
<1>7. Arriving(q, all, fresh)
    <2>1. CASE fresh = << >> /\ \A c \in mine : c.op = "create" => c.answer # "ok"
        BY <2>1 DEF Arriving
    <2>2. ASSUME NEW c \in mine, NEW x \in Row,
                 c.op = "create", c.answer = "ok", c.rows = <<x>>, fresh = <<x>>,
                 \A row \in Listed(p.rows) : row.id # x.id,
                 \A d \in mine : d.op = "remove" => d.id # x.id
          PROVE  Arriving(q, all, fresh)
        <3>1. \A d \in all : d.op = "remove" => d.id # x.id
            BY <2>2
        <3>2. c \in all
            BY <2>2
        <3>3. \A row \in Listed(q.rows) : row.id # x.id
            BY <1>5, <2>2
        <3>4. QED
            BY <2>2, <3>1, <3>2, <3>3 DEF Arriving
    <2>3. QED
        BY <1>1, <2>1, <2>2 DEF Arriving
<1>8. QED
    BY <1>1, <1>4, <1>5, <1>6, <1>7 DEF Edited

LEMMA ListReceivedEdited ==
    ASSUME NEW p, NEW mine, NEW rows \in Seq(Row), Waiting(p, mine, rows), Distinct(rows),
           p.kind \in Kinds,
           NEW r \in mine, r.answer # None,
           NEW q, q.kind = p.kind, ~q.loading, q.failed = (r.answer # "ok"),
           q.rows = IF r.answer = "ok" THEN r.rows ELSE p.rows
    PROVE  Edited(q, mine \ {r}, rows)
<1> DEFINE all == mine \ {r}
<1>1. all = {} /\ r.answer = "ok" /\ r.rows = rows
    BY DEF Waiting
<1>2. q.rows = rows /\ ~q.failed
    BY <1>1
<1>3. Gone(all) = {}
    BY <1>1 DEF Gone
<1>4. Without(q.rows, q.kind, Gone(all)) = rows
    BY <1>2, <1>3, WithoutNone
<1>5. rows = << >> \o Without(q.rows, q.kind, Gone(all))
    BY <1>4, ConcatEmptySeq
<1>6. Arriving(q, all, << >>) /\ Apart(q, all)
    BY <1>1 DEF Arriving, Apart
<1>7. QED
    BY <1>2, <1>5, <1>6 DEF Edited

-----------------------------------------------------------------------------
(***************************************************************************)
(* Every page that was in no race is in step with the table.               *)
(***************************************************************************)
PageSync(t) ==
    (page[t].kind \in Kinds /\ t \notin raced) =>
        /\ Synced(page[t], Mine(t), table[page[t].kind])
        /\ Removing(page[t], Mine(t))
        /\ t \notin crowded => Alone(page[t], Mine(t), table[page[t].kind])

TablesFine ==
    /\ \A kind \in Kinds : Distinct(table[kind])
    /\ \A row \in Listed(table["limits"]) : ~row.revoked

SyncInv ==
    /\ TablesFine
    /\ \A t \in Tabs : PageSync(t)
    /\ MissingMeansForeign

LEMMA MineIs ==
    ASSUME TypeInv, NEW t \in Tabs
    PROVE  /\ page[t].kind \in Kinds => Proper(page[t], Mine(t))
           /\ \A r \in Mine(t) : r \in flight /\ Good(r) /\ r.kind = page[t].kind
           /\ page[t] = Closed => Mine(t) = {}
           /\ page[t] \in Pages
<1>1. page[t] \in Pages
    BY DEF TypeInv, TypeOK, Pages
<1>2. ASSUME NEW r \in Mine(t)
      PROVE  /\ r \in flight /\ Good(r) /\ r.kind = page[t].kind
             /\ r.kind \in Kinds \cup {"playground"}
    <2>1. r \in flight /\ Good(r) /\ Listens(r) /\ r.tab = t
        BY DEF Mine, TypeInv, FlightInv
    <2>2. r.tab # None
        BY <2>1, ManagementAssumption
    <2>3. QED
        BY <2>1, <2>2, Tabbed DEF Listens
<1>3. page[t] = Closed => Mine(t) = {}
    BY <1>2, PageKinds
<1>4. page[t].kind \in Kinds => page[t] \in Page
    BY <1>1, PageKinds
<1>5. QED
    BY <1>1, <1>2, <1>3, <1>4 DEF Proper

LEMMA MineAnswered ==
    ASSUME TypeInv, NEW t \in Tabs, NEW r \in flight, NEW answer, NEW rows,
           Answered(r, answer, rows)
    PROVE  LET a == AnsweredAs(r, answer, rows)
           IN  /\ r.tab # t => Mine(t)' = Mine(t)
               /\ r.tab = t => r \in Mine(t) /\ Mine(t)' = (Mine(t) \ {r}) \cup {a}
               /\ SameRequest(a, r) /\ a.answer = answer /\ a.rows = rows
<1>1. PICK a : a = AnsweredAs(r, answer, rows)
    OBVIOUS
<1>2. SameRequest(a, r) /\ a.answer = answer /\ a.rows = rows
    <2>1. r \in Request
        BY DEF TypeInv, TypeOK
    <2>2. QED
        BY <1>1, <2>1, AnsweredFields
<1>3. t # None
    BY ManagementAssumption
<1>4. flight' = (flight \ {r}) \cup (IF r.tab = None THEN {} ELSE {a})
    BY <1>1 DEF Answered, AnsweredAs
<1>5. r.tab # t => Mine(t)' = Mine(t)
    BY <1>2, <1>4 DEF Mine, SameRequest
<1>6. r.tab = t => r \in Mine(t) /\ Mine(t)' = (Mine(t) \ {r}) \cup {a}
    BY <1>2, <1>3, <1>4 DEF Mine, SameRequest
<1>7. QED
    BY <1>1, <1>2, <1>5, <1>6

LEMMA MineSent ==
    ASSUME NEW t \in Tabs, NEW kind, NEW op, NEW id, Send(t, kind, op, id)
    PROVE  LET m == Asked(t, kind, op, id)
           IN  /\ Mine(t)' = Mine(t) \cup {m}
               /\ \A u \in Tabs \ {t} : Mine(u)' = Mine(u)
<1>1. PICK m : m = Asked(t, kind, op, id)
    OBVIOUS
<1>2. m.tab = t
    BY <1>1 DEF Asked
<1>3. flight' = flight \cup {m}
    BY <1>1 DEF Send, Asked
<1>4. QED
    BY <1>1, <1>2, <1>3 DEF Mine

LEMMA MineLeft ==
    ASSUME TypeInv, NEW t \in Tabs, Leave(t)
    PROVE  /\ Mine(t)' = {} /\ \A u \in Tabs \ {t} : Mine(u)' = Mine(u)
           /\ \A r \in flight' : r.answer = "missing" => r \in flight /\ r.tab # t
<1>1. flight' = {r \in flight : r.tab # t} \cup {Orphaned(q) : q \in Remnants(t)}
    BY DEF Leave, Remnants, Orphaned
<1>2. \A q \in Remnants(t) : Orphaned(q).tab = None /\ Orphaned(q).answer = None
    BY OrphanedIsGood DEF Remnants, TypeInv, FlightInv
<1>3. \A u \in Tabs : u # None
    BY ManagementAssumption
<1>4. QED
    BY <1>1, <1>2, <1>3, NoneIsNoAnswer DEF Mine, Answers

(* Nothing a page depends on has changed, or what has changed on it does   *)
(* not matter here.                                                        *)
LEMMA SyncLike ==
    ASSUME NEW p, NEW q, NEW mine, NEW rows,
           q.kind = p.kind, q.loading = p.loading, q.failed = p.failed, q.rows = p.rows,
           q.removing = p.removing
    PROVE  /\ Synced(p, mine, rows) => Synced(q, mine, rows)
           /\ Removing(p, mine) => Removing(q, mine)
           /\ Alone(p, mine, rows) => Alone(q, mine, rows)
<1>1. Waiting(p, mine, rows) => Waiting(q, mine, rows)
    BY DEF Waiting
<1>2. Edited(p, mine, rows) => Edited(q, mine, rows)
    BY EditedLike
<1>3. QED
    BY <1>1, <1>2 DEF Synced, Removing, Alone

LEMMA SyncStays ==
    ASSUME NEW t \in Tabs, PageSync(t), page'[t] = page[t], Mine(t)' = Mine(t),
           page[t].kind \in Kinds => table'[page[t].kind] = table[page[t].kind],
           t \in raced => t \in raced', t \in crowded => t \in crowded'
    PROVE  PageSync(t)'
<1>1. PICK p, mine : p = page[t] /\ mine = Mine(t)
    OBVIOUS
<1>2. CASE p.kind \in Kinds /\ t \notin raced'
    <2>1. PICK rows : rows = table[p.kind]
        OBVIOUS
    <2>2. /\ Synced(p, mine, rows) /\ Removing(p, mine)
          /\ t \notin crowded => Alone(p, mine, rows)
        BY <1>1, <1>2, <2>1 DEF PageSync
    <2>3. p = page'[t] /\ mine = Mine(t)' /\ rows = table'[p.kind]
        BY <1>1, <1>2, <2>1
    <2>4. QED
        BY <2>2, <2>3 DEF PageSync
<1>3. CASE ~(p.kind \in Kinds /\ t \notin raced')
    BY <1>1, <1>3 DEF PageSync
<1>4. QED
    BY <1>2, <1>3

(* To show that a page is in step afterwards.                              *)
LEMMA SyncReached ==
    ASSUME NEW t \in Tabs, NEW q, NEW mine, NEW rows,
           q = page'[t], mine = Mine(t)', q.kind \in Kinds => rows = table'[q.kind],
           (q.kind \in Kinds /\ t \notin raced') =>
               /\ Synced(q, mine, rows) /\ Removing(q, mine)
               /\ t \notin crowded' => Alone(q, mine, rows)
    PROVE  PageSync(t)'
BY DEF PageSync

LEMMA AloneLike ==
    ASSUME NEW p, NEW q, NEW mine, NEW more, NEW rows, NEW now, Alone(p, mine, rows),
           q.removing = p.removing,
           \A r \in more : r.op = "remove" => r \in mine,
           \A row \in Listed(rows) : row \in Listed(now)
    PROVE  Alone(q, more, now)
BY DEF Alone

(* The table changed, and t is not told by the answer.                     *)
LEMMA SyncPassedBy ==
    ASSUME TypeInv, SyncInv, NEW t \in Tabs, NEW r \in flight, r.op \in {"create", "remove"},
           NEW answer, NEW rows, Answered(r, answer, rows), UNCHANGED <<page, crowded>>,
           NEW told, raced' = raced \cup PassedBy(r, told), r.tab # t \/ ~told,
           \A k \in Kinds : k # r.kind => table'[k] = table[k]
    PROVE  PageSync(t)'
<1> DEFINE p == page[t]
<1>0. PageSync(t) /\ page'[t] = p
    BY DEF SyncInv
<1>1. CASE p.kind \notin Kinds
    BY <1>0, <1>1 DEF PageSync
<1>2. CASE p.kind \in Kinds /\ p.kind # r.kind
    <2>1. r.tab # t
        BY <1>2, MineIs DEF Mine
    <2>2. Mine(t)' = Mine(t)
        BY <2>1, MineAnswered
    <2>3. QED
        BY <1>0, <1>2, <2>2, SyncStays
<1>3. CASE p.kind \in Kinds /\ p.kind = r.kind
    <2>1. CASE t \in raced'
        BY <2>1 DEF PageSync
    <2>2. CASE t \notin raced'
        <3>1. Mounted(t)
            BY <1>3, PageKinds DEF Mounted
        <3>2. PICK l \in Own(t, "list") : l.answer = None
            BY <1>3, <2>2, <3>1 DEF PassedBy
        <3>3. PICK mine : mine = Mine(t)
            OBVIOUS
        <3>4. l \in mine /\ l.op = "list"
            BY <3>2, <3>3 DEF Own, Mine
        <3>5. Synced(p, mine, table[p.kind])
            BY <1>0, <1>3, <2>2, <3>3 DEF PageSync
        <3>6. Waiting(p, mine, table[p.kind])
            BY <3>4, <3>5 DEF Synced, Edited, Apart
        <3>7. mine = {l} /\ p.loading /\ p.rows = << >> /\ p.removing = None
            BY <3>4, <3>6 DEF Waiting
        <3>8. r.tab # t
            BY <3>3, <3>4, <3>7 DEF Mine
        <3>9. Mine(t)' = mine
            BY <3>3, <3>8, MineAnswered
        <3>10. PICK now : now = table'[p.kind]
            OBVIOUS
        <3>11. Waiting(p, mine, now)
            BY <3>2, <3>4, <3>7 DEF Waiting
        <3>12. Removing(p, mine) /\ Alone(p, mine, now)
            BY <3>4, <3>7 DEF Removing, Alone
        <3>13. QED
            BY <1>0, <3>9, <3>10, <3>11, <3>12, SyncReached DEF Synced
    <2>3. QED
        BY <2>1, <2>2
<1>4. QED
    BY <1>1, <1>2, <1>3

(* A creation or a removal under way: the page has its list.               *)
LEMMA SyncEdited ==
    ASSUME TypeInv, SyncInv, NEW r \in flight, r.tab \in Tabs, r.op \in {"create", "remove"},
           page[r.tab].kind \in Kinds, r.tab \notin raced
    PROVE  LET t == r.tab
           IN  /\ r \in Mine(t) /\ r.kind = page[t].kind /\ page[t] \in Page
               /\ \A m \in Mine(t) : m \in flight /\ Good(m) /\ m.kind = page[t].kind
               /\ Edited(page[t], Mine(t), table[r.kind]) /\ Removing(page[t], Mine(t))
               /\ t \notin crowded => Alone(page[t], Mine(t), table[r.kind])
               /\ table[r.kind] \in Seq(Row)
<1> DEFINE t == r.tab
<1>1. r \in Mine(t)
    BY DEF Mine
<1>2. r.kind = page[t].kind /\ page[t] \in Page
    BY <1>1, MineIs DEF Proper
<1>3. /\ Synced(page[t], Mine(t), table[r.kind]) /\ Removing(page[t], Mine(t))
      /\ t \notin crowded => Alone(page[t], Mine(t), table[r.kind])
    BY <1>2 DEF SyncInv, PageSync
<1>4. Edited(page[t], Mine(t), table[r.kind])
    BY <1>1, <1>3 DEF Synced, Waiting
<1>5. table[r.kind] \in Seq(Row)
    BY <1>2 DEF TypeInv, TypeOK
<1>6. \A m \in Mine(t) : m \in flight /\ Good(m) /\ m.kind = page[t].kind
    BY MineIs
<1>7. QED
    BY <1>1, <1>2, <1>3, <1>4, <1>5, <1>6

LEMMA RemovingAnswered ==
    ASSUME NEW p, NEW mine, Removing(p, mine), NEW r \in mine, NEW a, SameRequest(a, r)
    PROVE  Removing(p, (mine \ {r}) \cup {a})
BY DEF Removing, SameRequest

LEMMA AloneAnswered ==
    ASSUME NEW p, NEW mine, NEW rows, NEW now, Alone(p, mine, rows),
           NEW r \in mine, NEW a, SameRequest(a, r),
           a.answer # None, a.answer # "missing",
           r.op = "remove" \/ \A row \in Listed(rows) : row \in Listed(now)
    PROVE  Alone(p, (mine \ {r}) \cup {a}, now)
<1>1. CASE r.op = "remove"
    BY <1>1 DEF Alone, SameRequest
<1>2. CASE r.op # "remove"
    <2>1. \A m \in (mine \ {r}) \cup {a} : m.op = "remove" => m \in mine
        BY <1>2 DEF SameRequest
    <2>2. QED
        BY <1>2, <2>1, AloneLike
<1>3. QED
    BY <1>1, <1>2

LEMMA SyncRefused ==
    ASSUME TypeInv, SyncInv, NEW r \in flight, r.tab \in Tabs, r.op \in {"create", "remove"},
           r.answer = None, NEW answer \in Answers, NEW rows, Answered(r, answer, rows),
           answer # "ok", UNCHANGED <<page, table, raced, crowded>>,
           answer = "missing" => r.op = "remove" /\ ~Present(r.kind, r.id)
    PROVE  /\ PageSync(r.tab)'
           /\ answer = "missing" => r.tab \in raced \cup crowded
<1> DEFINE t == r.tab
<1>0. /\ page[t].kind = r.kind /\ r.kind \in Kinds
      /\ page'[t] = page[t]
    <2>1. r \in Mine(t) /\ Good(r)
        BY DEF Mine, TypeInv, FlightInv
    <2>2. r.kind = page[t].kind
        BY <2>1, MineIs
    <2>3. r.kind \in Kinds
        BY <2>1 DEF Good, Request
    <2>4. QED
        BY <2>2, <2>3
<1>1. CASE t \in raced
    BY <1>1 DEF PageSync
<1>2. CASE t \notin raced
    <2>1. PICK p, mine, old, a : /\ p = page[t] /\ mine = Mine(t) /\ old = table[r.kind]
                                 /\ a = AnsweredAs(r, answer, rows)
        OBVIOUS
    <2>2. /\ r \in mine /\ Edited(p, mine, old) /\ Removing(p, mine)
          /\ t \notin crowded => Alone(p, mine, old)
        BY <1>0, <1>2, <2>1, SyncEdited
    <2>3. /\ SameRequest(a, r) /\ a.answer = answer
          /\ Mine(t)' = (mine \ {r}) \cup {a}
        BY <2>1, MineAnswered
    <2>4. Edited(p, (mine \ {r}) \cup {a}, old)
        BY <2>2, <2>3, RefusedEdited
    <2>5. Removing(p, (mine \ {r}) \cup {a})
        BY <2>2, <2>3, RemovingAnswered
    <2>6. t \notin crowded => answer # "missing"
        BY <2>1, <2>2 DEF Alone, Present
    <2>7. t \notin crowded => Alone(p, (mine \ {r}) \cup {a}, old)
        BY <2>2, <2>3, <2>6, AloneAnswered, NoneIsNoAnswer
    <2>8. PageSync(t)'
        <3>1. page'[t] = p /\ old = table'[p.kind]
            BY <1>0, <2>1
        <3>2. PICK more : more = (mine \ {r}) \cup {a}
            OBVIOUS
        <3>3. Mine(t)' = more /\ Edited(p, more, old) /\ Removing(p, more)
              /\ (t \notin crowded' => Alone(p, more, old))
            BY <2>3, <2>4, <2>5, <2>7, <3>2
        <3>4. QED
            BY <3>1, <3>3, SyncReached DEF Synced
    <2>9. QED
        BY <2>6, <2>8
<1>3. QED
    BY <1>1, <1>2

(* The row that a creation inserts is a new one.                           *)
LEMMA SyncCreated ==
    ASSUME TypeInv, KeysInv, SyncInv, NEW r \in flight, r.tab \in Tabs, ServeCreate(r, TRUE),
           r.tab \notin raced
    PROVE  PageSync(r.tab)'
<1> DEFINE t == r.tab
<1>0. /\ r.op = "create" /\ r.answer = None /\ Good(r) /\ made \in Nat
      /\ page[t].kind = r.kind /\ r.kind \in Kinds
      /\ UNCHANGED <<page, crowded>>
    <2>1. r \in Mine(t) /\ Good(r) /\ made \in Nat
        BY DEF Mine, TypeInv, TypeOK, FlightInv
    <2>2. r.kind = page[t].kind
        BY <2>1, MineIs
    <2>3. r.op = "create" /\ r.answer = None /\ UNCHANGED <<page, crowded>>
        BY DEF ServeCreate, Serves
    <2>4. r.kind \in Kinds
        BY <2>1, <2>3 DEF Good, Request
    <2>5. QED
        BY <2>1, <2>2, <2>3, <2>4
<1>1. PICK p, mine, old, x, rows : /\ p = page[t] /\ mine = Mine(t) /\ old = table[r.kind]
                                   /\ x = Inserted(r) /\ rows = <<x>>
    OBVIOUS
<1>2. PICK a : a = AnsweredAs(r, "ok", rows)
    OBVIOUS
<1>3. /\ r \in mine /\ p \in Page /\ p.kind = r.kind
      /\ Edited(p, mine, old) /\ Removing(p, mine) /\ old \in Seq(Row)
      /\ t \notin crowded => Alone(p, mine, old)
      /\ \A m \in mine : m \in flight /\ Good(m) /\ m.kind = r.kind
    BY <1>0, <1>1, SyncEdited
<1>4. /\ x \in Row /\ x.id = (IF r.kind = "limits" THEN r.id ELSE made)
    BY <1>0, <1>1, InsertedIs
<1>5. Answered(r, "ok", rows)
    BY <1>1 DEF ServeCreate, Serves
<1>6. /\ SameRequest(a, r) /\ a.answer = "ok" /\ a.rows = <<x>>
      /\ Mine(t)' = (mine \ {r}) \cup {a}
    BY <1>1, <1>2, <1>5, MineAnswered
<1>7. \A q \in mine : q.op = "remove" => q.id # x.id
    <2>1. CASE r.kind = "limits"
        BY <1>0, <1>3, <1>4, <2>1 DEF Edited, Apart
    <2>2. CASE r.kind = "keys"
        <3>1. \A q \in mine : q.op = "remove" => q.id \in 0 .. made - 1
            BY <1>3, <2>2 DEF KeysInv, KeysRequest
        <3>2. made \notin 0 .. made - 1
            BY <1>0
        <3>3. QED
            BY <1>4, <2>2, <3>1, <3>2
    <2>3. QED
        BY <1>0, <2>1, <2>2 DEF Kinds
<1>8. \A row \in Listed(p.rows) : row.id # x.id
    <2>1. CASE r.kind = "limits"
        <3> SUFFICES ASSUME NEW row \in Listed(p.rows), row.id = x.id
                     PROVE  FALSE
            OBVIOUS
        <3>1. PICK fresh : /\ Arriving(p, mine, fresh)
                           /\ old = fresh \o Without(p.rows, p.kind, Gone(mine))
            BY <1>3 DEF Edited
        <3>2. fresh = << >>
            BY <1>0, <1>3, <3>1, NoneIsNoAnswer DEF Arriving, Edited, Apart, Answers
        <3>3. p.rows \in Seq(Row) /\ p.kind \in Kinds
            BY <1>3 DEF Page
        <3>4. PICK left : left = Without(p.rows, p.kind, Gone(mine))
            OBVIOUS
        <3>5. left \in Seq(Row) /\ old = left
            BY <3>1, <3>2, <3>3, <3>4, WithoutRows, ConcatEmptySeq
        <3>6. row.id \notin Gone(mine)
            BY <1>7 DEF Gone
        <3>7. row \in Listed(old)
            BY <3>3, <3>4, <3>5, <3>6, WithoutRows
        <3>8. ~row.revoked
            BY <1>1, <2>1, <3>7 DEF SyncInv, TablesFine
        <3>9. Present("limits", r.id)
            BY <1>1, <1>4, <2>1, <3>7, <3>8 DEF Present
        <3>10. ~Present("limits", r.id)
            BY <1>0, <2>1 DEF ServeCreate, Outcome, Unique
        <3>11. QED
            BY <3>9, <3>10
    <2>2. CASE r.kind = "keys"
        <3>1. \A row \in Listed(p.rows) : row.id \in 0 .. made - 1
            BY <1>0, <1>1, <2>2 DEF KeysInv, PageRight, RowRight
        <3>2. made \notin 0 .. made - 1
            BY <1>0
        <3>3. QED
            BY <1>4, <2>2, <3>1, <3>2
    <2>3. QED
        BY <1>0, <2>1, <2>2 DEF Kinds
<1>9. PICK now, more : now = <<x>> \o old /\ more = (mine \ {r}) \cup {a}
    OBVIOUS
<1>10. Edited(p, more, now)
    BY <1>0, <1>3, <1>4, <1>6, <1>7, <1>8, <1>9, CreatedEdited
<1>11. Removing(p, more)
    BY <1>3, <1>6, <1>9, RemovingAnswered
<1>12. Listed(now) = Listed(old) \cup {x}
    BY <1>3, <1>4, <1>9, RowFirst
<1>13. t \notin crowded => Alone(p, more, now)
    BY <1>3, <1>6, <1>9, <1>12, AloneAnswered, NoneIsNoAnswer DEF Answers
<1>14. now = table'[p.kind]
    <2>1. table' = [table EXCEPT ![r.kind] = <<x>> \o old] /\ table \in [Kinds -> Seq(Row)]
        BY <1>1 DEF ServeCreate, Listing, TypeInv, TypeOK
    <2>2. QED
        BY <1>0, <1>3, <1>9, <2>1
<1>15. page'[t] = p /\ Mine(t)' = more
    BY <1>0, <1>1, <1>6, <1>9
<1>16. QED
    BY <1>0, <1>10, <1>11, <1>13, <1>14, <1>15, SyncReached DEF Synced

LEMMA SyncRemoved ==
    ASSUME TypeInv, SyncInv, NEW r \in flight, r.tab \in Tabs, ServeRemove(r, TRUE),
           r.tab \notin raced
    PROVE  PageSync(r.tab)'
<1> DEFINE t == r.tab
<1>0. /\ r.op = "remove" /\ r.answer = None /\ Good(r)
      /\ page[t].kind = r.kind /\ r.kind \in Kinds
      /\ UNCHANGED <<page, crowded>>
    <2>1. r \in Mine(t) /\ Good(r)
        BY DEF Mine, TypeInv, TypeOK, FlightInv
    <2>2. r.kind = page[t].kind
        BY <2>1, MineIs
    <2>3. r.op = "remove" /\ r.answer = None /\ UNCHANGED <<page, crowded>>
        BY DEF ServeRemove, Serves
    <2>4. r.kind \in Kinds
        BY <2>1, <2>3 DEF Good, Request
    <2>5. QED
        BY <2>1, <2>2, <2>3, <2>4
<1>1. PICK p, mine, old, a : /\ p = page[t] /\ mine = Mine(t) /\ old = table[r.kind]
                             /\ a = AnsweredAs(r, "ok", << >>)
    OBVIOUS
<1>2. /\ r \in mine /\ p \in Page /\ p.kind = r.kind
      /\ Edited(p, mine, old) /\ Removing(p, mine)
      /\ t \notin crowded => Alone(p, mine, old)
    BY <1>0, <1>1, SyncEdited
<1>3. Answered(r, "ok", << >>)
    BY DEF ServeRemove, Serves
<1>4. /\ SameRequest(a, r) /\ a.answer = "ok"
      /\ Mine(t)' = (mine \ {r}) \cup {a}
    BY <1>1, <1>3, MineAnswered
<1>5. PICK now, more : now = Without(old, p.kind, {r.id}) /\ more = (mine \ {r}) \cup {a}
    OBVIOUS
<1>6. Edited(p, more, now)
    BY <1>0, <1>2, <1>4, <1>5, RemovedEdited
<1>7. Removing(p, more)
    BY <1>2, <1>4, <1>5, RemovingAnswered
<1>8. t \notin crowded => Alone(p, more, now)
    BY <1>0, <1>2, <1>4, <1>5, AloneAnswered, NoneIsNoAnswer DEF Answers
<1>9. now = table'[p.kind]
    <2>1. table' = [table EXCEPT ![r.kind] = Without(old, r.kind, {r.id})]
          /\ table \in [Kinds -> Seq(Row)]
        BY <1>0, <1>1 DEF ServeRemove, TypeInv, TypeOK
    <2>2. QED
        BY <1>0, <1>2, <1>5, <2>1
<1>10. page'[t] = p /\ Mine(t)' = more
    BY <1>0, <1>1, <1>4, <1>5
<1>11. QED
    BY <1>0, <1>6, <1>7, <1>8, <1>9, <1>10, SyncReached DEF Synced

LEMMA TablesCreated ==
    ASSUME TypeInv, KeysInv, SyncInv, NEW r \in flight, NEW told \in BOOLEAN, ServeCreate(r, told)
    PROVE  /\ TablesFine'
           /\ \A k \in Kinds : k # r.kind => table'[k] = table[k]
<1> DEFINE x == Inserted(r)
           old == table[r.kind]
<1>0. /\ Good(r) /\ r.op = "create" /\ made \in Nat /\ r.kind \in Kinds
      /\ table \in [Kinds -> Seq(Row)] /\ TablesFine
      /\ table' = [table EXCEPT ![r.kind] = <<x>> \o old]
    BY DEF TypeInv, TypeOK, FlightInv, ServeCreate, Serves, Good, Request, SyncInv, Listing
<1>1. x \in Row /\ ~x.revoked /\ x.id = (IF r.kind = "limits" THEN r.id ELSE made)
    BY <1>0, InsertedIs
<1>2. \A row \in Listed(old) : row.id # x.id
    <2>1. CASE r.kind = "limits"
        <3>1. ~Present("limits", r.id)
            BY <1>0, <2>1 DEF ServeCreate, Outcome, Unique
        <3>2. QED
            BY <1>0, <1>1, <2>1, <3>1 DEF TablesFine, Present
    <2>2. CASE r.kind = "keys"
        <3>1. \A row \in Listed(old) : row.id \in 0 .. made - 1
            BY <2>2 DEF KeysInv, TableRight, RowRight
        <3>2. made \notin 0 .. made - 1
            BY <1>0
        <3>3. QED
            BY <1>1, <2>2, <3>1, <3>2
    <2>3. QED
        BY <1>0, <2>1, <2>2 DEF Kinds
<1>3. old \in Seq(Row) /\ Distinct(old)
    BY <1>0 DEF TablesFine
<1> HIDE DEF x, old
<1>4. Distinct(<<x>> \o old) /\ Listed(<<x>> \o old) = Listed(old) \cup {x}
    BY <1>1, <1>2, <1>3, RowFirst
<1>5. PICK now : now = <<x>> \o old
    OBVIOUS
<1>6. table'[r.kind] = now /\ \A k \in Kinds : k # r.kind => table'[k] = table[k]
    BY <1>0, <1>5
<1>7. \A k \in Kinds : Distinct(table'[k])
    BY <1>0, <1>4, <1>5, <1>6 DEF TablesFine
<1>8. \A row \in Listed(table'["limits"]) : ~row.revoked
    <2>1. CASE r.kind = "limits"
        BY <1>0, <1>1, <1>4, <1>5, <1>6, <2>1 DEF TablesFine, old
    <2>2. CASE r.kind # "limits"
        BY <1>0, <1>6, <2>2 DEF TablesFine, Kinds
    <2>3. QED
        BY <2>1, <2>2
<1>9. QED
    BY <1>6, <1>7, <1>8 DEF TablesFine, Distinct, Listed

LEMMA TablesRemoved ==
    ASSUME TypeInv, SyncInv, NEW r \in flight, NEW told \in BOOLEAN, ServeRemove(r, told)
    PROVE  /\ TablesFine'
           /\ \A k \in Kinds : k # r.kind => table'[k] = table[k]
<1> DEFINE old == table[r.kind]
<1>0. /\ Good(r) /\ r.op = "remove" /\ r.kind \in Kinds
      /\ table \in [Kinds -> Seq(Row)] /\ TablesFine
      /\ table' = [table EXCEPT ![r.kind] = Without(old, r.kind, {r.id})]
    BY DEF TypeInv, TypeOK, FlightInv, ServeRemove, Serves, Good, Request, SyncInv
<1>1. PICK gone : gone = {r.id}
    OBVIOUS
<1>2. PICK now : now = Without(old, r.kind, gone)
    OBVIOUS
<1>3. old \in Seq(Row) /\ Distinct(old)
    BY <1>0 DEF TablesFine
<1>4. Distinct(now)
    BY <1>0, <1>2, <1>3, WithoutRows
<1>5. r.kind = "limits" => \A row \in Listed(now) : row \in Listed(old)
    BY <1>2, <1>3, WithoutIs, FilteredRows
<1>6. table'[r.kind] = now /\ \A k \in Kinds : k # r.kind => table'[k] = table[k]
    BY <1>0, <1>1, <1>2
<1> HIDE DEF old
<1>7. \A k \in Kinds : Distinct(table'[k])
    BY <1>0, <1>4, <1>6 DEF TablesFine
<1>8. \A row \in Listed(table'["limits"]) : ~row.revoked
    <2>1. CASE r.kind = "limits"
        BY <1>0, <1>5, <1>6, <2>1 DEF TablesFine, old
    <2>2. CASE r.kind # "limits"
        BY <1>0, <1>6, <2>2 DEF TablesFine, Kinds
    <2>3. QED
        BY <2>1, <2>2
<1>9. QED
    BY <1>6, <1>7, <1>8 DEF TablesFine, Distinct, Listed

(* Nobody is told that a row is missing.                                   *)
LEMMA MissingAnswered ==
    ASSUME TypeInv, MissingMeansForeign, NEW r \in flight, NEW answer, NEW rows,
           Answered(r, answer, rows), \A t \in raced : t \in raced', UNCHANGED crowded,
           answer = "missing" => r.tab = None \/ r.tab \in raced \cup crowded
    PROVE  MissingMeansForeign'
<1>1. PICK a : a = AnsweredAs(r, answer, rows)
    OBVIOUS
<1>2. SameRequest(a, r) /\ a.answer = answer
    <2>1. r \in Request
        BY DEF TypeInv, TypeOK
    <2>2. QED
        BY <1>1, <2>1, AnsweredFields
<1>3. flight' = (flight \ {r}) \cup (IF r.tab = None THEN {} ELSE {a})
    BY <1>1 DEF Answered, AnsweredAs
<1>4. \A m \in flight' : m \in flight \/ (m = a /\ r.tab # None)
    BY <1>3
<1>5. QED
    BY <1>2, <1>4 DEF MissingMeansForeign, SameRequest

LEMMA SyncServe ==
    ASSUME TypeInv, KeysInv, SyncInv, NEW r \in flight, Serve(r) \/ Fail(r)
    PROVE  SyncInv'
<1>0. /\ Good(r) /\ r \in Request /\ TablesFine /\ MissingMeansForeign
      /\ \A t \in Tabs : PageSync(t)
      /\ r.tab # None => r.tab \in Tabs
    BY Tabbed DEF TypeInv, TypeOK, FlightInv, SyncInv
(* The table stays: the other pages do not notice.                         *)
<1>1. ASSUME UNCHANGED <<table, page, crowded>>, \A t \in raced : t \in raced',
             NEW answer, NEW rows, Answered(r, answer, rows),
             r.tab \in Tabs => PageSync(r.tab)',
             answer = "missing" => r.tab = None \/ r.tab \in raced \cup crowded
      PROVE  SyncInv'
    <2>1. ASSUME NEW t \in Tabs
          PROVE  PageSync(t)'
        <3>1. CASE t = r.tab
            BY <1>1, <3>1
        <3>2. CASE t # r.tab
            <4>1. Mine(t)' = Mine(t)
                BY <1>1, <3>2, MineAnswered
            <4>2. QED
                BY <1>0, <1>1, <4>1, SyncStays
        <3>3. QED
            BY <3>1, <3>2
    <2>2. MissingMeansForeign'
        BY <1>0, <1>1, MissingAnswered
    <2>3. TablesFine'
        BY <1>0, <1>1 DEF TablesFine, Distinct, Listed
    <2>4. QED
        BY <2>1, <2>2, <2>3 DEF SyncInv
<1>2. ASSUME NEW told \in BOOLEAN, ServeList(r, told)
      PROVE  SyncInv'
    <2>1. PICK rows, answer : rows = table[r.kind] /\ answer = (IF told THEN Outcome(r) ELSE "failed")
        OBVIOUS
    <2>2. /\ Answered(r, answer, rows) /\ UNCHANGED <<table, page, crowded>>
          /\ r.op = "list" /\ r.answer = None
        BY <1>2, <2>1 DEF ServeList, Serves
    <2>3. answer = (IF told THEN "ok" ELSE "failed")
        BY <1>0, <2>1, <2>2, OutcomeIs
    <2>4. ASSUME r.tab \in Tabs, r.tab \notin raced'
          PROVE  PageSync(r.tab)'
        <3>1. told /\ answer = "ok" /\ r.tab \notin raced
            BY <1>2, <2>3, <2>4 DEF ServeList
        <3>2. PICK p, mine, a : /\ p = page[r.tab] /\ mine = Mine(r.tab)
                                /\ a = AnsweredAs(r, answer, rows)
            OBVIOUS
        <3>3. /\ r \in mine /\ SameRequest(a, r) /\ a.answer = answer /\ a.rows = rows
              /\ Mine(r.tab)' = (mine \ {r}) \cup {a}
            BY <2>2, <2>4, <3>2, MineAnswered
        <3>4. r.kind = p.kind
            BY <2>4, <3>2, <3>3, MineIs
        <3>5. p.kind \in Kinds
            BY <1>0, <2>2, <3>4 DEF Good, Request
        <3>6. Synced(p, mine, rows)
            BY <1>0, <2>1, <2>4, <3>1, <3>2, <3>4, <3>5 DEF PageSync
        <3>7. mine = {r} /\ p.loading /\ p.rows = << >> /\ p.removing = None
            BY <2>2, <3>3, <3>6 DEF Synced, Waiting, Edited, Apart
        <3>8. PICK more : more = {a}
            OBVIOUS
        <3>9. Mine(r.tab)' = more
            BY <3>3, <3>7, <3>8
        <3>10. a.op = "list"
            BY <2>2, <3>3 DEF SameRequest
        <3>11. Waiting(p, more, rows) /\ Removing(p, more) /\ Alone(p, more, rows)
            BY <3>1, <3>3, <3>7, <3>8, <3>10 DEF Waiting, Removing, Alone
        <3>12. p = page'[r.tab] /\ rows = table'[p.kind]
            BY <2>1, <2>2, <3>2, <3>4
        <3>13. QED
            BY <2>4, <3>9, <3>11, <3>12, SyncReached DEF Synced
    <2>5. (r.tab \in Tabs /\ r.tab \in raced') => PageSync(r.tab)'
        BY DEF PageSync
    <2>6. \A t \in raced : t \in raced'
        BY <1>2 DEF ServeList
    <2>7. answer # "missing"
        BY <2>3
    <2>8. QED
        BY <1>1, <2>2, <2>4, <2>5, <2>6, <2>7
(* The table changes.                                                      *)
<1>3. ASSUME NEW told \in BOOLEAN, NEW answer, NEW rows, Answered(r, answer, rows),
             UNCHANGED <<page, crowded>>, raced' = raced \cup PassedBy(r, told),
             r.op \in {"create", "remove"}, answer # "missing",
             TablesFine', \A k \in Kinds : k # r.kind => table'[k] = table[k],
             (r.tab \in Tabs /\ told /\ r.tab \notin raced) => PageSync(r.tab)'
      PROVE  SyncInv'
    <2>1. ASSUME NEW t \in Tabs
          PROVE  PageSync(t)'
        <3>1. CASE t = r.tab /\ told /\ t \notin raced
            BY <1>3, <3>1
        <3>2. CASE t \in raced
            BY <1>3, <3>2 DEF PageSync
        <3>3. CASE t # r.tab \/ ~told
            BY <1>3, <3>3, SyncPassedBy
        <3>4. QED
            BY <3>1, <3>2, <3>3
    <2>2. MissingMeansForeign'
        BY <1>0, <1>3, MissingAnswered
    <2>3. QED
        BY <1>3, <2>1, <2>2 DEF SyncInv
<1>4. ASSUME NEW told \in BOOLEAN, ServeCreate(r, told)
      PROVE  SyncInv'
    <2>1. PICK rows, answer : rows = <<Inserted(r)>> /\ answer = (IF told THEN "ok" ELSE "failed")
        OBVIOUS
    <2>2. /\ Answered(r, answer, rows) /\ UNCHANGED <<page, crowded>>
          /\ r.op \in {"create", "remove"} /\ raced' = raced \cup PassedBy(r, told)
        BY <1>4, <2>1 DEF ServeCreate, Serves
    <2>3. answer # "missing"
        BY <2>1
    <2>4. TablesFine' /\ \A k \in Kinds : k # r.kind => table'[k] = table[k]
        BY <1>4, TablesCreated
    <2>5. (r.tab \in Tabs /\ told /\ r.tab \notin raced) => PageSync(r.tab)'
        BY <1>4, SyncCreated
    <2>6. QED
        BY <1>3, <2>2, <2>3, <2>4, <2>5
<1>5. ASSUME NEW told \in BOOLEAN, ServeRemove(r, told)
      PROVE  SyncInv'
    <2>1. PICK answer : answer = (IF told THEN "ok" ELSE "failed")
        OBVIOUS
    <2>2. /\ Answered(r, answer, << >>) /\ UNCHANGED <<page, crowded>>
          /\ r.op \in {"create", "remove"} /\ raced' = raced \cup PassedBy(r, told)
        BY <1>5, <2>1 DEF ServeRemove, Serves
    <2>3. answer # "missing"
        BY <2>1
    <2>4. TablesFine' /\ \A k \in Kinds : k # r.kind => table'[k] = table[k]
        BY <1>5, TablesRemoved
    <2>5. (r.tab \in Tabs /\ told /\ r.tab \notin raced) => PageSync(r.tab)'
        BY <1>5, SyncRemoved
    <2>6. QED
        BY <1>3, <2>2, <2>3, <2>4, <2>5
(* A check's page has no list.                                             *)
<1>6. ASSUME r.op = "check", UNCHANGED page, r.tab \in Tabs
      PROVE  PageSync(r.tab)'
    <2>1. r \in Mine(r.tab)
        BY DEF Mine
    <2>2. page[r.tab].kind = "playground"
        BY <1>0, <1>6, <2>1, MineIs DEF Good
    <2>3. QED
        BY <1>6, <2>2 DEF PageSync, Kinds
<1>7. ASSUME NEW told \in BOOLEAN, ServeCheck(r, told)
      PROVE  SyncInv'
    <2>1. PICK answer : answer = (IF told THEN "ok" ELSE "failed")
        OBVIOUS
    <2>2. /\ Answered(r, answer, << >>) /\ UNCHANGED <<table, page, raced, crowded>>
          /\ r.op = "check"
        BY <1>7, <2>1 DEF ServeCheck, Serves
    <2>3. answer # "missing"
        BY <2>1
    <2>4. QED
        BY <1>1, <1>6, <2>2, <2>3
<1>8. ASSUME NEW answer \in Answers, Answered(r, answer, << >>), answer # "ok",
             r.answer = None, r.op \in {"create", "remove"},
             UNCHANGED <<table, page, raced, crowded>>,
             answer = "missing" => r.op = "remove" /\ ~Present(r.kind, r.id)
      PROVE  SyncInv'
    <2>1. r.tab \in Tabs => /\ PageSync(r.tab)'
                            /\ answer = "missing" => r.tab \in raced \cup crowded
        BY <1>8, SyncRefused
    <2>2. QED
        BY <1>0, <1>1, <1>8, <2>1
<1>9. ASSUME NEW told \in BOOLEAN, Refuse(r, told)
      PROVE  SyncInv'
    <2>1. PICK answer : answer = (IF told THEN Outcome(r) ELSE "failed")
        OBVIOUS
    <2>2. /\ Answered(r, answer, << >>) /\ UNCHANGED <<table, page, raced, crowded>>
          /\ Outcome(r) \in {"conflict", "missing", "invalid"} /\ r.answer = None
        BY <1>9, <2>1 DEF Refuse, Serves
    <2>3. answer \in Answers /\ answer # "ok"
        BY <2>1, <2>2 DEF Answers
    <2>4. CASE r.op \in {"create", "remove"}
        <3>1. answer = "missing" => Outcome(r) = "missing"
            BY <2>1
        <3>2. Outcome(r) = "missing" => r.op = "remove" /\ ~Present(r.kind, r.id)
            BY <1>0, <2>4, OutcomeIs DEF Outcome
        <3>3. QED
            BY <1>8, <2>2, <2>3, <2>4, <3>1, <3>2
    <2>5. CASE r.op = "check"
        <3>1. answer # "missing"
            BY <1>0, <2>1, <2>5, OutcomeIs
        <3>2. QED
            BY <1>1, <1>6, <2>2, <2>5, <3>1
    <2>6. r.op # "list"
        BY <1>0, <2>2, OutcomeIs
    <2>7. r.op \in Ops
        BY <1>0 DEF Request, Ops
    <2>8. QED
        BY <2>4, <2>5, <2>6, <2>7 DEF Ops
<1>10. ASSUME NEW told \in BOOLEAN, FailLookup(r, told)
      PROVE  SyncInv'
    <2>1. PICK answer : answer = (IF told THEN "invalid" ELSE "failed")
        OBVIOUS
    <2>2. /\ Answered(r, answer, << >>) /\ UNCHANGED <<table, page, raced, crowded>>
          /\ r.op = "check"
        BY <1>10, <2>1 DEF FailLookup
    <2>3. answer # "missing"
        BY <2>1
    <2>4. QED
        BY <1>1, <1>6, <2>2, <2>3
<1>11. CASE Fail(r)
    <2>1. /\ Answered(r, "failed", << >>) /\ UNCHANGED <<table, page, crowded>>
          /\ r.answer = None
          /\ raced' = IF r.op = "list" THEN raced \cup ({r.tab} \cap Tabs) ELSE raced
        BY <1>11 DEF Fail
    <2>2. CASE r.op = "list"
        <3>1. r.tab \in Tabs => PageSync(r.tab)'
            BY <2>1, <2>2 DEF PageSync
        <3>2. QED
            BY <1>1, <2>1, <2>2, <3>1
    <2>3. CASE r.op = "check"
        BY <1>1, <1>6, <2>1, <2>3
    <2>4. CASE r.op \in {"create", "remove"}
        <3>1. "failed" \in Answers
            BY DEF Answers
        <3>2. QED
            BY <1>8, <2>1, <2>4, <3>1
    <2>5. r.op \in Ops
        BY <1>0 DEF Request, Ops
    <2>6. QED
        BY <2>2, <2>3, <2>4, <2>5 DEF Ops
<1>12. QED
    BY <1>2, <1>4, <1>5, <1>7, <1>9, <1>10, <1>11 DEF Serve

LEMMA SyncReceive ==
    ASSUME TypeInv, SyncInv, NEW r \in flight, Receive(r)
    PROVE  SyncInv'
<1> DEFINE t == r.tab
<1>0. /\ TablesFine /\ MissingMeansForeign /\ \A u \in Tabs : PageSync(u)
      /\ UNCHANGED <<table, raced, crowded>> /\ flight' = flight \ {r} /\ r.answer # None
      /\ table \in [Kinds -> Seq(Row)]
    BY DEF SyncInv, Receive, TypeInv, TypeOK
<1>1. /\ Good(r) /\ r \in Request /\ t \in Tabs /\ page[t].kind = r.kind /\ r.op \in Ops
      /\ r.op \in {"list", "create", "remove"} => page[t] \in Page /\ r.kind \in Kinds
      /\ \A u \in Tabs \ {t} : page'[u] = page[u]
      /\ r.op = "list" => page'[t] = ReceiveList(r, page[t])
      /\ r.op = "create" => page'[t] = ReceiveCreate(r, page[t])
      /\ r.op = "remove" => page'[t] = ReceiveRemove(r, page[t])
    BY Received
<1>2. PICK p, q, mine : p = page[t] /\ q = page'[t] /\ mine = Mine(t)
    OBVIOUS
<1>3. /\ r \in mine /\ Mine(t)' = mine \ {r}
      /\ \A u \in Tabs \ {t} : Mine(u)' = Mine(u)
    BY <1>0, <1>2 DEF Mine
<1>4. \A u \in Tabs \ {t} : PageSync(u)'
    BY <1>0, <1>1, <1>3, SyncStays
<1>5. ASSUME p.kind \in Kinds, t \notin raced
      PROVE  PageSync(t)'
    <2>1. PICK rows, more : rows = table[p.kind] /\ more = mine \ {r}
        OBVIOUS
    <2>2. /\ Synced(p, mine, rows) /\ Removing(p, mine)
          /\ t \notin crowded => Alone(p, mine, rows)
          /\ rows \in Seq(Row) /\ Distinct(rows)
        BY <1>0, <1>1, <1>2, <1>5, <2>1 DEF PageSync, TablesFine
    <2>3. r.op # "check" /\ r.kind \in Kinds /\ p \in Page /\ r.kind = p.kind
        BY <1>1, <1>2, <1>5 DEF Good, Ops, Kinds
    <2>4. ASSUME q.kind = p.kind, Synced(q, more, rows), Removing(q, more),
                 t \notin crowded => Alone(q, more, rows)
          PROVE  PageSync(t)'
        <3>1. q = page'[t] /\ more = Mine(t)' /\ rows = table'[q.kind]
            BY <1>0, <1>2, <1>3, <2>1, <2>4
        <3>2. QED
            BY <1>0, <1>1, <2>4, <3>1, SyncReached
    <2>5. CASE r.op = "list"
        <3>1. Waiting(p, mine, rows)
            BY <1>3, <2>2, <2>5 DEF Synced, Edited, Apart
        <3>2. Edit(q, p, FALSE, r.answer # "ok",
                   IF r.answer = "ok" THEN r.rows ELSE p.rows, p.removing)
            BY <1>1, <1>2, <2>3, <2>5, ListReceived
        <3>3. /\ q.kind = p.kind /\ ~q.loading /\ q.failed = (r.answer # "ok")
              /\ q.rows = (IF r.answer = "ok" THEN r.rows ELSE p.rows)
              /\ q.removing = p.removing
            BY <3>2 DEF Edit
        <3>4. Edited(q, more, rows)
            BY <1>0, <1>3, <2>1, <2>2, <2>3, <3>1, <3>3, ListReceivedEdited
        <3>5. more = {} /\ q.removing = None
            BY <1>3, <2>1, <3>1, <3>3 DEF Waiting
        <3>6. Removing(q, more) /\ Alone(q, more, rows)
            BY <3>5 DEF Removing, Alone
        <3>7. QED
            BY <2>4, <3>3, <3>4, <3>6 DEF Synced
    <2>6. r.op # "list" => Edited(p, mine, rows)
        BY <1>3, <2>2 DEF Synced, Waiting
    <2>7. CASE r.op = "create"
        <3>1. r.answer = "ok" => \E x \in Row : r.rows = <<x>> /\ (r.kind = "keys" => x.id \in Nat)
            BY <1>1, <2>7 DEF Good
        <3>2. r.answer = "ok" => r.rows[1] \in Row /\ (r.kind = "keys" => r.rows[1].id \in Nat)
                                 /\ r.rows = <<r.rows[1]>>
            BY <3>1
        <3>3. Edit(q, p, p.loading, p.failed,
                   IF r.answer = "ok" THEN <<r.rows[1]>> \o p.rows ELSE p.rows, p.removing)
            BY <1>1, <1>2, <2>3, <2>7, <3>2, CreateReceived
        <3>4. PICK x : x = r.rows[1]
            OBVIOUS
        <3>5. /\ q.kind = p.kind /\ q.loading = p.loading /\ q.failed = p.failed
              /\ q.rows = (IF r.answer = "ok" THEN <<x>> \o p.rows ELSE p.rows)
              /\ q.removing = p.removing
            BY <3>3, <3>4 DEF Edit
        <3>6. ASSUME r.answer = "ok"
              PROVE  Edited(q, more, rows)
            <4>1. r.rows = <<x>> /\ q.rows = <<x>> \o p.rows
                BY <3>2, <3>4, <3>5, <3>6
            <4>2. Edited(q, more, rows)
                BY <1>3, <2>1, <2>3, <2>6, <2>7, <3>5, <3>6, <4>1, CreationReceived
            <4>3. QED
                BY <4>2
        <3>7. ASSUME r.answer # "ok"
              PROVE  Edited(q, more, rows)
            BY <1>3, <2>1, <2>6, <2>7, <3>5, <3>7, RefusalReceived
        <3>8. Removing(q, more)
            BY <2>1, <2>2, <2>7, <3>5 DEF Removing
        <3>9. \A m \in more : m.op = "remove" => m \in mine
            BY <2>1
        <3>10. t \notin crowded => Alone(q, more, rows)
            BY <2>2, <3>5, <3>9, AloneLike
        <3>11. Edited(q, more, rows)
            BY <2>1, <3>6, <3>7
        <3>12. QED
            BY <2>4, <3>5, <3>8, <3>10, <3>11 DEF Synced
    <2>8. CASE r.op = "remove"
        <3>1. Edit(q, p, p.loading, p.failed,
                   IF r.answer = "ok" THEN Without(p.rows, r.kind, {r.id}) ELSE p.rows, None)
            BY <1>1, <1>2, <2>3, <2>8, RemoveReceived
        <3>2. PICK left : left = Without(p.rows, p.kind, {r.id})
            OBVIOUS
        <3>3. /\ q.kind = p.kind /\ q.loading = p.loading /\ q.failed = p.failed
              /\ q.rows = (IF r.answer = "ok" THEN left ELSE p.rows)
              /\ q.removing = None
            BY <2>3, <3>1, <3>2 DEF Edit
        <3>4. ASSUME r.answer = "ok"
              PROVE  Edited(q, more, rows)
            BY <1>3, <2>1, <2>3, <2>6, <2>8, <3>2, <3>3, <3>4, RemovalReceived
        <3>5. ASSUME r.answer # "ok"
              PROVE  Edited(q, more, rows)
            BY <1>3, <2>1, <2>6, <2>8, <3>3, <3>5, RefusalReceived
        <3>6. Removing(q, more)
            BY <3>3 DEF Removing
        <3>7. t \notin crowded => Alone(q, more, rows)
            <4>1. t \notin crowded => \A m \in more : m.op # "remove"
                BY <1>3, <2>1, <2>2, <2>8 DEF Alone
            <4>2. QED
                BY <4>1 DEF Alone
        <3>8. Edited(q, more, rows)
            BY <2>1, <3>4, <3>5
        <3>9. QED
            BY <2>4, <3>3, <3>6, <3>7, <3>8 DEF Synced
    <2>9. QED
        BY <1>1, <2>3, <2>5, <2>7, <2>8 DEF Ops
<1>6. PageSync(t)'
    <2>1. q.kind = p.kind
        BY <1>2, ReceivedKind
    <2>2. CASE p.kind \in Kinds /\ t \notin raced
        BY <1>5, <2>2
    <2>3. CASE p.kind \notin Kinds \/ t \in raced
        BY <1>0, <1>2, <2>1, <2>3 DEF PageSync
    <2>4. QED
        BY <2>2, <2>3
<1>7. \A u \in Tabs : PageSync(u)'
    BY <1>4, <1>6
<1>8. TablesFine' /\ MissingMeansForeign'
    BY <1>0 DEF TablesFine, Distinct, Listed, MissingMeansForeign
<1>9. QED
    BY <1>7, <1>8 DEF SyncInv

LEMMA SyncUser ==
    ASSUME TypeInv, SyncInv, NEW t \in Tabs,
           \/ \E kind \in Kinds : Mount(t, kind)
           \/ MountPlayground(t)
           \/ Leave(t)
           \/ Dismiss(t)
           \/ ClickCheckUnfilled(t)
           \/ ClearHistory(t)
           \/ \E key \in known : ClickCheck(t, key)
           \/ \E id \in Identifiers \cup {None} : ClickCreate(t, id)
           \/ \E id \in Identifiers \cup 0 .. made : ClickRemove(t, id)
    PROVE  SyncInv'
<1> DEFINE p == page[t]
<1>0. /\ TablesFine /\ MissingMeansForeign /\ \A u \in Tabs : PageSync(u)
      /\ page \in [Tabs -> Pages] /\ p \in Pages /\ sent \in Nat
      /\ t # None
    BY ManagementAssumption DEF SyncInv, TypeInv, TypeOK, Pages
(* One page changes, and its requests.                                     *)
<1>1. ASSUME UNCHANGED table, NEW q, page' = [page EXCEPT ![t] = q],
             \A u \in Tabs \ {t} : /\ Mine(u)' = Mine(u)
                                   /\ (u \in raced => u \in raced') /\ (u \in crowded => u \in crowded'),
             PageSync(t)',
             \A m \in flight' : m.answer = "missing" => m \in flight /\ m.tab \in raced' \cup crowded'
      PROVE  SyncInv'
    <2>1. \A u \in Tabs \ {t} : page'[u] = page[u]
        BY <1>0, <1>1
    <2>2. \A u \in Tabs \ {t} : PageSync(u)'
        BY <1>0, <1>1, <2>1, SyncStays
    <2>3. TablesFine'
        BY <1>0, <1>1 DEF TablesFine, Distinct, Listed
    <2>4. MissingMeansForeign'
        BY <1>1 DEF MissingMeansForeign
    <2>5. QED
        BY <1>1, <2>2, <2>3, <2>4 DEF SyncInv
(* Nothing is sent.                                                        *)
<1>2. ASSUME UNCHANGED <<table, flight, raced, crowded>>, NEW q, page' = [page EXCEPT ![t] = q],
             q.kind = p.kind /\ q.kind \in Kinds =>
                 /\ q.loading = p.loading /\ q.failed = p.failed /\ q.rows = p.rows
                 /\ q.removing = p.removing,
             q.kind # p.kind => q.kind \notin Kinds
      PROVE  SyncInv'
    <2>1. \A u \in Tabs : Mine(u)' = Mine(u)
        BY <1>2 DEF Mine
    <2>2. page'[t] = q
        BY <1>0, <1>2
    <2>3. PageSync(t)'
        <3>1. PICK mine, rows, o : mine = Mine(t) /\ rows = table[p.kind] /\ o = p
            OBVIOUS
        <3>2. CASE q.kind \in Kinds /\ t \notin raced
            <4>1. /\ Synced(o, mine, rows) /\ Removing(o, mine)
                  /\ t \notin crowded => Alone(o, mine, rows)
                BY <1>0, <1>2, <3>1, <3>2 DEF PageSync
            <4>2. /\ Synced(q, mine, rows) /\ Removing(q, mine)
                  /\ t \notin crowded => Alone(q, mine, rows)
                BY <1>2, <3>1, <3>2, <4>1, SyncLike
            <4>3. rows = table'[q.kind] /\ mine = Mine(t)'
                BY <1>2, <2>1, <3>1, <3>2
            <4>4. QED
                BY <1>2, <2>2, <4>2, <4>3, SyncReached
        <3>3. CASE q.kind \notin Kinds \/ t \in raced
            BY <1>2, <2>2, <3>3 DEF PageSync
        <3>4. QED
            BY <3>2, <3>3
    <2>4. \A m \in flight' : m.answer = "missing" => m \in flight /\ m.tab \in raced' \cup crowded'
        BY <1>0, <1>2 DEF MissingMeansForeign
    <2>5. QED
        BY <1>1, <1>2, <2>1, <2>3, <2>4
(* A request is sent.                                                      *)
<1>3. ASSUME NEW kind, NEW op, NEW id, Send(t, kind, op, id), NEW q, page' = [page EXCEPT ![t] = q],
             \A u \in Tabs \ {t} : (u \in raced => u \in raced') /\ (u \in crowded => u \in crowded'),
             \A u \in raced \cup crowded : u \in raced' \cup crowded',
             PageSync(t)'
      PROVE  SyncInv'
    <2>1. PICK m : m = Asked(t, kind, op, id)
        OBVIOUS
    <2>2. m.answer = None /\ flight' = flight \cup {m} /\ UNCHANGED table
        BY <1>3, <2>1 DEF Asked, Send
    <2>3. \A u \in Tabs \ {t} : Mine(u)' = Mine(u)
        BY <1>3, MineSent
    <2>4. \A r \in flight' : r.answer = "missing" => r \in flight /\ r.tab \in raced' \cup crowded'
        <3>1. m.answer # "missing"
            BY <2>2, NoneIsNoAnswer DEF Answers
        <3>2. QED
            BY <1>0, <1>3, <2>2, <3>1 DEF MissingMeansForeign
    <2>5. QED
        BY <1>1, <1>3, <2>2, <2>3, <2>4
<1>4. ASSUME NEW kind \in Kinds, Mount(t, kind)
      PROVE  SyncInv'
    <2>1. PICK q : q = [kind |-> kind, rows |-> << >>, loading |-> TRUE, failed |-> FALSE,
                        creating |-> FALSE, removing |-> None, newKey |-> None]
        OBVIOUS
    <2>2. /\ page' = [page EXCEPT ![t] = q] /\ Send(t, kind, "list", None) /\ p = Closed
          /\ UNCHANGED <<raced, crowded>>
        BY <1>4, <2>1 DEF Mount, Mounted
    <2>3. Mine(t) = {}
        BY <2>2, MineIs
    <2>4. PICK m : m = Asked(t, kind, "list", None)
        OBVIOUS
    <2>5. m.op = "list" /\ m.answer = None /\ Mine(t)' = Mine(t) \cup {m}
        BY <2>2, <2>4, MineSent DEF Asked
    <2>6. PICK mine, rows : mine = {m} /\ rows = table'[kind]
        OBVIOUS
    <2>7. /\ q.kind = kind /\ q.loading /\ q.rows = << >> /\ q.removing = None
        BY <2>1
    <2>8. Waiting(q, mine, rows) /\ Removing(q, mine) /\ Alone(q, mine, rows)
        BY <2>5, <2>6, <2>7 DEF Waiting, Removing, Alone
    <2>9. page'[t] = q /\ Mine(t)' = mine
        BY <1>0, <2>2, <2>3, <2>5, <2>6
    <2>10. PageSync(t)'
        BY <2>6, <2>7, <2>8, <2>9, SyncReached DEF Synced
    <2>11. QED
        BY <1>3, <2>2, <2>10
<1>5. CASE MountPlayground(t)
    <2>1. PICK q : q = [kind |-> "playground", loading |-> FALSE, error |-> None,
                        lastResult |-> None, history |-> << >>]
        OBVIOUS
    <2>2. /\ page' = [page EXCEPT ![t] = q] /\ p = Closed
          /\ UNCHANGED <<table, flight, raced, crowded>>
        BY <1>5, <2>1 DEF MountPlayground, Mounted
    <2>3. q.kind \notin Kinds
        BY <2>1 DEF Kinds
    <2>4. QED
        BY <1>2, <2>2, <2>3
<1>6. CASE Leave(t)
    <2>1. /\ page' = [page EXCEPT ![t] = Closed] /\ UNCHANGED table
          /\ raced' = raced \ {t} /\ crowded' = crowded \ {t}
        BY <1>6 DEF Leave
    <2>2. /\ \A u \in Tabs \ {t} : Mine(u)' = Mine(u)
          /\ \A r \in flight' : r.answer = "missing" => r \in flight /\ r.tab # t
        BY <1>6, MineLeft
    <2>3. PageSync(t)'
        <3>1. page'[t] = Closed
            BY <1>0, <2>1
        <3>2. QED
            BY <3>1, PageKinds DEF PageSync
    <2>4. \A r \in flight' : r.answer = "missing" => r \in flight /\ r.tab \in raced' \cup crowded'
        BY <1>0, <2>1, <2>2 DEF MissingMeansForeign
    <2>5. QED
        BY <1>1, <2>1, <2>2, <2>3, <2>4
<1>7. CASE Dismiss(t)
    <2>1. PICK q : q = [p EXCEPT !.newKey = None]
        OBVIOUS
    <2>2. p \in Page
        BY <1>0, <1>7, PageKinds DEF Dismiss
    <2>3. /\ q.kind = p.kind /\ q.rows = p.rows /\ q.loading = p.loading
          /\ q.failed = p.failed /\ q.removing = p.removing
        BY <2>1, <2>2 DEF Page
    <2>4. page' = [page EXCEPT ![t] = q] /\ UNCHANGED <<table, flight, raced, crowded>>
        BY <1>0, <1>7, <2>1 DEF Dismiss
    <2>5. QED
        BY <1>2, <2>3, <2>4
<1>8. CASE ClickCheckUnfilled(t)
    <2>1. PICK q : q = [p EXCEPT !.error = "input"]
        OBVIOUS
    <2>2. p \in Playground
        BY <1>0, <1>8, PageKinds DEF ClickCheckUnfilled
    <2>3. q.kind \notin Kinds
        BY <2>1, <2>2 DEF Playground, Kinds
    <2>4. page' = [page EXCEPT ![t] = q] /\ UNCHANGED <<table, flight, raced, crowded>>
        BY <1>0, <1>8, <2>1 DEF ClickCheckUnfilled
    <2>5. QED
        BY <1>2, <2>3, <2>4
<1>9. CASE ClearHistory(t)
    <2>1. PICK q : q = [p EXCEPT !.history = << >>]
        OBVIOUS
    <2>2. p \in Playground
        BY <1>0, <1>9, PageKinds DEF ClearHistory
    <2>3. q.kind \notin Kinds
        BY <2>1, <2>2 DEF Playground, Kinds
    <2>4. page' = [page EXCEPT ![t] = q] /\ UNCHANGED <<table, flight, raced, crowded>>
        BY <1>0, <1>9, <2>1 DEF ClearHistory
    <2>5. QED
        BY <1>2, <2>3, <2>4
<1>10. ASSUME NEW key \in known, ClickCheck(t, key)
       PROVE  SyncInv'
    <2>1. PICK a : a = [p EXCEPT !.error = None]
        OBVIOUS
    <2>2. PICK q : q = [a EXCEPT !.loading = TRUE]
        OBVIOUS
    <2>3. p \in Playground
        BY <1>0, <1>10, PageKinds DEF ClickCheck
    <2>4. a \in Playground
        BY <2>1, <2>3 DEF Playground
    <2>5. q.kind \notin Kinds
        BY <2>2, <2>4 DEF Playground, Kinds
    <2>6. /\ page' = [page EXCEPT ![t] = q] /\ Send(t, "playground", "check", key)
          /\ UNCHANGED <<raced, crowded>>
        BY <1>0, <1>10, <2>1, <2>2 DEF ClickCheck
    <2>7. PageSync(t)'
        BY <1>0, <2>5, <2>6 DEF PageSync
    <2>8. QED
        BY <1>3, <2>6, <2>7
(* From here on, t shows a list.                                           *)
<1>11. ASSUME p \in Page, t \notin raced, ~p.loading
       PROVE  /\ Edited(p, Mine(t), table[p.kind]) /\ Removing(p, Mine(t))
              /\ t \notin crowded => Alone(p, Mine(t), table[p.kind])
              /\ table[p.kind] \in Seq(Row)
              /\ \A r \in Mine(t) : r.op \in {"create", "remove"}
    <2>1. p.kind \in Kinds
        BY <1>11, PageKinds
    <2>2. /\ Synced(p, Mine(t), table[p.kind]) /\ Removing(p, Mine(t))
          /\ t \notin crowded => Alone(p, Mine(t), table[p.kind])
        BY <1>0, <1>11, <2>1 DEF PageSync
    <2>3. Edited(p, Mine(t), table[p.kind])
        BY <1>11, <2>2 DEF Synced, Waiting
    <2>4. table[p.kind] \in Seq(Row)
        BY <2>1 DEF TypeInv, TypeOK
    <2>5. QED
        BY <2>2, <2>3, <2>4 DEF Edited, Apart
<1>12. ASSUME NEW id \in Identifiers \cup {None}, ClickCreate(t, id)
       PROVE  SyncInv'
    <2>1. PICK q : q = [p EXCEPT !.creating = TRUE]
        OBVIOUS
    <2>2. p \in Page /\ p.kind \in Kinds
        BY <1>0, <1>12, PageKinds DEF ClickCreate
    <2>3. /\ q.kind = p.kind /\ q.rows = p.rows /\ q.loading = p.loading
          /\ q.failed = p.failed /\ q.removing = p.removing
        BY <2>1, <2>2 DEF Page
    <2>4. /\ page' = [page EXCEPT ![t] = q] /\ Send(t, p.kind, "create", id)
          /\ UNCHANGED <<table, crowded>>
          /\ raced' = IF \/ p.loading
                         \/ Own(t, "create") # {}
                         \/ \E r \in Own(t, "remove") : r.id = id
                      THEN raced \cup {t} ELSE raced
        BY <1>0, <1>12, <2>1 DEF ClickCreate, Send
    <2>5. PageSync(t)'
        <3>1. CASE t \in raced'
            BY <3>1 DEF PageSync
        <3>2. CASE t \notin raced'
            <4>1. /\ t \notin raced /\ ~p.loading
                  /\ Own(t, "create") = {} /\ \A r \in Own(t, "remove") : r.id # id
                BY <2>4, <3>2
            <4>2. PICK o, mine, rows, m, more : /\ o = p /\ mine = Mine(t) /\ rows = table[p.kind]
                                             /\ m = Asked(t, p.kind, "create", id)
                                             /\ more = mine \cup {m}
                OBVIOUS
            <4>3. /\ Edited(o, mine, rows) /\ Removing(o, mine)
                  /\ t \notin crowded => Alone(o, mine, rows)
                BY <1>11, <2>2, <4>1, <4>2
            <4>4. m.op = "create" /\ m.answer = None /\ m.id = id
                BY <4>2 DEF Asked
            <4>5. /\ \A r \in mine : r.op # "create"
                  /\ \A r \in mine : r.op = "remove" => r.id # m.id
                BY <4>1, <4>2, <4>4 DEF Own, Mine
            <4>6. Edited(o, more, rows)
                BY <4>2, <4>3, <4>4, <4>5, AskedToCreate
            <4>7. Edited(q, more, rows)
                BY <2>3, <4>2, <4>6, EditedLike
            <4>8. Removing(q, more)
                BY <2>3, <4>2, <4>3 DEF Removing
            <4>9. \A r \in more : r.op = "remove" => r \in mine
                BY <4>2, <4>4
            <4>10. t \notin crowded => Alone(q, more, rows)
                BY <2>3, <4>2, <4>3, <4>9, AloneLike
            <4>11. q = page'[t] /\ more = Mine(t)' /\ rows = table'[q.kind]
                BY <1>0, <2>3, <2>4, <4>2, MineSent
            <4>12. QED
                BY <2>4, <4>7, <4>8, <4>10, <4>11, SyncReached DEF Synced
        <3>3. QED
            BY <3>1, <3>2
    <2>6. \A u \in raced : u \in raced'
        BY <2>4
    <2>7. QED
        BY <1>3, <2>4, <2>5, <2>6
<1>13. ASSUME NEW id \in Identifiers \cup 0 .. made, ClickRemove(t, id)
       PROVE  SyncInv'
    <2>1. PICK q : q = [p EXCEPT !.removing = id]
        OBVIOUS
    <2>2. p \in Page /\ p.kind \in Kinds /\ ~p.loading
        BY <1>0, <1>13, PageKinds DEF ClickRemove, Shown
    <2>3. /\ q.kind = p.kind /\ q.rows = p.rows /\ q.loading = p.loading
          /\ q.failed = p.failed /\ q.removing = id
        BY <2>1, <2>2 DEF Page
    <2>4. /\ page' = [page EXCEPT ![t] = q] /\ Send(t, p.kind, "remove", id)
          /\ UNCHANGED table
          /\ raced' = (IF \E r \in Own(t, "create") : r.id = id THEN raced \cup {t} ELSE raced)
          /\ crowded' = (IF \E r \in Own(t, "remove") : r.id # id
                         THEN crowded \cup {t} ELSE crowded)
          /\ p.removing # id /\ \E row \in Listed(p.rows) : row.id = id /\ ~row.revoked
        BY <1>0, <1>13, <2>1 DEF ClickRemove, Send, CanRemove
    <2>5. PageSync(t)'
        <3>1. CASE t \in raced'
            BY <3>1 DEF PageSync
        <3>2. CASE t \notin raced'
            <4>1. t \notin raced /\ \A r \in Own(t, "create") : r.id # id
                BY <2>4, <3>2
            <4>2. PICK o, mine, rows, m, more : /\ o = p /\ mine = Mine(t) /\ rows = table[p.kind]
                                             /\ m = Asked(t, p.kind, "remove", id)
                                             /\ more = mine \cup {m}
                OBVIOUS
            <4>3. /\ Edited(o, mine, rows) /\ rows \in Seq(Row)
                  /\ t \notin crowded => Alone(o, mine, rows)
                BY <1>11, <2>2, <4>1, <4>2
            <4>4. m.op = "remove" /\ m.answer = None /\ m.id = id
                BY <4>2 DEF Asked
            <4>5. /\ \A r \in mine : r.op = "create" => r.id # m.id
                  /\ \E row \in Listed(o.rows) : row.id = m.id
                BY <2>4, <4>1, <4>2, <4>4 DEF Own, Mine
            <4>6. Edited(o, more, rows)
                BY <4>2, <4>3, <4>4, <4>5, AskedToRemove
            <4>7. Edited(q, more, rows)
                BY <2>3, <4>2, <4>6, EditedLike
            <4>8. Removing(q, more)
                BY <2>3, <4>2, <4>4 DEF Removing
            <4>9. ASSUME t \notin crowded'
                  PROVE  Alone(q, more, rows)
                <5>1. t \notin crowded /\ \A r \in mine : r.op = "remove" => r.id = id
                    BY <2>4, <4>2, <4>9 DEF Own, Mine
                <5>2. \A r \in mine : r.op # "remove"
                    BY <2>4, <4>2, <4>3, <5>1 DEF Alone
                <5>3. \E row \in Listed(rows) : row.id = id /\ ~row.revoked
                    <6>1. PICK fresh : /\ Arriving(o, mine, fresh)
                                       /\ rows = fresh \o Without(o.rows, o.kind, Gone(mine))
                        BY <4>3 DEF Edited
                    <6>2. o.rows \in Seq(Row) /\ o.kind \in Kinds
                        BY <2>2, <4>2 DEF Page
                    <6>3. Gone(mine) = {}
                        BY <5>2 DEF Gone
                    <6>4. rows = fresh \o o.rows
                        BY <6>1, <6>2, <6>3, WithoutNone
                    <6>5. fresh = << >> \/ \E x \in Row : fresh = <<x>>
                        BY <6>1 DEF Arriving
                    <6>6. Listed(o.rows) \subseteq Listed(rows)
                        <7>1. CASE fresh = << >>
                            BY <6>2, <6>4, <7>1, ConcatEmptySeq
                        <7>2. ASSUME NEW x \in Row, fresh = <<x>>
                              PROVE  Listed(o.rows) \subseteq Listed(rows)
                            <8>1. Listed(<<x>> \o o.rows) = Listed(o.rows) \cup {x}
                                BY <6>2, RowFirst
                            <8>2. QED
                                BY <6>4, <7>2, <8>1
                        <7>3. QED
                            BY <6>5, <7>1, <7>2
                    <6>7. QED
                        BY <2>4, <4>2, <6>6
                <5>4. m.answer # "missing"
                    BY <4>4, NoneIsNoAnswer DEF Answers
                <5>5. \A r \in more : r.op = "remove" => r = m
                    BY <4>2, <5>2
                <5>6. QED
                    BY <2>3, <4>4, <5>3, <5>4, <5>5 DEF Alone
            <4>10. q = page'[t] /\ more = Mine(t)' /\ rows = table'[q.kind]
                BY <1>0, <2>3, <2>4, <4>2, MineSent
            <4>11. QED
                BY <4>7, <4>8, <4>9, <4>10, SyncReached DEF Synced
        <3>3. QED
            BY <3>1, <3>2
    <2>6. (\A u \in raced : u \in raced') /\ (\A u \in crowded : u \in crowded')
        BY <2>4
    <2>7. QED
        BY <1>3, <2>4, <2>5, <2>6
<1>14. QED
    BY <1>4, <1>5, <1>6, <1>7, <1>8, <1>9, <1>10, <1>12, <1>13

LEMMA SyncStep == TypeInv /\ KeysInv /\ SyncInv /\ [Next]_vars => SyncInv'
<1> SUFFICES ASSUME TypeInv, KeysInv, SyncInv, [Next]_vars
             PROVE  SyncInv'
    OBVIOUS
<1>1. CASE UNCHANGED vars
    <2>1. UNCHANGED <<table, page, flight, raced, crowded>>
        BY <1>1 DEF vars
    <2>2. \A t \in Tabs : PageSync(t)'
        <3>1. \A t \in Tabs : PageSync(t) /\ Mine(t)' = Mine(t)
            BY <2>1 DEF SyncInv, Mine
        <3>2. QED
            BY <2>1, <3>1, SyncStays
    <2>3. QED
        BY <2>1, <2>2 DEF SyncInv, TablesFine, Distinct, Listed, MissingMeansForeign
<1>2. QED
    BY <1>1, Steps, SyncUser, SyncServe, SyncReceive

LEMMA SyncInit == Init => SyncInv
<1> SUFFICES ASSUME Init
             PROVE  SyncInv
    OBVIOUS
<1>0. Existing \in Nat
    BY ManagementAssumption
<1>1. table["limits"] = << >>
    BY DEF Init, Kinds
<1>2. table["keys"] = [n \in 1 .. Existing |->
                         [id |-> Existing - n, version |-> Existing - n, revoked |-> FALSE]]
    BY DEF Init, Kinds
<1>3. Distinct(table["limits"]) /\ \A row \in Listed(table["limits"]) : ~row.revoked
    BY <1>1 DEF Distinct, Listed
<1>4. Distinct(table["keys"])
    <2>1. \A n \in 1 .. Existing : table["keys"][n].id = Existing - n
        BY <1>2
    <2>2. DOMAIN table["keys"] = 1 .. Existing
        BY <1>2
    <2>3. \A m, n \in 1 .. Existing : Existing - m = Existing - n => m = n
        BY <1>0
    <2>4. QED
        BY <2>1, <2>2, <2>3 DEF Distinct
<1>5. TablesFine
    BY <1>3, <1>4 DEF TablesFine, Kinds
<1>6. \A t \in Tabs : PageSync(t)
    BY PageKinds DEF Init, PageSync
<1>7. QED
    BY <1>5, <1>6 DEF SyncInv, MissingMeansForeign, Init

LEMMA SyncInvariant == Spec => [](TypeInv /\ KeysInv /\ SyncInv)
BY TypeInit, TypeStep, KeysInit, KeysStep, SyncInit, SyncStep, PTL DEF Spec

(* Nothing of a page but its rows is replaced by what it is already.       *)
LEMMA SameAgain ==
    ASSUME NEW p \in Page, ~p.loading, ~p.failed, p.removing = None
    PROVE  [p EXCEPT !.loading = FALSE, !.failed = FALSE, !.removing = None, !.rows = p.rows] = p
<1>1. [p EXCEPT !.loading = FALSE] = p
    BY DEF Page
<1>2. [p EXCEPT !.failed = FALSE] = p
    BY DEF Page
<1>3. [p EXCEPT !.removing = None] = p
    BY DEF Page
<1>4. [p EXCEPT !.rows = p.rows] = p
    BY DEF Page
<1>5. PICK rows : rows = p.rows
    OBVIOUS
<1>6. [p EXCEPT !.loading = FALSE, !.failed = FALSE, !.removing = None, !.rows = rows] =
          [[[[p EXCEPT !.loading = FALSE] EXCEPT !.failed = FALSE] EXCEPT !.removing = None]
              EXCEPT !.rows = rows]
    OBVIOUS
<1>7. QED
    BY <1>1, <1>2, <1>3, <1>4, <1>5, <1>6

LEMMA QuietIsCurrent ==
    ASSUME TypeInv, SyncInv
    PROVE  PageShowsTable
<1> SUFFICES ASSUME NEW t \in Tabs, Quiet(t), page[t].kind \in Kinds, t \notin raced
             PROVE  Screen(page[t]) =
                    Screen([page[t] EXCEPT !.loading = FALSE, !.failed = FALSE,
                                           !.removing = None, !.rows = table[page[t].kind]])
    BY DEF PageShowsTable
<1>1. PICK p, mine, rows : p = page[t] /\ mine = Mine(t) /\ rows = table[page[t].kind]
    OBVIOUS
<1>2. mine = {}
    BY <1>1 DEF Quiet, Mine
<1>3. p \in Page /\ Synced(p, mine, rows) /\ Removing(p, mine)
    BY <1>1, MineIs DEF SyncInv, PageSync, Proper
<1>4. Edited(p, mine, rows)
    BY <1>2, <1>3 DEF Synced, Waiting
<1>5. PICK fresh : /\ Arriving(p, mine, fresh)
                   /\ rows = fresh \o Without(p.rows, p.kind, Gone(mine))
    BY <1>4 DEF Edited
<1>6. fresh = << >> /\ Gone(mine) = {}
    BY <1>2, <1>5 DEF Arriving, Gone
<1>7. p.rows \in Seq(Row) /\ p.kind \in Kinds
    BY <1>3 DEF Page
<1>8. rows = p.rows
    BY <1>5, <1>6, <1>7, WithoutNone, ConcatEmptySeq
<1>9. ~p.loading /\ ~p.failed /\ p.removing = None
    BY <1>2, <1>3, <1>4 DEF Edited, Removing
<1>10. [p EXCEPT !.loading = FALSE, !.failed = FALSE, !.removing = None, !.rows = p.rows] = p
    BY <1>3, <1>9, SameAgain
<1>11. QED
    BY <1>1, <1>8, <1>10

(* A page with nothing under way shows the table row by row, unless one of *)
(* the races of PageShowsTable befell it, however the answers to its       *)
(* creations and removals come in, and whatever other tabs do while its    *)
(* list is under way (limits/page.tsx:83 and 106, api-keys/page.tsx:74 and *)
(* 93).                                                                    *)
THEOREM PagesKeepUp == Spec => []PageShowsTable
BY SyncInvariant, QuietIsCurrent, PTL

(* Who removes a row is not told that it is missing, unless the table was  *)
(* changed by others or two removals were under way (limits/page.tsx:43    *)
(* and 108).                                                               *)
THEOREM MissingIsForeign == Spec => []MissingMeansForeign
<1>1. SyncInv => MissingMeansForeign
    BY DEF SyncInv
<1>2. QED
    BY <1>1, SyncInvariant, PTL

(* No page shows an identifier or a key twice (store.go:185-200), apart    *)
(* from the races.                                                         *)
THEOREM EachShownOnce == Spec => []OneConfigEach
<1>1. TypeInv /\ SyncInv => OneConfigEach
    <2> SUFFICES ASSUME TypeInv, SyncInv, NEW t \in Tabs, page[t].kind \in Kinds, t \notin raced
                 PROVE  Distinct(page[t].rows)
        BY DEF OneConfigEach, Distinct
    <2>1. Synced(page[t], Mine(t), table[page[t].kind])
        BY DEF SyncInv, PageSync
    <2>2. CASE page[t].rows = << >>
        BY <2>2 DEF Distinct
    <2>3. QED
        BY <2>1, <2>2 DEF Synced, Waiting, Edited
<1>2. QED
    BY <1>1, SyncInvariant, PTL

-----------------------------------------------------------------------------
(***************************************************************************)
(* The playground's log.  A playground has one check under way at most,    *)
(* while its button is disabled, and that check is newer than all the log. *)
(***************************************************************************)
Logging(p, mine, n) ==
    /\ \A i, j \in DOMAIN p.history : i < j => p.history[i] > p.history[j]
    /\ \A i \in DOMAIN p.history : p.history[i] < n /\ \A r \in mine : p.history[i] < r.number
    /\ p.history # << >> => p.lastResult = p.history[1]
    /\ \A r \in mine : r.number < n /\ \A q \in mine : q = r
    /\ ~p.loading => mine = {}

LogInv == \A t \in Tabs : page[t].kind = "playground" => Logging(page[t], Mine(t), sent)

LEMMA LogStays ==
    ASSUME TypeInv, LogInv, NEW t \in Tabs, page'[t] = page[t], Mine(t)' = Mine(t),
           sent' = sent \/ sent' = sent + 1, page'[t].kind = "playground"
    PROVE  Logging(page[t], Mine(t), sent)'
<1>1. PICK p, mine, n : p = page[t] /\ mine = Mine(t) /\ n = sent
    OBVIOUS
<1>2. Logging(p, mine, n)
    BY <1>1 DEF LogInv
<1>3. p \in Playground /\ n \in Nat /\ \A r \in mine : r.number \in Nat
    BY <1>1, MineIs, PageKinds DEF TypeInv, TypeOK, Good, Request
<1>4. DOMAIN p.history = 1 .. Len(p.history) /\ \A i \in DOMAIN p.history : p.history[i] \in Nat
    <2>1. p.history \in Seq(Nat)
        BY <1>3 DEF Playground
    <2>2. QED
        BY <2>1, ElementOfSeq, LenProperties
<1>5. Logging(p, mine, n + 1)
    <2>1. \A k \in Nat : k < n => k < n + 1
        BY <1>3
    <2>2. QED
        BY <1>2, <1>3, <1>4, <2>1 DEF Logging
<1>6. PICK now : now = sent'
    OBVIOUS
<1>7. Logging(p, mine, now)
    BY <1>1, <1>2, <1>5, <1>6
<1>8. QED
    BY <1>1, <1>6, <1>7

LEMMA LogServe ==
    ASSUME TypeInv, LogInv, NEW r \in flight, Serve(r) \/ Fail(r)
    PROVE  LogInv'
<1>1. PICK answer, rows : Answered(r, answer, rows) /\ UNCHANGED <<page, sent>>
    BY DEF Serve, Fail, ServeList, ServeCreate, ServeRemove, ServeCheck, Refuse, FailLookup, Serves
<1>2. ASSUME NEW t \in Tabs, page[t].kind = "playground", t = r.tab
      PROVE  Logging(page[t], Mine(t), sent)'
    <2>1. PICK p, mine, n, a : /\ p = page[t] /\ mine = Mine(t) /\ n = sent
                               /\ a = AnsweredAs(r, answer, rows)
        OBVIOUS
    <2>2. Logging(p, mine, n)
        BY <1>2, <2>1 DEF LogInv
    <2>3. /\ r \in mine /\ SameRequest(a, r) /\ Mine(t)' = (mine \ {r}) \cup {a}
        BY <1>1, <1>2, <2>1, MineAnswered
    <2>4. mine = {r}
        BY <2>2, <2>3 DEF Logging
    <2>5. PICK more : more = {a}
        OBVIOUS
    <2>6. Mine(t)' = more
        BY <2>3, <2>4, <2>5
    <2>7. a.number = r.number
        BY <2>3 DEF SameRequest
    <2>8. Logging(p, more, n)
        BY <2>2, <2>3, <2>5, <2>7 DEF Logging
    <2>9. QED
        BY <1>1, <2>1, <2>6, <2>8
<1>3. ASSUME NEW t \in Tabs, page[t].kind = "playground", t # r.tab
      PROVE  Logging(page[t], Mine(t), sent)'
    <2>1. Mine(t)' = Mine(t)
        BY <1>1, <1>3, MineAnswered
    <2>2. QED
        BY <1>1, <1>3, <2>1, LogStays
<1>4. QED
    BY <1>1, <1>2, <1>3 DEF LogInv

LEMMA LogReceive ==
    ASSUME TypeInv, LogInv, NEW r \in flight, Receive(r)
    PROVE  LogInv'
<1> DEFINE t == r.tab
<1>0. flight' = flight \ {r} /\ UNCHANGED sent
    BY DEF Receive
<1>1. /\ Good(r) /\ r \in Request /\ t \in Tabs /\ page[t].kind = r.kind
      /\ r.op = "check" => page[t] \in Playground /\ r.answer \in {"ok", "invalid", "failed"}
      /\ \A u \in Tabs \ {t} : page'[u] = page[u]
      /\ r.op = "check" => page'[t] = ReceiveCheck(r, page[t])
    BY Received
<1>2. PICK p, q, mine, n : p = page[t] /\ q = page'[t] /\ mine = Mine(t) /\ n = sent
    OBVIOUS
<1>3. /\ r \in mine /\ Mine(t)' = mine \ {r}
      /\ \A u \in Tabs \ {t} : Mine(u)' = Mine(u)
    BY <1>0, <1>2 DEF Mine
<1>4. ASSUME p.kind = "playground"
      PROVE  Logging(page[t], Mine(t), sent)'
    <2>1. r.op = "check" /\ p \in Playground /\ r.answer \in {"ok", "invalid", "failed"}
        BY <1>1, <1>2, <1>4 DEF Good
    <2>2. Logging(p, mine, n)
        BY <1>1, <1>2, <1>4 DEF LogInv
    <2>3. mine = {r} /\ r.number < n /\ r.number \in Nat /\ n \in Nat
        BY <1>1, <1>2, <1>3, <2>2 DEF Logging, Request, TypeInv, TypeOK
    <2>4. PICK none : none = {}
        OBVIOUS
    <2>5. Mine(t)' = none
        BY <1>3, <2>3, <2>4
    <2>6. p.history \in Seq(Nat)
        BY <2>1 DEF Playground
    <2>7. Logging(q, none, n)
        <3>1. CASE r.answer = "ok"
            <4>1. PICK log : log = Logged(r.number, p.history)
                OBVIOUS
            <4>2. Decided(q, FALSE, r.number, log)
                BY <1>1, <1>2, <2>1, <3>1, <4>1, CheckReceived
            <4>3. /\ Len(log) \in Nat \ {0} /\ DOMAIN log = 1 .. Len(log) /\ log[1] = r.number
                  /\ \A i \in 2 .. Len(log) : i - 1 \in DOMAIN p.history /\ log[i] = p.history[i - 1]
                <5>1. PICK h \in Seq(Nat), k \in Nat : h = p.history /\ k = r.number
                    BY <2>3, <2>6
                <5>2. log = Logged(k, h)
                    BY <4>1, <5>1
                <5>3. /\ Len(log) \in Nat \ {0} /\ DOMAIN log = 1 .. Len(log) /\ log[1] = k
                      /\ \A i \in 2 .. Len(log) : i - 1 \in DOMAIN h /\ log[i] = h[i - 1]
                    BY <5>2, LoggedIs
                <5>4. QED
                    BY <5>1, <5>3
            <4>4. q.history = log /\ q.lastResult = r.number
                BY <4>2 DEF Decided
            <4>5. \A i \in DOMAIN p.history : p.history[i] \in Nat /\ p.history[i] < r.number
                <5>1. \A i \in DOMAIN p.history : p.history[i] \in Nat
                    BY <2>6, ElementOfSeq, LenProperties
                <5>2. \A i \in DOMAIN p.history : p.history[i] < r.number
                    BY <1>3, <2>2 DEF Logging
                <5>3. QED
                    BY <5>1, <5>2
            <4>6. \A i \in DOMAIN log : log[i] \in Nat /\ log[i] < n
                <5> SUFFICES ASSUME NEW i \in DOMAIN log
                             PROVE  log[i] \in Nat /\ log[i] < n
                    OBVIOUS
                <5>1. CASE i = 1
                    BY <2>3, <4>3, <5>1
                <5>2. CASE i # 1
                    <6>1. i \in 2 .. Len(log)
                        BY <4>3, <5>2
                    <6>2. log[i] = p.history[i - 1] /\ i - 1 \in DOMAIN p.history
                        BY <4>3, <6>1
                    <6>3. log[i] \in Nat /\ log[i] < r.number
                        BY <4>5, <6>2
                    <6>4. QED
                        BY <2>3, <6>3
                <5>3. QED
                    BY <5>1, <5>2
            <4>7. ASSUME NEW i \in DOMAIN log, NEW j \in DOMAIN log, i < j
                  PROVE  log[i] > log[j]
                <5>1. j \in 2 .. Len(log) /\ i \in Nat /\ j \in Nat
                    BY <4>3, <4>7
                <5>2. j - 1 \in DOMAIN p.history /\ log[j] = p.history[j - 1]
                    BY <4>3, <5>1
                <5>3. CASE i = 1
                    <6>1. log[j] \in Nat /\ log[j] < r.number
                        BY <4>5, <5>2
                    <6>2. QED
                        BY <2>3, <4>3, <5>3, <6>1
                <5>4. CASE i # 1
                    <6>1. i \in 2 .. Len(log)
                        BY <4>3, <5>4
                    <6>2. i - 1 \in DOMAIN p.history /\ log[i] = p.history[i - 1]
                        BY <4>3, <6>1
                    <6>3. i - 1 < j - 1
                        BY <4>7, <5>1
                    <6>4. p.history[i - 1] > p.history[j - 1]
                        BY <2>2, <5>2, <6>2, <6>3 DEF Logging
                    <6>5. QED
                        BY <5>2, <6>2, <6>4
                <5>5. QED
                    BY <5>3, <5>4
            <4>8. QED
                BY <2>4, <4>3, <4>4, <4>6, <4>7 DEF Logging
        <3>2. CASE r.answer \in {"invalid", "failed"}
            <4>1. Decided(q, FALSE, p.lastResult, p.history)
                BY <1>1, <1>2, <2>1, <3>2, CheckReceived
            <4>2. q.history = p.history /\ q.lastResult = p.lastResult
                BY <4>1 DEF Decided
            <4>3. QED
                BY <2>2, <2>4, <4>2 DEF Logging
        <3>3. QED
            BY <2>1, <3>1, <3>2
    <2>8. q = page'[t] /\ none = Mine(t)' /\ n = sent'
        BY <1>0, <1>2, <2>5
    <2>9. QED
        BY <2>7, <2>8
<1>5. page'[t].kind = p.kind
    BY <1>2, ReceivedKind
<1>6. \A u \in Tabs \ {t} : page'[u].kind = "playground" => Logging(page[u], Mine(u), sent)'
    BY <1>0, <1>1, <1>3, LogStays
<1>7. QED
    BY <1>4, <1>5, <1>6 DEF LogInv

LEMMA LogUser ==
    ASSUME TypeInv, LogInv, NEW t \in Tabs,
           \/ \E kind \in Kinds : Mount(t, kind)
           \/ MountPlayground(t)
           \/ Leave(t)
           \/ Dismiss(t)
           \/ ClickCheckUnfilled(t)
           \/ ClearHistory(t)
           \/ \E key \in known : ClickCheck(t, key)
           \/ \E id \in Identifiers \cup {None} : ClickCreate(t, id)
           \/ \E id \in Identifiers \cup 0 .. made : ClickRemove(t, id)
    PROVE  LogInv'
<1> DEFINE p == page[t]
<1>0. page \in [Tabs -> Pages] /\ p \in Pages /\ sent \in Nat
    BY DEF TypeInv, TypeOK, Pages
<1>1. ASSUME NEW q, page' = [page EXCEPT ![t] = q],
             \A u \in Tabs \ {t} : Mine(u)' = Mine(u),
             sent' = sent \/ sent' = sent + 1,
             q.kind = "playground" => Logging(q, Mine(t)', sent')
      PROVE  LogInv'
    <2>1. page'[t] = q /\ \A u \in Tabs \ {t} : page'[u] = page[u]
        BY <1>0, <1>1
    <2>2. \A u \in Tabs \ {t} : page'[u].kind = "playground" => Logging(page[u], Mine(u), sent)'
        BY <1>1, <2>1, LogStays
    <2>3. page'[t].kind = "playground" => Logging(page[t], Mine(t), sent)'
        BY <1>1, <2>1
    <2>4. QED
        BY <2>2, <2>3 DEF LogInv
<1>2. ASSUME NEW q, page' = [page EXCEPT ![t] = q], q.kind # "playground",
             NEW kind, NEW op, NEW id, Send(t, kind, op, id)
      PROVE  LogInv'
    <2>1. /\ \A u \in Tabs \ {t} : Mine(u)' = Mine(u)
          /\ sent' = sent + 1
        BY <1>2, MineSent DEF Send
    <2>2. QED
        BY <1>1, <1>2, <2>1
<1>3. ASSUME NEW q, page' = [page EXCEPT ![t] = q], UNCHANGED <<flight, sent>>,
             q.kind = "playground" => Logging(q, Mine(t), sent)
      PROVE  LogInv'
    <2>1. \A u \in Tabs : Mine(u)' = Mine(u)
        BY <1>3 DEF Mine
    <2>2. QED
        BY <1>1, <1>3, <2>1
<1>4. ASSUME NEW kind \in Kinds, Mount(t, kind)
      PROVE  LogInv'
    <2>1. PICK q : q = [kind |-> kind, rows |-> << >>, loading |-> TRUE, failed |-> FALSE,
                        creating |-> FALSE, removing |-> None, newKey |-> None]
        OBVIOUS
    <2>2. page' = [page EXCEPT ![t] = q] /\ Send(t, kind, "list", None)
        BY <1>4, <2>1 DEF Mount
    <2>3. q.kind # "playground"
        BY <2>1 DEF Kinds
    <2>4. QED
        BY <1>2, <2>2, <2>3
<1>5. CASE MountPlayground(t)
    <2>1. PICK q : q = [kind |-> "playground", loading |-> FALSE, error |-> None,
                        lastResult |-> None, history |-> << >>]
        OBVIOUS
    <2>2. page' = [page EXCEPT ![t] = q] /\ p = Closed /\ UNCHANGED <<flight, sent>>
        BY <1>5, <2>1 DEF MountPlayground, Mounted
    <2>3. PICK mine, n : mine = Mine(t) /\ n = sent
        OBVIOUS
    <2>4. mine = {} /\ q.history = << >> /\ DOMAIN q.history = {}
        BY <2>1, <2>2, <2>3, MineIs
    <2>5. Logging(q, mine, n)
        BY <2>4 DEF Logging
    <2>6. QED
        BY <1>3, <2>2, <2>3, <2>5
<1>6. CASE Leave(t)
    <2>1. /\ page' = [page EXCEPT ![t] = Closed] /\ UNCHANGED sent
          /\ \A u \in Tabs \ {t} : Mine(u)' = Mine(u)
        BY <1>6, MineLeft DEF Leave
    <2>2. Closed.kind # "playground"
        BY PageKinds
    <2>3. QED
        BY <1>1, <2>1, <2>2
<1>7. CASE Dismiss(t)
    <2>1. PICK q : q = [p EXCEPT !.newKey = None]
        OBVIOUS
    <2>2. p \in Page
        BY <1>0, <1>7, PageKinds DEF Dismiss
    <2>3. q.kind # "playground"
        BY <2>1, <2>2 DEF Page, Kinds
    <2>4. page' = [page EXCEPT ![t] = q] /\ UNCHANGED <<flight, sent>>
        BY <1>0, <1>7, <2>1 DEF Dismiss
    <2>5. QED
        BY <1>3, <2>3, <2>4
<1>8. ASSUME p.kind = "playground"
      PROVE  p \in Playground /\ Logging(p, Mine(t), sent)
    BY <1>0, <1>8, PageKinds DEF LogInv
<1>9. CASE ClickCheckUnfilled(t)
    <2>1. PICK q, o, mine, n : /\ q = [p EXCEPT !.error = "input"]
                               /\ o = p /\ mine = Mine(t) /\ n = sent
        OBVIOUS
    <2>2. o \in Playground /\ Logging(o, mine, n)
        BY <1>8, <1>9, <2>1 DEF ClickCheckUnfilled
    <2>3. q.history = o.history /\ q.lastResult = o.lastResult /\ q.loading = o.loading
        BY <2>1, <2>2 DEF Playground
    <2>4. Logging(q, mine, n)
        BY <2>2, <2>3 DEF Logging
    <2>5. page' = [page EXCEPT ![t] = q] /\ UNCHANGED <<flight, sent>>
        BY <1>0, <1>9, <2>1 DEF ClickCheckUnfilled
    <2>6. QED
        BY <1>3, <2>1, <2>4, <2>5
<1>10. CASE ClearHistory(t)
    <2>1. PICK q, o, mine, n : /\ q = [p EXCEPT !.history = << >>]
                               /\ o = p /\ mine = Mine(t) /\ n = sent
        OBVIOUS
    <2>2. o \in Playground /\ Logging(o, mine, n)
        BY <1>8, <1>10, <2>1 DEF ClearHistory
    <2>3. q.history = << >> /\ DOMAIN q.history = {} /\ q.loading = o.loading
        BY <2>1, <2>2 DEF Playground
    <2>4. Logging(q, mine, n)
        BY <2>2, <2>3 DEF Logging
    <2>5. page' = [page EXCEPT ![t] = q] /\ UNCHANGED <<flight, sent>>
        BY <1>0, <1>10, <2>1 DEF ClearHistory
    <2>6. QED
        BY <1>3, <2>1, <2>4, <2>5
(* The check is the only one, and newer than all that is logged.           *)
<1>11. ASSUME NEW key \in known, ClickCheck(t, key)
       PROVE  LogInv'
    <2>1. PICK a, o, mine, n : /\ a = [p EXCEPT !.error = None]
                               /\ o = p /\ mine = Mine(t) /\ n = sent
        OBVIOUS
    <2>2. PICK q : q = [a EXCEPT !.loading = TRUE]
        OBVIOUS
    <2>3. o \in Playground /\ Logging(o, mine, n) /\ ~o.loading
        BY <1>8, <1>11, <2>1 DEF ClickCheck, CanCheck
    <2>4. a \in Playground /\ a.history = o.history /\ a.lastResult = o.lastResult
        BY <2>1, <2>3 DEF Playground
    <2>5. q.history = o.history /\ q.lastResult = o.lastResult /\ q.loading
        BY <2>2, <2>4 DEF Playground
    <2>6. page' = [page EXCEPT ![t] = q] /\ Send(t, "playground", "check", key)
        BY <1>0, <1>11, <2>1, <2>2 DEF ClickCheck
    <2>7. PICK m : m = Asked(t, "playground", "check", key)
        OBVIOUS
    <2>8. /\ \A u \in Tabs \ {t} : Mine(u)' = Mine(u)
          /\ Mine(t)' = Mine(t) \cup {m} /\ sent' = sent + 1 /\ m.number = sent
        BY <2>6, <2>7, MineSent DEF Send, Asked
    <2>9. PICK more, now : more = {m} /\ now = n + 1
        OBVIOUS
    <2>10. Mine(t)' = more /\ sent' = now /\ m.number = n /\ n \in Nat
        BY <1>0, <2>1, <2>3, <2>8, <2>9 DEF Logging
    <2>11. \A i \in DOMAIN o.history : o.history[i] \in Nat /\ o.history[i] < n
        <3>1. o.history \in Seq(Nat)
            BY <2>3 DEF Playground
        <3>2. \A i \in DOMAIN o.history : o.history[i] \in Nat
            BY <3>1, ElementOfSeq, LenProperties
        <3>3. \A i \in DOMAIN o.history : o.history[i] < n
            BY <2>3 DEF Logging
        <3>4. QED
            BY <3>2, <3>3
    <2>12. \A i \in DOMAIN o.history : o.history[i] < now /\ o.history[i] < m.number
        <3>1. \A k \in Nat : k < n => k < now
            BY <2>9, <2>10
        <3>2. QED
            BY <2>10, <2>11, <3>1
    <2>13. m.number < now
        BY <2>9, <2>10
    <2>14. Logging(q, more, now)
        BY <2>3, <2>5, <2>9, <2>12, <2>13 DEF Logging
    <2>15. QED
        BY <1>1, <2>6, <2>8, <2>10, <2>14
<1>12. ASSUME NEW id \in Identifiers \cup {None}, ClickCreate(t, id)
       PROVE  LogInv'
    <2>1. PICK q : q = [p EXCEPT !.creating = TRUE]
        OBVIOUS
    <2>2. p \in Page /\ p.kind \in Kinds
        BY <1>0, <1>12, PageKinds DEF ClickCreate
    <2>3. q.kind # "playground"
        BY <2>1, <2>2 DEF Page, Kinds
    <2>4. page' = [page EXCEPT ![t] = q] /\ Send(t, p.kind, "create", id)
        BY <1>0, <1>12, <2>1 DEF ClickCreate
    <2>5. QED
        BY <1>2, <2>3, <2>4
<1>13. ASSUME NEW id \in Identifiers \cup 0 .. made, ClickRemove(t, id)
       PROVE  LogInv'
    <2>1. PICK q : q = [p EXCEPT !.removing = id]
        OBVIOUS
    <2>2. p \in Page /\ p.kind \in Kinds
        BY <1>0, <1>13, PageKinds DEF ClickRemove, Shown
    <2>3. q.kind # "playground"
        BY <2>1, <2>2 DEF Page, Kinds
    <2>4. page' = [page EXCEPT ![t] = q] /\ Send(t, p.kind, "remove", id)
        BY <1>0, <1>13, <2>1 DEF ClickRemove
    <2>5. QED
        BY <1>2, <2>3, <2>4
<1>14. QED
    BY <1>4, <1>5, <1>6, <1>7, <1>9, <1>10, <1>11, <1>12, <1>13

LEMMA LogStep == TypeInv /\ LogInv /\ [Next]_vars => LogInv'
<1> SUFFICES ASSUME TypeInv, LogInv, [Next]_vars
             PROVE  LogInv'
    OBVIOUS
<1>1. CASE UNCHANGED vars
    BY <1>1 DEF vars, LogInv, Mine
<1>2. QED
    BY <1>1, Steps, LogUser, LogServe, LogReceive

LEMMA LogInvariant == Spec => [](TypeInv /\ LogInv)
<1>1. Init => LogInv
    BY PageKinds DEF Init, LogInv
<1>2. QED
    BY <1>1, TypeInit, TypeStep, LogStep, PTL DEF Spec

(* The playground lists decisions in the order they were asked for, each   *)
(* once, and the panel shows the newest, although answers are taken as     *)
(* they come (playground/page.tsx:101-113).                                *)
THEOREM LogsInOrder == Spec => []LogInOrder
<1>1. LogInv => LogInOrder
    BY DEF LogInv, Logging, LogInOrder, PlaygroundScreen
<1>2. QED
    BY <1>1, LogInvariant, PTL
=============================================================================
