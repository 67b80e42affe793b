------------------------- MODULE BulkUpload_proofs -------------------------
(* Safety of uploads and of the places they are made into, for any files,   *)
(* any number of rows, and any number of uploads and requests.              *)
EXTENDS BulkUpload, SequenceTheorems, FiniteSetTheorems, WellFoundedInduction, TLAPS

\* Induction, with a set for the property: what the scan of the rows of a file
\* keeps is shown row by row.
LEMMA LeastNumber ==
    ASSUME NEW S \in SUBSET Nat, S # {}
    PROVE  \E x \in S : \A y \in S : x <= y
<1> DEFINE R == OpToRel(<, Nat)
<1>1. IsWellFoundedOn(R, Nat)
  BY NatLessThanWellFounded
<1>2. \A x, y \in Nat : <<y, x>> \in R <=> y < x
  BY DEF OpToRel
<1> HIDE DEF R
<1>3. PICK x \in S : \A y \in S : ~(<<y, x>> \in R)
  BY <1>1, WFMin
<1>4. ASSUME NEW y \in S PROVE x <= y
  <2>1. ~(y < x)
    BY <1>2, <1>3
  <2> QED BY <2>1
<1> QED BY <1>4

LEMMA Induction ==
    ASSUME NEW S, 0 \in S, \A n \in Nat : n \in S => n + 1 \in S
    PROVE  Nat \subseteq S
<1> SUFFICES ASSUME Nat \ S # {} PROVE FALSE
  OBVIOUS
<1>1. PICK n \in Nat \ S : \A k \in Nat \ S : n <= k
  BY LeastNumber
<1>2. n # 0 /\ n - 1 \in Nat /\ n - 1 \in S
  BY <1>1
<1> QED BY <1>1, <1>2

LEMMA LeastIsIn ==
    ASSUME NEW S \in SUBSET Nat, S # {}
    PROVE  Min(S) \in S
<1>1. \E x \in S : \A y \in S : x =< y
  BY LeastNumber
<1> QED BY <1>1 DEF Min

LEMMA AppendToSet ==
    ASSUME NEW S, NEW s \in Seq(S), NEW e \in S
    PROVE  /\ Append(s, e) \in Seq(S)
           /\ Len(Append(s, e)) = Len(s) + 1
           /\ ToSet(Append(s, e)) = ToSet(s) \cup {e}
<1>1. /\ Append(s, e) \in Seq(S) /\ Len(s) \in Nat
      /\ Len(Append(s, e)) = Len(s) + 1
      /\ DOMAIN s = 1 .. Len(s) /\ DOMAIN Append(s, e) = 1 .. Len(s) + 1
      /\ \A i \in 1 .. Len(s) : Append(s, e)[i] = s[i]
      /\ Append(s, e)[Len(s) + 1] = e
  OBVIOUS
<1>2. 1 .. Len(s) + 1 = 1 .. Len(s) \cup {Len(s) + 1}
  BY <1>1
<1>3. ToSet(Append(s, e)) = ToSet(s) \cup {e}
  BY <1>1, <1>2 DEF ToSet
<1> QED BY <1>1, <1>3
----------------------------------------------------------------------------
\* A table with rows inserted keeps what it had, and has a row for each code.
LEMMA WithAdds ==
    ASSUME NEW table, NEW rows
    PROVE  \A c \in DOMAIN table : /\ c \in DOMAIN With(table, rows)
                                   /\ With(table, rows)[c] = table[c]
BY DEF With

LEMMA WithRow ==
    ASSUME NEW table, NEW rows \in Seq(NewPlace), NEW c \in DOMAIN With(table, rows),
           c \notin DOMAIN table
    PROVE  \E i \in DOMAIN rows :
               /\ rows[i].code = c
               /\ With(table, rows)[c] = [name |-> rows[i].name, parent |-> rows[i].parent]
<1> DEFINE named == {i \in DOMAIN rows : rows[i].code = c}
           k == Min(named)
<1>1. DOMAIN rows \subseteq Nat
  BY LenProperties
<1>2. \E i \in DOMAIN rows : rows[i].code = c
  BY DEF With
<1>3. k \in named
  BY <1>1, <1>2, LeastIsIn
<1>4. With(table, rows)[c] = [name |-> rows[k].name, parent |-> rows[k].parent]
  BY DEF With
<1> QED BY <1>3, <1>4

LEMMA WithDomain ==
    ASSUME NEW table, NEW rows
    PROVE  DOMAIN With(table, rows) = DOMAIN table \cup {rows[i].code : i \in DOMAIN rows}
BY DEF With

LEMMA TableIs ==
    ASSUME NEW table
    PROVE  table \in Table <=> /\ DOMAIN table \subseteq Codes
                               /\ table \in [DOMAIN table -> Place]
BY DEF Table

LEMMA WithIsTable ==
    ASSUME NEW table \in Table, NEW rows \in Seq(NewPlace)
    PROVE  With(table, rows) \in Table
<1> DEFINE new == With(table, rows)
<1>1. new = [c \in DOMAIN new |-> new[c]]
  BY DEF With
<1>2. \A i \in DOMAIN rows : rows[i] \in NewPlace
  BY LenProperties
<1>3. DOMAIN new \subseteq Codes
  <2>1. DOMAIN new = DOMAIN table \cup {rows[i].code : i \in DOMAIN rows}
    BY WithDomain
  <2>2. DOMAIN table \subseteq Codes
    BY TableIs
  <2> HIDE DEF new
  <2> QED BY <1>2, <2>1, <2>2 DEF NewPlace
<1>4. ASSUME NEW c \in DOMAIN new
      PROVE  new[c] \in Place
  <2>1. CASE c \in DOMAIN table
    BY <2>1, WithAdds, TableIs
  <2>2. CASE c \notin DOMAIN table
    <3>1. PICK i \in DOMAIN rows :
              new[c] = [name |-> rows[i].name, parent |-> rows[i].parent]
      BY <2>2, WithRow
    <3>2. rows[i] \in NewPlace
      BY <1>2
    <3> HIDE DEF new
    <3> QED BY <3>1, <3>2 DEF NewPlace, Place
  <2> QED BY <2>1, <2>2
<1> HIDE DEF new
<1>5. new \in [DOMAIN new -> Place]
  BY <1>1, <1>4
<1> QED BY <1>3, <1>5, TableIs DEF new

LEMMA PartIsTable ==
    ASSUME NEW table \in Table, NEW S \in SUBSET DOMAIN table
    PROVE  /\ [c \in S |-> table[c]] \in Table
           /\ DOMAIN [c \in S |-> table[c]] = S
           /\ \A c \in S : [k \in S |-> table[k]][c] = table[c]
<1>1. [c \in S |-> table[c]] \in [S -> Place] /\ S \subseteq Codes
  BY TableIs
<1> QED BY <1>1, TableIs
----------------------------------------------------------------------------
\* What is kept of the first i rows, given what is kept of fewer.
ScanRow(level, rows, known, kept, i) ==
    IF i = 0 THEN <<>>
    ELSE IF /\ Filled(rows[i], known)
            /\ \A k \in ToSet(kept[i - 1]) : ~Alike(level, k, rows[i])
         THEN Append(kept[i - 1], rows[i])
         ELSE kept[i - 1]

IsScan(level, rows, known, n, kept) ==
    kept = [i \in 0 .. n |-> ScanRow(level, rows, known, kept, i)]

LEMMA ScanStart ==
    ASSUME NEW level, NEW rows, NEW known
    PROVE  \E kept : IsScan(level, rows, known, 0, kept)
<1> DEFINE kept == [i \in 0 .. 0 |-> <<>>]
<1>1. \A i \in 0 .. 0 : ScanRow(level, rows, known, kept, i) = <<>>
  BY DEF ScanRow
<1>2. IsScan(level, rows, known, 0, kept)
  BY <1>1 DEF IsScan
<1> QED BY <1>2

LEMMA ScanGoesOn ==
    ASSUME NEW level, NEW rows, NEW known, NEW n \in Nat,
           NEW kept, IsScan(level, rows, known, n, kept)
    PROVE  \E more : IsScan(level, rows, known, n + 1, more)
<1> DEFINE last == ScanRow(level, rows, known, kept, n + 1)
           more == [i \in 0 .. n + 1 |-> IF i = n + 1 THEN last ELSE kept[i]]
<1>1. kept = [i \in 0 .. n |-> ScanRow(level, rows, known, kept, i)]
  BY DEF IsScan
<1>2. ASSUME NEW i \in 0 .. n + 1
      PROVE  more[i] = ScanRow(level, rows, known, more, i)
  <2>1. i # 0 => i - 1 \in 0 .. n /\ more[i - 1] = kept[i - 1]
    OBVIOUS
  <2>2. ScanRow(level, rows, known, more, i) = ScanRow(level, rows, known, kept, i)
    <3> HIDE DEF more
    <3> QED BY <2>1 DEF ScanRow
  <2>3. CASE i = n + 1
    BY <2>2, <2>3
  <2>4. CASE i # n + 1
    <3>1. i \in 0 .. n
      BY <2>4
    <3>2. kept[i] = ScanRow(level, rows, known, kept, i)
      BY <1>1, <3>1
    <3> QED BY <2>2, <2>4, <3>2
  <2> QED BY <2>3, <2>4
<1>3. more = [i \in 0 .. n + 1 |-> more[i]]
  OBVIOUS
<1>4. IsScan(level, rows, known, n + 1, more)
  <2> HIDE DEF more
  <2>1. [i \in 0 .. n + 1 |-> more[i]]
          = [i \in 0 .. n + 1 |-> ScanRow(level, rows, known, more, i)]
    BY <1>2
  <2> QED BY <1>3, <2>1 DEF IsScan
<1> QED BY <1>4

\* The scan is well defined, however many rows there are.
LEMMA ScanExists ==
    ASSUME NEW level, NEW rows, NEW known, NEW n \in Nat
    PROVE  \E kept : IsScan(level, rows, known, n, kept)
<1> DEFINE S == {k \in Nat : \E kept : IsScan(level, rows, known, k, kept)}
<1>1. 0 \in S
  BY ScanStart
<1>2. ASSUME NEW k \in Nat, k \in S PROVE k + 1 \in S
  <2>1. PICK kept : IsScan(level, rows, known, k, kept)
    BY <1>2
  <2> QED BY <2>1, ScanGoesOn
<1> HIDE DEF S
<1>3. Nat \subseteq S
  BY <1>1, <1>2, Induction
<1> QED BY <1>3 DEF S

LEMMA KeptIsScanned ==
    ASSUME NEW level, NEW file, NEW known, Len(Placed(file)) \in Nat
    PROVE  \E kept : /\ IsScan(level, Placed(file), known, Len(Placed(file)), kept)
                     /\ Kept(level, file, known) = kept[Len(Placed(file))]
<1> DEFINE rows == Placed(file)
           n == Len(rows)
           scan == CHOOSE kept : IsScan(level, rows, known, n, kept)
<1>1. IsScan(level, rows, known, n, scan)
  BY ScanExists
<1>2. Kept(level, file, known) = scan[n]
  BY DEF Kept, IsScan, ScanRow
<1> QED BY <1>1, <1>2
----------------------------------------------------------------------------
\* The rows with the numbers in "standing" are those left by striking out, from
\* the top, every row that is incomplete or like one left standing above it.
Stands(level, rows, known, standing) ==
    /\ standing \subseteq DOMAIN rows
    /\ \A i \in DOMAIN rows :
         i \in standing <=> /\ Filled(rows[i], known)
                            /\ \A k \in standing : k < i => ~Alike(level, rows[k], rows[i])

\* What is kept of some rows: those with the numbers in S.
KeepsRows(rows, S, kept) ==
    /\ kept \in Seq(NewPlace)
    /\ Len(kept) = Cardinality(S)
    /\ ToSet(kept) = {rows[k] : k \in S}

CellRow == [parent : Cell(Parents), code : Cell(Codes), name : Cell(Names)]

LEMMA RowsAre ==
    ASSUME NEW rows \in Rows
    PROVE  /\ Len(rows) \in Nat
           /\ DOMAIN rows = 1 .. Len(rows)
           /\ \A i \in 1 .. Len(rows) : rows[i] \in CellRow
<1>1. rows \in Seq(CellRow)
  BY DEF Rows, CellRow
<1> QED BY <1>1, LenProperties, ElementOfSeq

LEMMA ScanKeeps ==
    ASSUME NEW level, NEW rows \in Rows, NEW known \in SUBSET Parents,
           NEW kept, IsScan(level, rows, known, Len(rows), kept)
    PROVE  \E standing : /\ Stands(level, rows, known, standing)
                         /\ KeepsRows(rows, standing, kept[Len(rows)])
<1> DEFINE n == Len(rows)
           standing == {i \in 1 .. n : /\ Filled(rows[i], known)
                                       /\ \A k \in ToSet(kept[i - 1]) : ~Alike(level, k, rows[i])}
           upto(i) == {k \in standing : k <= i}
           S == {i \in Nat : i <= n => KeepsRows(rows, upto(i), kept[i])}
<1>1. /\ n \in Nat /\ DOMAIN rows = 1 .. n
      /\ \A i \in 1 .. n : rows[i] \in CellRow
  BY RowsAre
<1>2. \A i \in 0 .. n : kept[i] = ScanRow(level, rows, known, kept, i)
  <2>1. kept = [i \in 0 .. n |-> ScanRow(level, rows, known, kept, i)]
    BY DEF IsScan
  <2> QED BY <2>1
<1>3. 0 \in S
  <2>1. kept[0] = <<>>
    BY <1>1, <1>2 DEF ScanRow
  <2>2. upto(0) = {}
    BY <1>1
  <2>3. <<>> \in Seq(NewPlace) /\ Len(<<>>) = 0 /\ ToSet(<<>>) = {}
    BY DEF ToSet
  <2> HIDE DEF upto
  <2> QED BY <2>1, <2>2, <2>3, FS_EmptySet DEF KeepsRows
<1>4. ASSUME NEW i \in Nat, i \in S PROVE i + 1 \in S
  <2> SUFFICES ASSUME i + 1 <= n
               PROVE  KeepsRows(rows, upto(i + 1), kept[i + 1])
    OBVIOUS
  <2>1. KeepsRows(rows, upto(i), kept[i])
    BY <1>1, <1>4
  <2>2. i + 1 \in 1 .. n /\ i + 1 \in 0 .. n /\ i + 1 # 0 /\ i + 1 - 1 = i
    BY <1>1
  <2>3. kept[i + 1] = IF i + 1 \in standing THEN Append(kept[i], rows[i + 1]) ELSE kept[i]
    <3>1. kept[i + 1] = ScanRow(level, rows, known, kept, i + 1)
      BY <1>2, <2>2
    <3>2. i + 1 \in standing
            <=> /\ Filled(rows[i + 1], known)
                /\ \A k \in ToSet(kept[i]) : ~Alike(level, k, rows[i + 1])
      BY <2>2
    <3> HIDE DEF standing
    <3> QED BY <2>2, <3>1, <3>2 DEF ScanRow
  <2>4. CASE i + 1 \in standing
    <3>1. rows[i + 1] \in NewPlace
      <4>1. rows[i + 1] \in CellRow /\ Filled(rows[i + 1], known)
        BY <1>1, <2>2, <2>4
      <4> QED BY <4>1 DEF Filled, NewPlace, Cell, CellRow
    <3>2. upto(i + 1) = upto(i) \cup {i + 1} /\ i + 1 \notin upto(i)
      BY <1>1, <2>4
    <3>3. IsFiniteSet(upto(i))
      <4>1. IsFiniteSet(1 .. n) /\ upto(i) \subseteq 1 .. n
        BY <1>1, FS_Interval
      <4> QED BY <4>1, FS_Subset
    <3> HIDE DEF upto, standing
    <3>4. Cardinality(upto(i + 1)) = Cardinality(upto(i)) + 1
      BY <3>2, <3>3, FS_AddElement
    <3>5. kept[i + 1] = Append(kept[i], rows[i + 1])
      BY <2>3, <2>4
    <3>6. /\ kept[i + 1] \in Seq(NewPlace)
          /\ Len(kept[i + 1]) = Len(kept[i]) + 1
          /\ ToSet(kept[i + 1]) = ToSet(kept[i]) \cup {rows[i + 1]}
      BY <2>1, <3>1, <3>5, AppendToSet DEF KeepsRows
    <3> QED BY <2>1, <3>2, <3>4, <3>6 DEF KeepsRows
  <2>5. CASE i + 1 \notin standing
    <3>1. upto(i + 1) = upto(i)
      BY <1>1, <2>5
    <3> QED BY <2>1, <2>3, <2>5, <3>1
  <2> QED BY <2>4, <2>5
<1>5. Nat \subseteq S
  <2> HIDE DEF S
  <2> QED BY <1>3, <1>4, Induction
<1>6. ASSUME NEW i \in 0 .. n PROVE KeepsRows(rows, upto(i), kept[i])
  <2>1. i \in S /\ i <= n
    <3> HIDE DEF S, n
    <3> QED BY <1>1, <1>5
  <2> HIDE DEF upto
  <2> QED BY <2>1
<1>7. Stands(level, rows, known, standing)
  <2>1. ASSUME NEW i \in 1 .. n
        PROVE  ToSet(kept[i - 1]) = {rows[k] : k \in upto(i - 1)}
    <3>1. i - 1 \in 0 .. n
      BY <1>1
    <3> HIDE DEF upto
    <3> QED BY <1>6, <3>1 DEF KeepsRows
  <2>2. ASSUME NEW i \in 1 .. n
        PROVE  i \in standing <=> /\ Filled(rows[i], known)
                                  /\ \A k \in standing : k < i => ~Alike(level, rows[k], rows[i])
    <3>1. \A k \in standing : (k <= i - 1) <=> (k < i)
      BY <1>1
    <3>2. i \in standing <=> /\ Filled(rows[i], known)
                              /\ \A k \in ToSet(kept[i - 1]) : ~Alike(level, k, rows[i])
      BY <2>2
    <3>3. upto(i - 1) = {k \in standing : k < i}
      BY <3>1
    <3> HIDE DEF upto, standing
    <3>4. ToSet(kept[i - 1]) = {rows[k] : k \in {j \in standing : j < i}}
      BY <2>1, <3>3
    <3> QED BY <3>2, <3>4
  <2> HIDE DEF standing
  <2>3. standing \subseteq 1 .. n
    BY DEF standing
  <2> QED BY <1>1, <2>2, <2>3 DEF Stands
<1>8. upto(n) = standing
  BY <1>1
<1>9. KeepsRows(rows, standing, kept[n])
  <2> HIDE DEF upto, standing
  <2>1. n \in 0 .. n
    BY <1>1
  <2> QED BY <1>6, <1>8, <2>1
<1> QED BY <1>7, <1>9

LEMMA PlacedRows ==
    ASSUME NEW file \in Files
    PROVE  /\ Placed(file) \in Rows
           /\ Len(Placed(file)) = Len(file.rows)
           /\ Len(file.rows) \in Nat
           /\ DOMAIN file.rows = 1 .. Len(file.rows)
           /\ DOMAIN Placed(file) = DOMAIN file.rows
           /\ \A i \in DOMAIN file.rows :
                /\ Placed(file)[i].code = file.rows[i].code
                /\ Placed(file)[i].name = file.rows[i].name
                /\ Placed(file)[i].parent = IF file.parent = NONE THEN file.rows[i].parent
                                            ELSE file.parent
<1>1. file.rows \in Rows /\ file.parent \in Parents \cup {NONE}
  BY FilesAssumption
<1>2. CASE file.parent = NONE
  BY <1>1, <1>2 DEF Placed, Rows
<1>3. CASE file.parent # NONE
  <2> DEFINE n == Len(file.rows)
  <2>1. n \in Nat /\ DOMAIN file.rows = 1 .. n
        /\ \A i \in 1 .. n : file.rows[i] \in CellRow
    BY <1>1, RowsAre
  <2>2. Placed(file) = [i \in 1 .. n |-> [file.rows[i] EXCEPT !.parent = file.parent]]
    BY <1>3, <2>1 DEF Placed
  <2>3. ASSUME NEW i \in 1 .. n
        PROVE  /\ Placed(file)[i] = [file.rows[i] EXCEPT !.parent = file.parent]
               /\ Placed(file)[i] \in CellRow
               /\ Placed(file)[i].code = file.rows[i].code
               /\ Placed(file)[i].name = file.rows[i].name
               /\ Placed(file)[i].parent = file.parent
    <3>1. Placed(file)[i] = [file.rows[i] EXCEPT !.parent = file.parent]
      BY <2>2
    <3>2. file.parent \in Cell(Parents)
      BY <1>1, <1>3 DEF Cell
    <3> QED BY <2>1, <3>1, <3>2 DEF CellRow
  <2>4. Placed(file) \in Seq(CellRow) /\ DOMAIN Placed(file) = 1 .. n
    <3>1. Placed(file) = [i \in 1 .. n |-> Placed(file)[i]]
      BY <2>2
    <3>2. Placed(file) \in [1 .. n -> CellRow]
      BY <2>3, <3>1
    <3> HIDE DEF n
    <3> QED BY <2>1, <3>2
  <2>5. Len(Placed(file)) = n
    <3> HIDE DEF n
    <3> QED BY <2>1, <2>4
  <2> QED BY <1>3, <2>1, <2>3, <2>4, <2>5 DEF Rows, CellRow
<1> QED BY <1>2, <1>3

\* What a handler keeps of a file, for any number of rows.
LEMMA KeptStands ==
    ASSUME NEW level, NEW file \in Files, NEW known \in SUBSET Parents
    PROVE  \E standing : /\ Stands(level, Placed(file), known, standing)
                         /\ KeepsRows(Placed(file), standing, Kept(level, file, known))
<1> DEFINE rows == Placed(file)
<1>1. rows \in Rows /\ Len(rows) \in Nat
  BY PlacedRows
<1>2. PICK kept : /\ IsScan(level, rows, known, Len(rows), kept)
                  /\ Kept(level, file, known) = kept[Len(rows)]
  BY <1>1, KeptIsScanned
<1> HIDE DEF rows
<1>3. \E standing : /\ Stands(level, rows, known, standing)
                    /\ KeepsRows(rows, standing, kept[Len(rows)])
  BY <1>1, <1>2, ScanKeeps
<1> QED BY <1>2, <1>3 DEF rows
----------------------------------------------------------------------------
CreateState == {Idle} \cup [pc : {"insert"}, row : NewPlace, calm : BOOLEAN]

WriteState ==
    [pc : {"idle", "list"}] \cup [pc : {"purge"}, then : {"idle", "list"}]
      \cup [pc : {"store"}, list : SUBSET Parents]

\* A table all of whose places are under a place of the level above.
Rooted(table) == /\ table \in Table
                 /\ \A c \in DOMAIN table : table[c].parent \in parents

TablesInv == /\ kind \in Kinds
             /\ parents \subseteq Parents
             /\ Rooted(places)
             /\ listed \in (SUBSET Parents) \cup {NONE}

RequestsInv == /\ creates \in [Creates -> CreateState]
               /\ stateWrites \in [StateWrites -> WriteState]

\* A creation whose table nobody changed since its check has nobody of its name
\* under its parent.
CalmCreates ==
    \A c \in Creates : creates[c].pc = "insert" /\ creates[c].calm => ~Named(creates[c].row)

LocationsInv == TablesInv /\ RequestsInv /\ CalmCreates

LEMMA LocationsInvTypes == LocationsInv => LocationsTypeOK
BY DEF LocationsInv, TablesInv, RequestsInv, Rooted, LocationsTypeOK, CreateState, WriteState

LEMMA RootedWith ==
    ASSUME NEW table, Rooted(table), NEW rows \in Seq(NewPlace),
           \A i \in DOMAIN rows : rows[i].parent \in parents
    PROVE  Rooted(With(table, rows))
<1> DEFINE new == With(table, rows)
<1>1. new \in Table
  BY WithIsTable DEF Rooted
<1>2. ASSUME NEW c \in DOMAIN new
      PROVE  new[c].parent \in parents
  <2>1. CASE c \in DOMAIN table
    BY <2>1, WithAdds DEF Rooted
  <2>2. CASE c \notin DOMAIN table
    <3>1. PICK i \in DOMAIN rows :
              new[c] = [name |-> rows[i].name, parent |-> rows[i].parent]
      BY <2>2, WithRow
    <3> HIDE DEF new
    <3> QED BY <3>1
  <2> QED BY <2>1, <2>2
<1> QED BY <1>1, <1>2 DEF Rooted

LEMMA RootedUnlessOrphaned ==
    ASSUME NEW table, Rooted(table), NEW rows \in Seq(NewPlace), ~Orphaned(table, rows)
    PROVE  Rooted(With(table, rows))
<1> DEFINE new == With(table, rows)
<1>1. new \in Table
  BY WithIsTable DEF Rooted
<1>2. \A c \in DOMAIN new \ DOMAIN table : new[c].parent \in parents
  BY DEF Orphaned
<1>3. \A c \in DOMAIN table : new[c].parent \in parents
  BY WithAdds DEF Rooted
<1> HIDE DEF new
<1>4. Rooted(new)
  BY <1>1, <1>2, <1>3 DEF Rooted
<1> QED BY <1>4 DEF new

LEMMA RootedPart ==
    ASSUME NEW table, Rooted(table), NEW S \in SUBSET DOMAIN table
    PROVE  Rooted([c \in S |-> table[c]])
BY PartIsTable DEF Rooted

LEMMA SingleRow ==
    ASSUME NEW row \in NewPlace
    PROVE  /\ <<row>> \in Seq(NewPlace)
           /\ DOMAIN <<row>> = {1}
           /\ <<row>>[1] = row
OBVIOUS

\* The creations, when a table has changed: none of them is calm.
LEMMA DisturbedFits ==
    ASSUME RequestsInv
    PROVE  /\ Disturbed \in [Creates -> CreateState]
           /\ \A c \in Creates : Disturbed[c].pc = "insert" => ~Disturbed[c].calm
<1>1. ASSUME NEW c \in Creates
      PROVE  /\ Disturbed[c] \in CreateState
             /\ Disturbed[c].pc = "insert" => ~Disturbed[c].calm
  <2>1. Disturbed[c] = IF creates[c].pc = "insert" THEN [creates[c] EXCEPT !.calm = FALSE]
                       ELSE creates[c]
    BY DEF Disturbed
  <2>2. creates[c] \in CreateState
    BY DEF RequestsInv
  <2>3. CASE creates[c].pc = "insert"
    <3>1. creates[c] \in [pc : {"insert"}, row : NewPlace, calm : BOOLEAN]
      BY <2>2, <2>3 DEF CreateState, Idle
    <3>2. Disturbed[c] = [creates[c] EXCEPT !.calm = FALSE]
      BY <2>1, <2>3
    <3>3. /\ Disturbed[c] \in [pc : {"insert"}, row : NewPlace, calm : BOOLEAN]
          /\ Disturbed[c].calm = FALSE
      BY <3>1, <3>2
    <3> QED BY <3>3 DEF CreateState
  <2>4. CASE creates[c].pc # "insert"
    BY <2>1, <2>2, <2>4
  <2> QED BY <2>3, <2>4
<1>2. Disturbed = [c \in Creates |-> Disturbed[c]]
  BY DEF Disturbed
<1> QED BY <1>1, <1>2

\* A change of the places that leaves the level above alone.
LEMMA ChangeKeepsInv ==
    ASSUME LocationsInv, Rooted(places'), UNCHANGED <<kind, parents, listed, stateWrites>>,
           creates' = Disturbed
    PROVE  LocationsInv'
<1>1. RequestsInv'
  BY DisturbedFits DEF LocationsInv, RequestsInv
<1>2. TablesInv'
  BY DEF LocationsInv, TablesInv, Rooted
<1>3. CalmCreates'
  BY DisturbedFits DEF LocationsInv, CalmCreates
<1> QED BY <1>1, <1>2, <1>3 DEF LocationsInv

\* A step of creations that leaves the tables alone.
LEMMA IdleKeepsInv ==
    ASSUME LocationsInv, NEW c \in Creates, creates' = [creates EXCEPT ![c] = Idle],
           UNCHANGED <<kind, parents, places, listed, stateWrites>>
    PROVE  LocationsInv'
<1>1. \A d \in Creates : creates'[d] = creates[d] \/ creates'[d] = Idle
  BY DEF LocationsInv, RequestsInv
<1>2. RequestsInv'
  BY <1>1 DEF LocationsInv, RequestsInv, CreateState
<1>3. CalmCreates'
  BY <1>1 DEF LocationsInv, CalmCreates, Named, Idle
<1> QED BY <1>2, <1>3 DEF LocationsInv, TablesInv, Rooted

\* A step that changes neither the places nor the creations.
LEMMA OthersKeepInv ==
    ASSUME LocationsInv, UNCHANGED <<kind, places, creates>>,
           parents' \in SUBSET Parents, parents \subseteq parents',
           listed' \in (SUBSET Parents) \cup {NONE},
           stateWrites' \in [StateWrites -> WriteState]
    PROVE  LocationsInv'
<1>1. CalmCreates'
  BY DEF LocationsInv, CalmCreates, Named
<1>2. TablesInv'
  BY DEF LocationsInv, TablesInv, Rooted
<1> QED BY <1>1, <1>2 DEF LocationsInv, RequestsInv

\* A place of the level above goes with what is under it.
LEMMA CascadeKeepsInv ==
    ASSUME LocationsInv, NEW p \in parents, parents' = parents \ {p},
           places' = Without(places, p), creates' = Disturbed, UNCHANGED <<kind, listed>>,
           stateWrites' \in [StateWrites -> WriteState]
    PROVE  LocationsInv'
<1> DEFINE kept == {c \in DOMAIN places : places[c].parent # p}
<1>1. places' = [c \in kept |-> places[c]]
  BY DEF Without
<1>2. /\ places' \in Table /\ DOMAIN places' = kept
      /\ \A c \in kept : places'[c] = places[c]
  BY <1>1, PartIsTable DEF LocationsInv, TablesInv, Rooted
<1>3. Rooted(places)'
  BY <1>2 DEF LocationsInv, TablesInv, Rooted
<1>4. TablesInv'
  BY <1>3 DEF LocationsInv, TablesInv
<1>5. RequestsInv'
  BY DisturbedFits DEF LocationsInv, RequestsInv
<1>6. CalmCreates'
  BY DisturbedFits DEF LocationsInv, CalmCreates
<1> QED BY <1>4, <1>5, <1>6 DEF LocationsInv
----------------------------------------------------------------------------
LEMMA LocationsStart == LocationsInit => LocationsInv
<1> SUFFICES ASSUME LocationsInit PROVE LocationsInv
  OBVIOUS
<1>1. DOMAIN places = {} /\ places \in [{} -> Place]
  BY DEF LocationsInit
<1>2. Rooted(places)
  BY <1>1, TableIs DEF Rooted
<1>3. TablesInv
  BY <1>2 DEF LocationsInit, TablesInv
<1>4. RequestsInv
  BY DEF LocationsInit, RequestsInv, Idle, CreateState, WriteState
<1>5. CalmCreates
  BY DEF LocationsInit, CalmCreates, Idle
<1> QED BY <1>3, <1>4, <1>5 DEF LocationsInv

LEMMA CheckKeepsInv ==
    ASSUME LocationsInv, NEW c \in Creates, CreateCheck(c)
    PROVE  LocationsInv'
<1>1. PICK row \in Wanted :
          /\ LgaIsNew(row) \/ WardIsNew(row) \/ PollingUnitIsNew(row)
          /\ creates' = [creates EXCEPT ![c] = [pc |-> "insert", row |-> row, calm |-> TRUE]]
  BY DEF CreateCheck
<1>2. UNCHANGED <<kind, parents, places, listed, stateWrites>>
  BY DEF CreateCheck
<1>3. row \in NewPlace /\ ~Named(row)
  BY <1>1, RequestsAssumption DEF LgaIsNew, WardIsNew, PollingUnitIsNew
<1>4. /\ creates \in [Creates -> CreateState]
      /\ creates' = [creates EXCEPT ![c] = [pc |-> "insert", row |-> row, calm |-> TRUE]]
  BY <1>1 DEF LocationsInv, RequestsInv
<1>5. RequestsInv'
  BY <1>2, <1>3, <1>4 DEF LocationsInv, RequestsInv, CreateState
<1>6. ASSUME NEW d \in Creates, creates'[d].pc = "insert", creates'[d].calm
      PROVE  ~Named(creates'[d].row)
  <2>1. CASE d = c
    BY <1>3, <1>4, <2>1
  <2>2. CASE d # c
    <3>1. creates'[d] = creates[d]
      BY <1>4, <2>2
    <3> QED BY <1>6, <3>1 DEF LocationsInv, CalmCreates
  <2> QED BY <2>1, <2>2
<1>7. CalmCreates'
  <2>1. places' = places
    BY <1>2
  <2> QED BY <1>6, <2>1 DEF CalmCreates, Named
<1> QED BY <1>2, <1>5, <1>7 DEF LocationsInv, TablesInv, Rooted

LEMMA CreateStepKeepsInv ==
    ASSUME LocationsInv, NEW c \in Creates, CreateStep(c)
    PROVE  LocationsInv'
<1>1. CASE CreateDies(c)
  BY <1>1, IdleKeepsInv DEF CreateDies
<1>2. CASE CreateInsert(c)
  <2> DEFINE row == creates[c].row
  <2>1. row \in NewPlace
    BY <1>2 DEF CreateInsert, LocationsInv, RequestsInv, CreateState, Idle
  <2>2. CASE row \in NewPlace /\ (row.code \in DOMAIN places \/ row.parent \notin parents)
    BY <1>2, <2>2, IdleKeepsInv DEF CreateInsert
  <2>3. CASE ~(row.code \in DOMAIN places \/ row.parent \notin parents)
    <3>1. /\ places' = With(places, <<row>>)
          /\ creates' = [Disturbed EXCEPT ![c] = Idle]
          /\ UNCHANGED <<kind, parents, listed, stateWrites>>
      BY <1>2, <2>3 DEF CreateInsert
    <3>2. Rooted(places')
      BY <2>1, <2>3, <3>1, SingleRow, RootedWith DEF LocationsInv, TablesInv
    <3>3. \A d \in Creates : creates'[d] = Disturbed[d] \/ creates'[d] = Idle
      BY <3>1, DisturbedFits DEF LocationsInv
    <3>4. creates' \in [Creates -> CreateState]
      BY <3>1, DisturbedFits DEF LocationsInv, CreateState
    <3>5. TablesInv'
      BY <3>1, <3>2 DEF LocationsInv, TablesInv, Rooted
    <3>6. CalmCreates'
      BY <3>3, DisturbedFits DEF LocationsInv, CalmCreates, Idle
    <3> QED BY <3>1, <3>4, <3>5, <3>6 DEF LocationsInv, RequestsInv
  <2> QED BY <2>1, <2>2, <2>3
<1> QED BY <1>1, <1>2 DEF CreateStep

LEMMA BatchKeepsInv ==
    ASSUME LocationsInv, NEW level, CreateMultiple(level)
    PROVE  LocationsInv'
<1>1. PICK b \in Batches, p \in parents :
          places' = With(places, [i \in DOMAIN b |->
                             [code |-> b[i].code, name |-> b[i].name, parent |-> p]])
  BY DEF CreateMultiple
<1> DEFINE rows == [i \in DOMAIN b |-> [code |-> b[i].code, name |-> b[i].name, parent |-> p]]
<1>2. p \in Parents /\ b \in Seq([code : Codes, name : Names])
  BY RequestsAssumption DEF LocationsInv, TablesInv
<1>3. /\ Len(b) \in Nat /\ DOMAIN b = 1 .. Len(b)
      /\ \A i \in 1 .. Len(b) : b[i] \in [code : Codes, name : Names]
  BY <1>2, LenProperties, ElementOfSeq
<1>4. rows \in [1 .. Len(b) -> NewPlace]
  BY <1>2, <1>3 DEF NewPlace
<1>5. rows \in Seq(NewPlace) /\ \A i \in DOMAIN rows : rows[i].parent \in parents
  <2>1. \A i \in DOMAIN rows : rows[i].parent \in parents
    OBVIOUS
  <2> HIDE DEF rows
  <2> QED BY <1>3, <1>4, <2>1
<1>6. Rooted(places')
  <2> HIDE DEF rows
  <2> QED BY <1>1, <1>5, RootedWith DEF LocationsInv, TablesInv, rows
<1> QED BY <1>6, ChangeKeepsInv DEF CreateMultiple

LEMMA UpdateKeepsInv ==
    ASSUME LocationsInv, NEW level, UpdatePlace(level)
    PROVE  LocationsInv'
<1>1. PICK old \in DOMAIN places, row \in Wanted :
          /\ row.parent \in parents
          /\ places' = With([k \in DOMAIN places \ {old} |-> places[k]], <<row>>)
  BY DEF UpdatePlace
<1> DEFINE others == [k \in DOMAIN places \ {old} |-> places[k]]
<1>2. Rooted(others)
  BY RootedPart DEF LocationsInv, TablesInv
<1>3. row \in NewPlace
  BY RequestsAssumption
<1>4. Rooted(places')
  <2> HIDE DEF others
  <2> QED BY <1>1, <1>2, <1>3, SingleRow, RootedWith DEF others
<1> QED BY <1>4, ChangeKeepsInv DEF UpdatePlace

LEMMA RemoveKeepsInv ==
    ASSUME LocationsInv, NEW level, RemovePlace(level)
    PROVE  LocationsInv'
<1>1. PICK old \in DOMAIN places : places' = [k \in DOMAIN places \ {old} |-> places[k]]
  BY DEF RemovePlace
<1>2. Rooted(places')
  BY <1>1, RootedPart DEF LocationsInv, TablesInv
<1> QED BY <1>2, ChangeKeepsInv DEF RemovePlace

LEMMA StateWritesKeepInv ==
    ASSUME LocationsInv, NEW w \in StateWrites,
           StatesInsert(w) \/ StateUpdate(w) \/ StatesRead(w) \/ StateStep(w)
    PROVE  LocationsInv'
<1>1. /\ stateWrites \in [StateWrites -> WriteState] /\ stateWrites[w] \in WriteState
      /\ parents \in SUBSET Parents /\ listed \in (SUBSET Parents) \cup {NONE}
  BY DEF LocationsInv, RequestsInv, TablesInv
<1>2. PICK s : stateWrites' = [stateWrites EXCEPT ![w] = s] /\ s \in WriteState
  BY <1>1 DEF StatesInsert, StateUpdate, StatesRead, StateStep, StatePurge, StatesHit,
     StatesLoad, StatesStore, StateWriteDies, WriteState, Idle
<1>3. stateWrites' \in [StateWrites -> WriteState]
  BY <1>1, <1>2
<1>4. listed' \in (SUBSET Parents) \cup {NONE}
  BY <1>1 DEF StatesInsert, StateUpdate, StatesRead, StateStep, StatePurge, StatesHit,
     StatesLoad, StatesStore, StateWriteDies, WriteState
<1>5. /\ UNCHANGED <<kind, places, creates>>
      /\ parents' \in SUBSET Parents /\ parents \subseteq parents'
  BY <1>1 DEF StatesInsert, StateUpdate, StatesRead, StateStep, StatePurge, StatesHit,
     StatesLoad, StatesStore, StateWriteDies
<1> QED BY <1>3, <1>4, <1>5, OthersKeepInv

LEMMA StateRemoveKeepsInv ==
    ASSUME LocationsInv, NEW w \in StateWrites, StateRemove(w)
    PROVE  LocationsInv'
<1>1. stateWrites' \in [StateWrites -> WriteState]
  BY DEF StateRemove, LocationsInv, RequestsInv, WriteState
<1> QED BY <1>1, CascadeKeepsInv DEF StateRemove

LEMMA LevelAboveKeepsInv ==
    ASSUME LocationsInv, ParentCreated \/ ParentRemoved \/ Expire
    PROVE  LocationsInv'
<1>1. CASE ParentCreated
  BY <1>1, OthersKeepInv DEF ParentCreated, LocationsInv, RequestsInv, TablesInv
<1>2. CASE ParentRemoved
  BY <1>2, CascadeKeepsInv DEF ParentRemoved, LocationsInv, RequestsInv
<1>3. CASE Expire
  BY <1>3, OthersKeepInv DEF Expire, LocationsInv, RequestsInv, TablesInv
<1> QED BY <1>1, <1>2, <1>3

LEMMA LocationsStep == LocationsInv /\ LocationsNext => LocationsInv'
<1> SUFFICES ASSUME LocationsInv, LocationsNext PROVE LocationsInv'
  OBVIOUS
<1>1. ASSUME NEW c \in Creates, CreateCheck(c) \/ CreateStep(c) PROVE LocationsInv'
  BY <1>1, CheckKeepsInv, CreateStepKeepsInv
<1>2. CASE CreateLgas \/ CreateWards \/ CreatePollingUnits
  BY <1>2, BatchKeepsInv DEF CreateLgas, CreateWards, CreatePollingUnits
<1>3. CASE UpdateLga \/ UpdateWard \/ UpdatePollingUnit
  BY <1>3, UpdateKeepsInv DEF UpdateLga, UpdateWard, UpdatePollingUnit
<1>4. CASE RemoveLga \/ RemoveWard \/ RemovePollingUnit
  BY <1>4, RemoveKeepsInv DEF RemoveLga, RemoveWard, RemovePollingUnit
<1>5. CASE ParentCreated \/ ParentRemoved \/ Expire
  BY <1>5, LevelAboveKeepsInv
<1>6. ASSUME NEW w \in StateWrites,
             StatesInsert(w) \/ StateUpdate(w) \/ StateRemove(w) \/ StatesRead(w) \/ StateStep(w)
      PROVE  LocationsInv'
  BY <1>6, StateWritesKeepInv, StateRemoveKeepsInv
<1> QED BY <1>1, <1>2, <1>3, <1>4, <1>5, <1>6 DEF LocationsNext
----------------------------------------------------------------------------
Ended == {"none", "done", "dead"}

JobRecord ==
    [pc : Ended \cup {"waiting", "process", "store", "insert", "mail", "reported"},
     file : Files \cup {NONE}, failures : 0 .. MaxFailures - 1, stalls : 0 .. MaxStalls,
     known : SUBSET Parents, accepted : Seq(NewPlace), ok : Nat, failed : Nat \cup {-1},
     calm : BOOLEAN]

\* The rows of a file that was not rejected: what the scan keeps is accepted,
\* the others are counted.
Sorted(job) ==
    /\ job.accepted = Kept(kind, job.file, job.known)
    /\ Len(job.accepted) + job.failed = Len(job.file.rows)
    /\ job.file.parent # NONE => job.known = {job.file.parent}
    /\ job.pc # "insert" => job.ok = Len(job.accepted)

JobFits(job) ==
    /\ job \in JobRecord
    /\ job.pc \notin Ended => job.file \in Files
    /\ job.pc \in {"process", "store"} => job.accepted = <<>> /\ job.ok = 0
    /\ job.pc = "store" => kind = "lga" /\ job.file.parent = NONE
    /\ job.pc \in {"insert", "mail", "reported"} /\ job.failed # -1 => Sorted(job)

\* What a summary counts is in the table, if nobody else has changed it.
CountsThere(job, table) ==
    job.pc \in {"mail", "reported"} /\ job.calm =>
        {row.code : row \in ToSet(job.accepted)} \subseteq DOMAIN table

JobsInv ==
    /\ DOMAIN jobs = Jobs
    /\ jobs = [j \in Jobs |-> jobs[j]]
    /\ \A j \in Jobs : JobFits(jobs[j]) /\ CountsThere(jobs[j], places)

UploadInv == LocationsInv /\ JobsInv

\* As many rows are kept as stand, and no more than there are.
LEMMA KeptFits ==
    ASSUME NEW level, NEW file \in Files, NEW known \in SUBSET Parents
    PROVE  /\ Kept(level, file, known) \in Seq(NewPlace)
           /\ Len(Kept(level, file, known)) \in Nat
           /\ Len(file.rows) - Len(Kept(level, file, known)) \in Nat
<1> DEFINE kept == Kept(level, file, known)
<1>1. PICK standing : /\ Stands(level, Placed(file), known, standing)
                      /\ KeepsRows(Placed(file), standing, kept)
  BY KeptStands
<1>2. standing \subseteq 1 .. Len(file.rows) /\ Len(file.rows) \in Nat
  BY <1>1, PlacedRows DEF Stands
<1>3. /\ IsFiniteSet(1 .. Len(file.rows))
      /\ Cardinality(1 .. Len(file.rows)) = Len(file.rows)
  BY <1>2, FS_Interval
<1>4. Cardinality(standing) \in Nat /\ Cardinality(standing) <= Len(file.rows)
  BY <1>2, <1>3, FS_Subset, FS_CardinalityType
<1> HIDE DEF kept
<1>5. kept \in Seq(NewPlace) /\ Len(kept) = Cardinality(standing)
  BY <1>1 DEF KeepsRows
<1> QED BY <1>2, <1>4, <1>5 DEF kept

LEMMA RejectedFits ==
    ASSUME NEW job, JobFits(job), job.pc \notin Ended, NEW table
    PROVE  JobFits(Rejected(job)) /\ CountsThere(Rejected(job), table)
<1> DEFINE new == [job EXCEPT !.pc = "mail", !.accepted = <<>>, !.ok = 0, !.failed = -1]
<1>1. <<>> \in Seq(NewPlace) /\ ToSet(<<>>) = {}
  BY DEF ToSet
<1>2. /\ new \in JobRecord /\ new.file \in Files /\ new.pc = "mail" /\ new.failed = -1
      /\ new.accepted = <<>>
  BY <1>1 DEF JobFits, JobRecord, Ended
<1> HIDE DEF new
<1>3. JobFits(new) /\ CountsThere(new, table)
  BY <1>1, <1>2 DEF JobFits, CountsThere, Ended
<1> QED BY <1>3 DEF new, Rejected

\* Six handlers, one screening.
LEMMA ScreenedFits ==
    ASSUME NEW j \in Jobs, JobFits(jobs[j]), jobs[j].pc \in {"process", "store"},
           NEW known \in SUBSET Parents,
           jobs[j].file.parent # NONE => known = {jobs[j].file.parent}, NEW table
    PROVE  /\ JobFits(Screened(j, kind, known))
           /\ CountsThere(Screened(j, kind, known), table)
<1> DEFINE job == jobs[j]
           kept == Kept(kind, job.file, known)
           new == [job EXCEPT !.pc = IF kept = <<>> THEN "mail" ELSE "insert",
                              !.known = known, !.accepted = kept,
                              !.failed = Len(job.file.rows) - Len(kept)]
<1>1. job \in JobRecord /\ job.file \in Files /\ job.ok = 0
  BY DEF JobFits, Ended
<1>2. /\ kept \in Seq(NewPlace) /\ Len(kept) \in Nat
      /\ Len(job.file.rows) - Len(kept) \in Nat /\ Len(job.file.rows) \in Nat
  BY <1>1, KeptFits, PlacedRows
<1>3. CASE ~job.file.headers
  BY <1>3, RejectedFits DEF Screened, Ended
<1>4. CASE job.file.headers
  <2>1. Screened(j, kind, known) = new
    BY <1>4 DEF Screened, RowsOf
  <2> HIDE DEF kept, job
  <2>2. new \in JobRecord
    BY <1>1, <1>2 DEF JobRecord, Ended
  <2>3. /\ new.pc = IF kept = <<>> THEN "mail" ELSE "insert"
        /\ new.file = job.file /\ new.known = known /\ new.accepted = kept
        /\ new.failed = Len(job.file.rows) - Len(kept) /\ new.ok = 0
    BY <1>1 DEF JobRecord
  <2> HIDE DEF new
  <2>4. Sorted(new)
    <3>1. kept = <<>> => Len(kept) = 0
      OBVIOUS
    <3>2. new.accepted = Kept(kind, new.file, new.known)
      BY <2>3 DEF kept
    <3>3. new.file.parent # NONE => new.known = {new.file.parent}
      BY <2>3 DEF job
    <3> QED BY <1>2, <2>3, <3>1, <3>2, <3>3 DEF Sorted
  <2>5. JobFits(new)
    BY <1>1, <2>2, <2>3, <2>4 DEF JobFits
  <2>6. CountsThere(new, table)
    BY <2>3 DEF CountsThere, ToSet
  <2> QED BY <2>1, <2>5, <2>6
<1> QED BY <1>3, <1>4

\* A run that begins.
LEMMA FreshFits ==
    ASSUME NEW job, JobFits(job), job.pc \notin Ended, NEW pc \in {"waiting", "process"},
           NEW table
    PROVE  /\ JobFits(Fresh(job, pc)) /\ CountsThere(Fresh(job, pc), table)
           /\ Fresh(job, pc).pc = pc
           /\ Fresh(job, pc).failures = job.failures /\ Fresh(job, pc).stalls = job.stalls
<1> DEFINE new == [job EXCEPT !.pc = pc, !.known = {}, !.accepted = <<>>, !.ok = 0,
                              !.failed = 0]
<1>1. <<>> \in Seq(NewPlace)
  OBVIOUS
<1>2. /\ new \in JobRecord /\ new.file \in Files /\ new.pc = pc /\ new.ok = 0
      /\ new.accepted = <<>>
      /\ new.failures = job.failures /\ new.stalls = job.stalls
  BY <1>1 DEF JobFits, JobRecord, Ended
<1> HIDE DEF new
<1>3. JobFits(new) /\ CountsThere(new, table)
  BY <1>2 DEF JobFits, CountsThere, Ended
<1> QED BY <1>2, <1>3 DEF new, Fresh

LEMMA NoJobIsRecord == NoJob \in JobRecord
<1>1. <<>> \in Seq(NewPlace)
  OBVIOUS
<1> QED BY <1>1 DEF NoJob, JobRecord, Ended, MaxFailures, MaxStalls

\* A job that is no more, or not yet.
LEMMA NoJobFits ==
    ASSUME NEW pc \in Ended, NEW table
    PROVE  /\ JobFits([NoJob EXCEPT !.pc = pc])
           /\ CountsThere([NoJob EXCEPT !.pc = pc], table)
<1> DEFINE new == [NoJob EXCEPT !.pc = pc]
<1>1. new \in JobRecord /\ new.pc = pc
  BY NoJobIsRecord DEF JobRecord
<1> HIDE DEF new
<1>2. JobFits(new) /\ CountsThere(new, table)
  BY <1>1 DEF JobFits, CountsThere, Ended
<1> QED BY <1>2 DEF new

LEMMA QueuedFits ==
    ASSUME NEW file \in Files, NEW table
    PROVE  /\ JobFits([NoJob EXCEPT !.pc = "waiting", !.file = file])
           /\ CountsThere([NoJob EXCEPT !.pc = "waiting", !.file = file], table)
<1> DEFINE new == [NoJob EXCEPT !.pc = "waiting", !.file = file]
<1>1. new \in JobRecord /\ new.pc = "waiting" /\ new.file = file
  BY NoJobIsRecord DEF JobRecord
<1> HIDE DEF new
<1>2. JobFits(new) /\ CountsThere(new, table)
  BY <1>1 DEF JobFits, CountsThere, Ended
<1> QED BY <1>2 DEF new
----------------------------------------------------------------------------
\* The step of a job: it, and what it adds to the table.
LEMMA JobStepKeeps ==
    ASSUME JobsInv, NEW j \in Jobs, NEW job, SetJob(j, job), kind' = kind,
           DOMAIN places \subseteq DOMAIN places',
           JobFits(job), CountsThere(job, places')
    PROVE  JobsInv'
<1>1. /\ jobs' = [jobs EXCEPT ![j] = job] /\ DOMAIN jobs = Jobs
      /\ jobs = [i \in Jobs |-> jobs[i]]
  BY DEF SetJob, JobsInv
<1>2. DOMAIN jobs' = Jobs /\ jobs' = [i \in Jobs |-> jobs'[i]]
  BY <1>1
<1>3. ASSUME NEW i \in Jobs
      PROVE  JobFits(jobs'[i]) /\ CountsThere(jobs'[i], places')
  <2>1. CASE i = j
    BY <1>1, <2>1
  <2>2. CASE i # j
    <3>1. jobs'[i] = jobs[i]
      BY <1>1, <2>2
    <3>2. JobFits(jobs[i]) /\ CountsThere(jobs[i], places)
      BY DEF JobsInv
    <3> QED BY <3>1, <3>2 DEF CountsThere
  <2> QED BY <2>1, <2>2
<1>4. ASSUME NEW i \in Jobs PROVE JobFits(jobs[i])'
  BY <1>3 DEF JobFits, Sorted
<1> QED BY <1>2, <1>3, <1>4 DEF JobsInv, CountsThere

LEMMA UploadKeepsInv ==
    ASSUME UploadInv, NEW j \in Jobs, NEW level, NEW file \in Files, Upload(j, level, file)
    PROVE  UploadInv'
<1>1. JobsInv'
  BY QueuedFits, JobStepKeeps DEF Upload, UploadInv, locationVars
<1>2. LocationsInv'
  BY DEF Upload, UploadInv, locationVars, LocationsInv, TablesInv, Rooted, RequestsInv,
     CalmCreates, Named
<1> QED BY <1>1, <1>2 DEF UploadInv

LEMMA QuietKeepsInv == UNCHANGED locationVars /\ LocationsInv => LocationsInv'
BY DEF locationVars, LocationsInv, TablesInv, Rooted, RequestsInv, CalmCreates, Named

\* A step of a job that leaves the tables alone.
LEMMA QuietJobKeepsInv ==
    ASSUME UploadInv, NEW j \in Jobs, NEW job, SetJob(j, job), UNCHANGED locationVars,
           JobFits(job), CountsThere(job, places)
    PROVE  UploadInv'
<1>1. JobsInv'
  BY JobStepKeeps DEF UploadInv, locationVars
<1> QED BY <1>1, QuietKeepsInv DEF UploadInv

LEMMA ScreeningKeepsInv ==
    ASSUME UploadInv, NEW j \in Jobs,
           \/ ProcessLgaUpload(j) \/ ProcessWardUpload(j) \/ ProcessPollingUnitUpload(j)
           \/ ProcessLgaUploadGeneric(j)
           \/ ProcessWardUploadGeneric(j) \/ ProcessPollingUnitUploadGeneric(j)
    PROVE  UploadInv'
<1>1. JobFits(jobs[j]) /\ parents \in SUBSET Parents
  BY DEF UploadInv, JobsInv, LocationsInv, TablesInv
<1>2. ASSUME NEW level, ProcessUnder(j, level) PROVE UploadInv'
  <2>1. /\ jobs[j].pc = "process" /\ kind = level /\ jobs[j].file.parent # NONE
        /\ UNCHANGED locationVars
    BY <1>2 DEF ProcessUnder, Generic
  <2>2. CASE jobs[j].file.parent \in parents
    <3>1. SetJob(j, Screened(j, kind, {jobs[j].file.parent}))
      BY <1>2, <2>1, <2>2 DEF ProcessUnder
    <3>2. {jobs[j].file.parent} \in SUBSET Parents
      BY <1>1, <2>2
    <3> QED BY <1>1, <2>1, <3>1, <3>2, ScreenedFits, QuietJobKeepsInv
  <2>3. CASE jobs[j].file.parent \notin parents
    <3>1. SetJob(j, Rejected(jobs[j]))
      BY <1>2, <2>3 DEF ProcessUnder
    <3> QED BY <1>1, <2>1, <3>1, RejectedFits, QuietJobKeepsInv DEF Ended
  <2> QED BY <2>2, <2>3
<1>3. ASSUME NEW level, ProcessGeneric(j, level) PROVE UploadInv'
  <2>1. /\ jobs[j].pc = "process" /\ kind = level /\ jobs[j].file.parent = NONE
        /\ UNCHANGED locationVars /\ SetJob(j, Screened(j, kind, parents))
    BY <1>3 DEF ProcessGeneric, Generic
  <2> QED BY <1>1, <2>1, ScreenedFits, QuietJobKeepsInv
<1>4. CASE ProcessLgaUploadGeneric(j)
  <2>1. /\ jobs[j].pc = "process" /\ jobs[j].file.parent = NONE
        /\ UNCHANGED locationVars /\ SetJob(j, Screened(j, kind, listed))
    BY <1>4 DEF ProcessLgaUploadGeneric, Generic
  <2>2. listed \in SUBSET Parents
    BY <1>4 DEF ProcessLgaUploadGeneric, UploadInv, LocationsInv, TablesInv
  <2> QED BY <1>1, <2>1, <2>2, ScreenedFits, QuietJobKeepsInv
<1> QED BY <1>2, <1>3, <1>4 DEF ProcessLgaUpload, ProcessWardUpload,
       ProcessPollingUnitUpload, ProcessWardUploadGeneric, ProcessPollingUnitUploadGeneric

LEMMA StatesKeepInv ==
    ASSUME UploadInv, NEW j \in Jobs, LoadStates(j) \/ StoreStates(j)
    PROVE  UploadInv'
<1>1. JobFits(jobs[j]) /\ parents \in SUBSET Parents
  BY DEF UploadInv, JobsInv, LocationsInv, TablesInv
<1>2. CASE LoadStates(j)
  <2> DEFINE job == jobs[j]
             new == [job EXCEPT !.pc = "store", !.known = parents]
  <2>1. /\ job.pc = "process" /\ kind = "lga" /\ job.file.parent = NONE
        /\ SetJob(j, new) /\ UNCHANGED locationVars
    BY <1>2 DEF LoadStates, Generic
  <2>2. job \in JobRecord /\ job.accepted = <<>> /\ job.ok = 0 /\ job.file \in Files
    BY <1>1, <2>1 DEF JobFits, Ended
  <2> HIDE DEF job
  <2>3. /\ new \in JobRecord /\ new.pc = "store" /\ new.accepted = <<>> /\ new.ok = 0
        /\ new.file = job.file
    BY <1>1, <2>2 DEF JobRecord
  <2> HIDE DEF new
  <2>4. JobFits(new) /\ CountsThere(new, places)
    BY <2>1, <2>2, <2>3 DEF JobFits, CountsThere
  <2> QED BY <2>1, <2>4, QuietJobKeepsInv
<1>3. CASE StoreStates(j)
  <2> DEFINE new == Screened(j, "lga", jobs[j].known)
  <2>1. /\ jobs[j].pc = "store" /\ listed' = jobs[j].known /\ SetJob(j, new)
        /\ UNCHANGED <<kind, parents, places, creates, stateWrites>>
    BY <1>3 DEF StoreStates
  <2>2. /\ jobs[j].known \in SUBSET Parents /\ kind = "lga" /\ jobs[j].file.parent = NONE
    BY <1>1, <2>1 DEF JobFits, JobRecord
  <2>3. JobFits(new) /\ CountsThere(new, places')
    BY <1>1, <2>1, <2>2, ScreenedFits
  <2> HIDE DEF new
  <2>4. JobsInv'
    BY <2>1, <2>3, JobStepKeeps DEF UploadInv
  <2>5. LocationsInv'
    BY <1>1, <2>1, <2>2, OthersKeepInv DEF UploadInv, LocationsInv, RequestsInv
  <2> QED BY <2>4, <2>5 DEF UploadInv
<1> QED BY <1>2, <1>3
----------------------------------------------------------------------------
LEMMA InsertKeepsInv ==
    ASSUME UploadInv, NEW j \in Jobs, Insert(j)
    PROVE  UploadInv'
<1> DEFINE job == jobs[j]
           rows == job.accepted
           new == [job EXCEPT !.pc = "mail", !.ok = Len(rows)]
<1>1. /\ JobFits(job) /\ job.pc = "insert" /\ job \in JobRecord
      /\ UNCHANGED <<kind, parents, listed, stateWrites>>
  BY DEF Insert, UploadInv, JobsInv, JobFits
<1>2. rows \in Seq(NewPlace) /\ Len(rows) \in Nat
  BY <1>1 DEF JobRecord
<1>3. CASE Orphaned(places, rows)
  <2>1. SetJob(j, Rejected(job)) /\ UNCHANGED locationVars
    BY <1>1, <1>3 DEF Insert, locationVars
  <2> HIDE DEF job
  <2>2. JobFits(Rejected(job)) /\ CountsThere(Rejected(job), places)
    BY <1>1, RejectedFits DEF Ended
  <2> QED BY <2>1, <2>2, QuietJobKeepsInv
<1>4. CASE ~Orphaned(places, rows)
  <2>1. /\ places' = With(places, rows)
        /\ SetJob(j, new)
        /\ creates' = IF places' = places THEN creates ELSE Disturbed
    BY <1>4 DEF Insert
  <2>2. LocationsInv'
    <3>1. Rooted(places')
      BY <1>2, <1>4, <2>1, RootedUnlessOrphaned DEF UploadInv, LocationsInv, TablesInv
    <3>2. CASE places' = places
      <4>1. UNCHANGED locationVars
        BY <1>1, <2>1, <3>2 DEF locationVars
      <4> QED BY <4>1, QuietKeepsInv DEF UploadInv
    <3>3. CASE places' # places
      BY <1>1, <2>1, <3>1, <3>3, ChangeKeepsInv DEF UploadInv
    <3> QED BY <3>2, <3>3
  <2>3. /\ DOMAIN places \subseteq DOMAIN places'
        /\ {rows[i].code : i \in DOMAIN rows} \subseteq DOMAIN places'
    BY <2>1, WithDomain
  <2> HIDE DEF job
  <2>4. /\ new \in JobRecord /\ new.pc = "mail" /\ new.file = job.file
        /\ new.known = job.known /\ new.accepted = rows /\ new.ok = Len(rows)
        /\ new.failed = job.failed
    BY <1>1, <1>2 DEF JobRecord
  <2> HIDE DEF new
  <2>5. JobFits(new)
    BY <1>1, <2>4 DEF JobFits, Sorted, Ended
  <2>6. CountsThere(new, places')
    BY <2>3, <2>4 DEF CountsThere, ToSet
  <2>7. JobsInv'
    BY <1>1, <2>1, <2>3, <2>5, <2>6, JobStepKeeps DEF UploadInv
  <2> QED BY <2>2, <2>7 DEF UploadInv
<1> QED BY <1>3, <1>4

\* The queue and its failures: what is left of a run is reported, run again or
\* given up.
LEMMA QueueKeepsInv ==
    ASSUME UploadInv, NEW j \in Jobs,
           \/ Take(j) \/ HandlerFails(j) \/ Report(j) \/ ReportFails(j) \/ Complete(j)
           \/ Stall(j)
    PROVE  UploadInv'
<1> DEFINE job == jobs[j]
<1>1. /\ JobFits(job) /\ job \in JobRecord /\ CountsThere(job, places)
      /\ UNCHANGED locationVars
  BY DEF UploadInv, JobsInv, JobFits, Take, HandlerFails, Report, ReportFails, Complete, Stall
<1>2. /\ job.failures \in 0 .. MaxFailures - 1 /\ job.stalls \in 0 .. MaxStalls
      /\ MaxFailures \in Nat /\ MaxStalls \in Nat
  BY <1>1 DEF JobRecord, MaxFailures, MaxStalls
<1>3. ASSUME job.pc \notin Ended, SetJob(j, Fresh(job, "process")) PROVE UploadInv'
  BY <1>1, <1>3, FreshFits, QuietJobKeepsInv
<1>4. ASSUME job.pc \notin Ended, SetJob(j, Rejected(job)) PROVE UploadInv'
  BY <1>1, <1>4, RejectedFits, QuietJobKeepsInv
<1>5. ASSUME NEW pc \in Ended, SetJob(j, [NoJob EXCEPT !.pc = pc]) PROVE UploadInv'
  BY <1>1, <1>5, NoJobFits, QuietJobKeepsInv
<1>6. CASE Report(j)
  <2> DEFINE new == [job EXCEPT !.pc = "reported"]
  <2>1. job.pc = "mail" /\ SetJob(j, new)
    BY <1>6 DEF Report
  <2> HIDE DEF job
  <2>2. /\ new \in JobRecord /\ new.pc = "reported" /\ new.file = job.file
        /\ new.known = job.known /\ new.accepted = job.accepted /\ new.ok = job.ok
        /\ new.failed = job.failed /\ new.calm = job.calm
    BY <1>1 DEF JobRecord
  <2> HIDE DEF new
  <2>3. JobFits(new) /\ CountsThere(new, places)
    BY <1>1, <2>1, <2>2 DEF JobFits, Sorted, CountsThere, Ended
  <2> QED BY <1>1, <2>1, <2>3, QuietJobKeepsInv
<1>7. ASSUME job.pc \notin Ended,
             \/ /\ job.failures + 1 < MaxFailures
                /\ SetJob(j, [Fresh(job, "waiting") EXCEPT !.failures = job.failures + 1])
             \/ /\ job.stalls < MaxStalls
                /\ SetJob(j, [Fresh(job, "waiting") EXCEPT !.stalls = job.stalls + 1])
      PROVE  UploadInv'
  <2> DEFINE run == Fresh(job, "waiting")
  <2>1. JobFits(run) /\ run.pc = "waiting"
    BY <1>1, <1>7, FreshFits
  <2>2. run \in JobRecord /\ run.file \in Files
    BY <2>1 DEF JobFits, Ended
  <2> HIDE DEF run, job
  <2>3. ASSUME NEW f \in 0 .. MaxFailures - 1
        PROVE  /\ JobFits([run EXCEPT !.failures = f])
               /\ CountsThere([run EXCEPT !.failures = f], places)
    <3> DEFINE new == [run EXCEPT !.failures = f]
    <3>1. new \in JobRecord /\ new.pc = "waiting" /\ new.file = run.file
      BY <2>1, <2>2 DEF JobRecord
    <3> HIDE DEF new
    <3> QED BY <2>2, <3>1 DEF JobFits, CountsThere, new
  <2>4. ASSUME NEW s \in 0 .. MaxStalls
        PROVE  /\ JobFits([run EXCEPT !.stalls = s])
               /\ CountsThere([run EXCEPT !.stalls = s], places)
    <3> DEFINE new == [run EXCEPT !.stalls = s]
    <3>1. new \in JobRecord /\ new.pc = "waiting" /\ new.file = run.file
      BY <2>1, <2>2 DEF JobRecord
    <3> HIDE DEF new
    <3> QED BY <2>2, <3>1 DEF JobFits, CountsThere, new
  <2>5. CASE job.failures + 1 < MaxFailures
             /\ SetJob(j, [run EXCEPT !.failures = job.failures + 1])
    <3>1. job.failures + 1 \in 0 .. MaxFailures - 1
      BY <1>2, <2>5
    <3> QED BY <1>1, <2>3, <2>5, <3>1, QuietJobKeepsInv
  <2>6. CASE job.stalls < MaxStalls
             /\ SetJob(j, [run EXCEPT !.stalls = job.stalls + 1])
    <3>1. job.stalls + 1 \in 0 .. MaxStalls
      BY <1>2, <2>6
    <3> QED BY <1>1, <2>4, <2>6, <3>1, QuietJobKeepsInv
  <2> QED BY <1>7, <2>5, <2>6 DEF run
<1>8. CASE Take(j)
  BY <1>3, <1>8 DEF Take, Ended
<1>9. CASE HandlerFails(j)
  BY <1>4, <1>9 DEF HandlerFails, Ended
<1>10. CASE Complete(j)
  BY <1>5, <1>10 DEF Complete, Ended
<1>11. CASE ReportFails(j)
  BY <1>5, <1>7, <1>11 DEF ReportFails, Ended
<1>12. CASE Stall(j)
  BY <1>5, <1>7, <1>12 DEF Stall, Ended
<1> QED BY <1>6, <1>8, <1>9, <1>10, <1>11, <1>12

LEMMA LevelStays == LocationsNext => kind' = kind
BY DEF LocationsNext, CreateCheck, CreateStep, CreateInsert, CreateDies, CreateLgas,
   CreateWards, CreatePollingUnits, CreateMultiple, UpdateLga, UpdateWard,
   UpdatePollingUnit, UpdatePlace, RemoveLga, RemoveWard, RemovePollingUnit, RemovePlace,
   ParentCreated, ParentRemoved, StatesInsert, StateUpdate, StateRemove, StatesRead,
   StateStep, StatePurge, StatesHit, StatesLoad, StatesStore, StateWriteDies, Expire

\* Others: a job does not notice, but is no longer alone.
LEMMA ElsewhereKeepsInv ==
    ASSUME UploadInv, Elsewhere(LocationsNext)
    PROVE  UploadInv'
<1>1. LocationsInv' /\ kind' = kind
  BY LocationsStep, LevelStays DEF Elsewhere, UploadInv
<1>2. CASE <<places, parents>>' = <<places, parents>>
  <2>1. jobs' = jobs /\ places' = places
    BY <1>2 DEF Elsewhere
  <2>2. JobsInv'
    BY <1>1, <2>1 DEF UploadInv, JobsInv, JobFits, Sorted, CountsThere
  <2> QED BY <1>1, <2>2 DEF UploadInv
<1>3. CASE <<places, parents>>' # <<places, parents>>
  <2>1. jobs' = [j \in Jobs |-> IF jobs[j].pc \in Ended THEN jobs[j]
                                ELSE [jobs[j] EXCEPT !.calm = FALSE]]
    BY <1>3 DEF Elsewhere, Ended
  <2>2. ASSUME NEW j \in Jobs
        PROVE  JobFits(jobs'[j]) /\ CountsThere(jobs'[j], places')
    <3> DEFINE job == jobs[j]
               new == [job EXCEPT !.calm = FALSE]
    <3>1. JobFits(job) /\ job \in JobRecord
      BY DEF UploadInv, JobsInv, JobFits
    <3>2. jobs'[j] = IF job.pc \in Ended THEN job ELSE new
      BY <2>1
    <3>3. CASE job.pc \in Ended
      BY <3>1, <3>2, <3>3 DEF CountsThere, Ended
    <3>4. CASE job.pc \notin Ended
      <4> HIDE DEF job
      <4>1. /\ new \in JobRecord /\ new.pc = job.pc /\ new.file = job.file
            /\ new.known = job.known /\ new.accepted = job.accepted /\ new.ok = job.ok
            /\ new.failed = job.failed /\ new.calm = FALSE
        BY <3>1 DEF JobRecord
      <4> HIDE DEF new
      <4>2. JobFits(new) /\ CountsThere(new, places')
        BY <3>1, <4>1 DEF JobFits, Sorted, CountsThere
      <4> QED BY <3>2, <3>4, <4>2
    <3> QED BY <3>3, <3>4
  <2>3. ASSUME NEW j \in Jobs PROVE JobFits(jobs[j])'
    BY <1>1, <2>2 DEF JobFits, Sorted
  <2>4. DOMAIN jobs' = Jobs /\ jobs' = [j \in Jobs |-> jobs'[j]]
    BY <2>1
  <2>5. JobsInv'
    BY <2>2, <2>3, <2>4 DEF JobsInv, CountsThere
  <2> QED BY <1>1, <2>5 DEF UploadInv
<1> QED BY <1>2, <1>3
----------------------------------------------------------------------------
LEMMA UploadStart == UploadInit => UploadInv
<1> SUFFICES ASSUME UploadInit PROVE UploadInv
  OBVIOUS
<1>1. LocationsInv
  BY LocationsStart DEF UploadInit
<1>2. jobs = [j \in Jobs |-> NoJob]
  BY DEF UploadInit
<1>3. /\ NoJob \in JobRecord /\ NoJob.pc = "none"
  BY NoJobIsRecord DEF NoJob
<1>4. JobFits(NoJob) /\ CountsThere(NoJob, places)
  BY <1>3 DEF JobFits, CountsThere, Ended
<1>5. JobsInv
  BY <1>2, <1>4 DEF JobsInv
<1> QED BY <1>1, <1>5 DEF UploadInv

LEMMA JobStepKeepsInv ==
    ASSUME UploadInv, NEW j \in Jobs, JobStep(j)
    PROVE  UploadInv'
BY ScreeningKeepsInv, StatesKeepInv, InsertKeepsInv, QueueKeepsInv DEF JobStep

LEMMA UploadStep == UploadInv /\ [UploadNext]_uploadVars => UploadInv'
<1> SUFFICES ASSUME UploadInv, [UploadNext]_uploadVars PROVE UploadInv'
  OBVIOUS
<1>1. CASE Elsewhere(LocationsNext)
  BY <1>1, ElsewhereKeepsInv
<1>2. ASSUME NEW j \in Jobs, JobStep(j) PROVE UploadInv'
  BY <1>2, JobStepKeepsInv
<1>3. ASSUME NEW j \in Jobs,
             \/ UploadLgas(j) \/ UploadLgasGeneric(j)
             \/ UploadWards(j) \/ UploadWardsGeneric(j)
             \/ UploadPollingUnits(j) \/ UploadPollingUnitsGeneric(j)
      PROVE  UploadInv'
  <2>1. PICK file \in Files : \/ Upload(j, "lga", file) \/ Upload(j, "ward", file)
                              \/ Upload(j, "unit", file)
    BY <1>3 DEF UploadLgas, UploadLgasGeneric, UploadWards, UploadWardsGeneric,
       UploadPollingUnits, UploadPollingUnitsGeneric, GenericFiles
  <2> QED BY <2>1, UploadKeepsInv
<1>4. CASE UNCHANGED uploadVars
  <2>1. LocationsInv'
    BY <1>4, QuietKeepsInv DEF uploadVars, UploadInv
  <2>2. JobsInv'
    BY <1>4 DEF uploadVars, locationVars, UploadInv, JobsInv, JobFits, Sorted, CountsThere
  <2> QED BY <2>1, <2>2 DEF UploadInv
<1> QED BY <1>1, <1>2, <1>3, <1>4 DEF UploadNext

LEMMA UploadInvAlways == UploadSpec => []UploadInv
<1> QED BY UploadStart, UploadStep, PTL DEF UploadSpec

\* Places, lists, requests and jobs are well formed for any files and any number
\* of uploads and requests: every place has its parent, and a run never accepts
\* a row with an empty cell (FileConsumer, the four services).
THEOREM UploadTypes == UploadSpec => []UploadTypeOK
<1>1. ASSUME UploadInv PROVE UploadTypeOK
  <2>1. LocationsTypeOK
    BY <1>1, LocationsInvTypes DEF UploadInv
  <2>2. ASSUME NEW j \in Jobs PROVE JobFits(jobs[j])
    BY <1>1 DEF UploadInv, JobsInv
  <2> QED BY <2>1, <2>2 DEF UploadTypeOK, JobFits, JobRecord, Ended
<1> QED BY <1>1, UploadInvAlways, PTL

\* What the scan of a file keeps is what a reader would keep who strikes out.
LEMMA SortedAccounts ==
    ASSUME UploadInv, NEW j \in Jobs,
           jobs[j].pc \in {"insert", "mail", "reported"}, jobs[j].failed # -1
    PROVE  LET rows == RowsOf(j)
               full(i) == /\ rows[i].code # EMPTY /\ rows[i].name # EMPTY
                          /\ Generic(j) => rows[i].parent \in jobs[j].known
               like(i, k) == \/ /\ rows[i].name = rows[k].name
                                /\ Generic(j) => rows[i].parent = rows[k].parent
                             \/ kind # "lga" /\ rows[i].code = rows[k].code
           IN  \E standing \in SUBSET DOMAIN rows :
                 /\ \A i \in DOMAIN rows :
                      i \in standing <=> full(i) /\ \A k \in standing : k < i => ~like(i, k)
                 /\ Cardinality(standing) + jobs[j].failed = Len(rows)
                 /\ {rows[i].code : i \in standing}
                      = {row.code : row \in ToSet(jobs[j].accepted)}
                 /\ Cardinality(standing) = Len(jobs[j].accepted)
<1> DEFINE file == jobs[j].file
           known == jobs[j].known
           accepted == jobs[j].accepted
           rows == file.rows
           placed == Placed(file)
           full(i) == /\ rows[i].code # EMPTY /\ rows[i].name # EMPTY
                      /\ Generic(j) => rows[i].parent \in known
           like(i, k) == \/ /\ rows[i].name = rows[k].name
                            /\ Generic(j) => rows[i].parent = rows[k].parent
                         \/ kind # "lga" /\ rows[i].code = rows[k].code
<1>1. /\ file \in Files /\ known \in SUBSET Parents
      /\ accepted = Kept(kind, file, known)
      /\ Len(accepted) + jobs[j].failed = Len(rows)
      /\ file.parent # NONE => known = {file.parent}
  BY DEF UploadInv, JobsInv, JobFits, JobRecord, Sorted, Ended
<1>2. PICK standing : Stands(kind, placed, known, standing)
                      /\ KeepsRows(placed, standing, accepted)
  <2> HIDE DEF file, known, accepted
  <2> QED BY <1>1, KeptStands
<1>3. /\ DOMAIN placed = DOMAIN rows
      /\ \A i \in DOMAIN rows :
           /\ placed[i].code = rows[i].code /\ placed[i].name = rows[i].name
           /\ placed[i].parent = IF file.parent = NONE THEN rows[i].parent ELSE file.parent
  <2> HIDE DEF file
  <2> QED BY <1>1, PlacedRows
<1>4. Generic(j) <=> file.parent = NONE
  BY DEF Generic
<1> HIDE DEF file, known, accepted, rows, placed
<1>5. standing \in SUBSET DOMAIN rows
  BY <1>2, <1>3 DEF Stands
<1>6. \A i \in DOMAIN rows : Filled(placed[i], known) <=> full(i)
  BY <1>1, <1>3, <1>4 DEF Filled
<1>7. \A i, k \in DOMAIN rows : Alike(kind, placed[k], placed[i]) <=> like(i, k)
  BY <1>3, <1>4 DEF Alike
<1> HIDE DEF full, like
<1>8. \A i \in DOMAIN rows :
        i \in standing <=> full(i) /\ \A k \in standing : k < i => ~like(i, k)
  BY <1>2, <1>3, <1>5, <1>6, <1>7 DEF Stands
<1>9. Cardinality(standing) = Len(accepted)
      /\ {rows[i].code : i \in standing} = {row.code : row \in ToSet(accepted)}
  BY <1>2, <1>3, <1>5 DEF KeepsRows
<1> QED BY <1>1, <1>5, <1>8, <1>9 DEF file, known, accepted, rows, full, like, RowsOf

\* The two counts of a summary add up to the rows of the file, and the rows kept
\* are those that no reader would strike out, however many rows a file has
\* (the six handlers of FileConsumer).
THEOREM RowsAccounted == UploadSpec => []EachRowAccounted
<1>1. ASSUME UploadInv PROVE EachRowAccounted
  <2>1. ASSUME NEW j \in Jobs,
               jobs[j].pc \in {"insert", "mail", "reported"}, jobs[j].failed # -1,
               jobs[j].pc # "insert"
        PROVE  jobs[j].ok = Len(jobs[j].accepted)
    BY <1>1, <2>1 DEF UploadInv, JobsInv, JobFits, Sorted
  <2> QED BY <1>1, <2>1, SortedAccounts DEF EachRowAccounted
<1> QED BY <1>1, UploadInvAlways, PTL

\* A place with the code of every row that a summary counts as a success is
\* there as long as nobody else changes the tables, in whatever pieces and
\* however often the job was run (bulkInsert, UploadWorker).
THEOREM ReportedAreThere == UploadSpec => []ReportedRowsAreThere
<1>1. UploadInv => ReportedRowsAreThere
  BY DEF UploadInv, JobsInv, CountsThere, ReportedRowsAreThere
<1> QED BY <1>1, UploadInvAlways, PTL

\* No step of a job changes or removes a place (bulkInsert, orIgnore).
THEOREM UploadsAdd == UploadSpec => UploadsOnlyAdd
<1> DEFINE Adds == \A j \in Jobs : jobs'[j].pc # jobs[j].pc =>
                     \A c \in DOMAIN places : c \in DOMAIN places' /\ places'[c] = places[c]
<1>1. UploadInv /\ [UploadNext]_uploadVars => [Adds]_uploadVars
  <2> SUFFICES ASSUME UploadInv, UploadNext, NEW j \in Jobs, jobs'[j].pc # jobs[j].pc
               PROVE  \A c \in DOMAIN places : c \in DOMAIN places' /\ places'[c] = places[c]
    OBVIOUS
  <2>1. CASE Elsewhere(LocationsNext)
    <3>1. jobs' = jobs \/ jobs'[j] = jobs[j] \/ jobs'[j] = [jobs[j] EXCEPT !.calm = FALSE]
      BY <2>1 DEF Elsewhere
    <3>2. jobs[j] \in JobRecord
      BY DEF UploadInv, JobsInv, JobFits
    <3> QED BY <3>1, <3>2 DEF JobRecord
  <2>2. ASSUME NEW i \in Jobs, Insert(i)
        PROVE  \A c \in DOMAIN places : c \in DOMAIN places' /\ places'[c] = places[c]
    BY <2>2, WithAdds DEF Insert
  <2>3. ASSUME NEW i \in Jobs,
               \/ UploadLgas(i) \/ UploadLgasGeneric(i)
               \/ UploadWards(i) \/ UploadWardsGeneric(i)
               \/ UploadPollingUnits(i) \/ UploadPollingUnitsGeneric(i)
               \/ JobStep(i) /\ ~Insert(i)
        PROVE  places' = places
    BY <2>3 DEF UploadLgas, UploadLgasGeneric, UploadWards, UploadWardsGeneric,
       UploadPollingUnits, UploadPollingUnitsGeneric, Upload, JobStep, Take,
       ProcessLgaUpload, ProcessWardUpload, ProcessPollingUnitUpload, ProcessUnder,
       ProcessLgaUploadGeneric, LoadStates, StoreStates, ProcessWardUploadGeneric,
       ProcessPollingUnitUploadGeneric, ProcessGeneric, HandlerFails, Report, ReportFails,
       Complete, Stall, locationVars
  <2> QED BY <2>1, <2>2, <2>3 DEF UploadNext, JobStep
<1> QED BY <1>1, UploadInvAlways, PTL DEF UploadSpec, UploadsOnlyAdd

\* A creation whose table nobody has changed since its check adds no second
\* place of a name under one parent, for any number of creations, uploads and
\* other requests (create of the three services).
THEOREM CreatesUnique == UploadSpec => UncontestedCreatesUnique
<1> DEFINE Unique ==
      \A c \in Creates :
          creates[c].pc = "insert" /\ creates[c].calm /\ places' # places
            /\ creates'[c].pc = "idle" =>
              ~\E k \in DOMAIN places : /\ places[k].name = creates[c].row.name
                                        /\ places[k].parent = creates[c].row.parent
<1>1. UploadInv => [Unique]_locationVars
  BY DEF UploadInv, LocationsInv, CalmCreates, Named
<1> QED BY <1>1, UploadInvAlways, PTL DEF UncontestedCreatesUnique
----------------------------------------------------------------------------
\* The lists of the states that are held: under the key, by requests that are
\* about to store one, and by jobs that are.
ListsHeld ==
    ({listed} \ {NONE})
      \cup {stateWrites[w].list : w \in {v \in StateWrites : stateWrites[v].pc = "store"}}
      \cup {jobs[j].known : j \in {i \in Jobs : jobs[i].pc = "store"}}

StateLists == INSTANCE CopiedSource WITH source <- parents, copies <- ListsHeld

HoldsList(list) ==
    \/ listed = list /\ list # NONE
    \/ \E w \in StateWrites : stateWrites[w].pc = "store" /\ stateWrites[w].list = list
    \/ \E j \in Jobs : jobs[j].pc = "store" /\ jobs[j].known = list

LEMMA HeldList == ASSUME NEW list PROVE list \in ListsHeld <=> HoldsList(list)
BY DEF ListsHeld, HoldsList

\* What a step of the requests does to the lists.
RequestsCopy ==
    /\ \/ listed' \in {NONE, listed}
       \/ \E w \in StateWrites : stateWrites[w].pc = "store" /\ listed' = stateWrites[w].list
    /\ \A w \in StateWrites :
         \/ stateWrites'[w] = stateWrites[w]
         \/ stateWrites'[w].pc = "store" => stateWrites'[w].list = parents

LEMMA StateWritesCopy ==
    ASSUME LocationsInv, NEW w \in StateWrites,
           \/ StatesInsert(w) \/ StateUpdate(w) \/ StateRemove(w) \/ StatesRead(w)
           \/ StateStep(w)
    PROVE  RequestsCopy
<1>1. stateWrites \in [StateWrites -> WriteState] /\ stateWrites[w] \in WriteState
  BY DEF LocationsInv, RequestsInv
<1>2. PICK s : /\ stateWrites' = [stateWrites EXCEPT ![w] = s]
               /\ s.pc = "store" => s.list = parents
  <2>1. CASE StatesInsert(w) \/ StateUpdate(w) \/ StateRemove(w) \/ StatesRead(w)
    BY <2>1 DEF StatesInsert, StateUpdate, StateRemove, StatesRead
  <2>2. CASE StatePurge(w)
    <3>1. stateWrites[w].then # "store"
      BY <1>1, <2>2 DEF StatePurge, WriteState
    <3> DEFINE s == [pc |-> stateWrites[w].then]
    <3>2. s.pc # "store" /\ stateWrites' = [stateWrites EXCEPT ![w] = s]
      BY <2>2, <3>1 DEF StatePurge
    <3> QED BY <3>2
  <2>3. CASE StatesLoad(w)
    <3> DEFINE s == [pc |-> "store", list |-> parents]
    <3>1. s.list = parents /\ stateWrites' = [stateWrites EXCEPT ![w] = s]
      BY <2>3 DEF StatesLoad
    <3> QED BY <3>1
  <2>4. CASE StatesHit(w) \/ StatesStore(w) \/ StateWriteDies(w)
    BY <2>4 DEF StatesHit, StatesStore, StateWriteDies, Idle
  <2> QED BY <2>1, <2>2, <2>3, <2>4 DEF StateStep
<1>3. \A v \in StateWrites :
        stateWrites'[v] = stateWrites[v] \/ stateWrites'[v] = s
  BY <1>1, <1>2
<1>4. \/ listed' \in {NONE, listed}
      \/ stateWrites[w].pc = "store" /\ listed' = stateWrites[w].list
  BY DEF StatesInsert, StateUpdate, StateRemove, StatesRead, StateStep, StatePurge, StatesHit,
     StatesLoad, StatesStore, StateWriteDies
<1> QED BY <1>2, <1>3, <1>4 DEF RequestsCopy

LEMMA LocationsCopy ==
    ASSUME LocationsInv, LocationsNext PROVE RequestsCopy
<1>1. ASSUME \/ \E c \in Creates : CreateCheck(c) \/ CreateStep(c)
             \/ CreateLgas \/ UpdateLga \/ RemoveLga
             \/ CreateWards \/ UpdateWard \/ RemoveWard
             \/ CreatePollingUnits \/ UpdatePollingUnit \/ RemovePollingUnit
             \/ ParentCreated \/ ParentRemoved \/ Expire
      PROVE  stateWrites' = stateWrites /\ listed' \in {NONE, listed}
  BY <1>1 DEF CreateCheck, CreateStep, CreateInsert, CreateDies, CreateLgas, CreateWards,
     CreatePollingUnits, CreateMultiple, UpdateLga, UpdateWard, UpdatePollingUnit,
     UpdatePlace, RemoveLga, RemoveWard, RemovePollingUnit, RemovePlace, ParentCreated,
     ParentRemoved, Expire
<1> QED BY <1>1, StateWritesCopy DEF LocationsNext, RequestsCopy

\* A job that waits to store a list has loaded it; no other step of a job leads
\* there.
LEMMA JobCopies ==
    ASSUME UploadInv, NEW j \in Jobs,
           \/ UploadLgas(j) \/ UploadLgasGeneric(j)
           \/ UploadWards(j) \/ UploadWardsGeneric(j)
           \/ UploadPollingUnits(j) \/ UploadPollingUnitsGeneric(j)
           \/ JobStep(j)
    PROVE  /\ \A i \in Jobs \ {j} : jobs'[i] = jobs[i]
           /\ jobs'[j].pc = "store" => jobs'[j].known = parents
           /\ listed' = listed \/ (jobs[j].pc = "store" /\ listed' = jobs[j].known)
           /\ UNCHANGED stateWrites
<1> DEFINE job == jobs[j]
<1>1. job \in JobRecord /\ jobs = [i \in Jobs |-> jobs[i]] /\ NoJob \in JobRecord
  BY NoJobIsRecord DEF UploadInv, JobsInv, JobFits
<1>2. ASSUME NEW level, NEW known PROVE Screened(j, level, known).pc # "store"
  BY <1>1 DEF Screened, Rejected, JobRecord
<1>3. Rejected(job).pc # "store"
  BY <1>1 DEF Rejected, JobRecord
<1>4. ASSUME NEW n
      PROVE  /\ Fresh(job, "process").pc # "store"
             /\ [Fresh(job, "waiting") EXCEPT !.failures = n].pc # "store"
             /\ [Fresh(job, "waiting") EXCEPT !.stalls = n].pc # "store"
  BY <1>1 DEF Fresh, JobRecord
<1>5. ASSUME NEW file
      PROVE  /\ [NoJob EXCEPT !.pc = "waiting", !.file = file].pc # "store"
             /\ [NoJob EXCEPT !.pc = "dead"].pc # "store"
             /\ [NoJob EXCEPT !.pc = "done"].pc # "store"
  BY <1>1 DEF JobRecord
<1>6. ASSUME NEW n
      PROVE  /\ [job EXCEPT !.pc = "mail", !.ok = n].pc # "store"
             /\ [job EXCEPT !.pc = "reported"].pc # "store"
  BY <1>1 DEF JobRecord
<1>7. LET loaded == [job EXCEPT !.pc = "store", !.known = parents] IN loaded.known = parents
  BY <1>1 DEF JobRecord
<1>8. PICK x : SetJob(j, x) /\ (x.pc = "store" => x.known = parents)
  <2>1. CASE \E file, level : Upload(j, level, file)
    BY <1>5, <2>1 DEF Upload
  <2>2. CASE Take(j) \/ HandlerFails(j)
    BY <1>3, <1>4, <2>2 DEF Take, HandlerFails
  <2>3. CASE \E level : ProcessUnder(j, level) \/ ProcessGeneric(j, level)
    BY <1>2, <1>3, <2>3 DEF ProcessUnder, ProcessGeneric
  <2>4. CASE ProcessLgaUploadGeneric(j) \/ StoreStates(j)
    BY <1>2, <2>4 DEF ProcessLgaUploadGeneric, StoreStates
  <2>5. CASE LoadStates(j)
    BY <1>7, <2>5 DEF LoadStates
  <2>6. CASE Insert(j)
    BY <1>3, <1>6, <2>6 DEF Insert
  <2>7. CASE Report(j) \/ Complete(j)
    BY <1>5, <1>6, <2>7 DEF Report, Complete
  <2>8. CASE ReportFails(j) \/ Stall(j)
    BY <1>4, <1>5, <2>8 DEF ReportFails, Stall
  <2> QED BY <2>1, <2>2, <2>3, <2>4, <2>5, <2>6, <2>7, <2>8
     DEF UploadLgas, UploadLgasGeneric, UploadWards, UploadWardsGeneric,
         UploadPollingUnits, UploadPollingUnitsGeneric, JobStep, ProcessLgaUpload,
         ProcessWardUpload, ProcessPollingUnitUpload, ProcessWardUploadGeneric,
         ProcessPollingUnitUploadGeneric
<1>9. /\ listed' = listed \/ (jobs[j].pc = "store" /\ listed' = jobs[j].known)
      /\ UNCHANGED stateWrites
  BY DEF UploadLgas, UploadLgasGeneric, UploadWards, UploadWardsGeneric,
     UploadPollingUnits, UploadPollingUnitsGeneric, Upload, JobStep, Take,
     ProcessLgaUpload, ProcessWardUpload, ProcessPollingUnitUpload, ProcessUnder,
     ProcessLgaUploadGeneric, LoadStates, StoreStates, ProcessWardUploadGeneric,
     ProcessPollingUnitUploadGeneric, ProcessGeneric, Insert, HandlerFails, Report,
     ReportFails, Complete, Stall, locationVars
<1> HIDE DEF job
<1> QED BY <1>1, <1>8, <1>9 DEF SetJob

LEMMA ElsewhereCopies ==
    ASSUME UploadInv, Elsewhere(LocationsNext), NEW j \in Jobs, jobs'[j].pc = "store"
    PROVE  jobs[j].pc = "store" /\ jobs'[j].known = jobs[j].known
<1>1. jobs[j] \in JobRecord /\ jobs = [i \in Jobs |-> jobs[i]]
  BY DEF UploadInv, JobsInv, JobFits
<1>2. jobs'[j] = jobs[j] \/ jobs'[j] = [jobs[j] EXCEPT !.calm = FALSE]
  BY DEF Elsewhere
<1> QED BY <1>1, <1>2 DEF JobRecord

LEMMA ListsCopied ==
    ASSUME UploadInv, UploadNext PROVE ListsHeld' \subseteq ListsHeld \cup {parents}
<1> SUFFICES ASSUME NEW list \in ListsHeld' PROVE HoldsList(list) \/ list = parents
  BY HeldList
<1>1. \/ listed' = list /\ list # NONE
      \/ \E w \in StateWrites : stateWrites'[w].pc = "store" /\ stateWrites'[w].list = list
      \/ \E j \in Jobs : jobs'[j].pc = "store" /\ jobs'[j].known = list
  BY DEF ListsHeld
<1>2. CASE Elsewhere(LocationsNext)
  <2>1. RequestsCopy
    BY <1>2, LocationsCopy DEF Elsewhere, UploadInv
  <2> QED BY <1>1, <1>2, <2>1, ElsewhereCopies DEF RequestsCopy, HoldsList
<1>3. ASSUME NEW j \in Jobs,
             /\ \A i \in Jobs \ {j} : jobs'[i] = jobs[i]
             /\ jobs'[j].pc = "store" => jobs'[j].known = parents
             /\ listed' = listed \/ (jobs[j].pc = "store" /\ listed' = jobs[j].known)
             /\ UNCHANGED stateWrites
      PROVE  HoldsList(list) \/ list = parents
  BY <1>1, <1>3 DEF HoldsList
<1> QED BY <1>2, <1>3, JobCopies DEF UploadNext

\* The list of the states in the cache, and those that requests and jobs are
\* about to store there, have each been the states at some time, whatever
\* lists, changes and lost deletions cross (findAll, create, update and remove
\* of the states, generic uploads of LGAs).
THEOREM StateListsAreCopies == UploadSpec => StateLists!CopySpec
<1>1. UploadInit => StateLists!CopyInit
  <2> SUFFICES ASSUME UploadInit PROVE ListsHeld = {}
    BY DEF StateLists!CopyInit
  <2>1. /\ listed = NONE
        /\ \A w \in StateWrites : stateWrites[w].pc = "idle"
        /\ \A j \in Jobs : jobs[j].pc = "none"
    BY DEF UploadInit, LocationsInit, Idle, NoJob
  <2> QED BY <2>1 DEF ListsHeld
<1>2. UploadInv /\ [UploadNext]_uploadVars => [StateLists!CopyNext]_(StateLists!copyVars)
  <2> SUFFICES ASSUME UploadInv, [UploadNext]_uploadVars
               PROVE  [StateLists!CopyNext]_(StateLists!copyVars)
    OBVIOUS
  <2>1. CASE UNCHANGED uploadVars
    BY <2>1 DEF uploadVars, locationVars, ListsHeld, StateLists!copyVars
  <2>2. CASE UploadNext
    BY <2>2, ListsCopied DEF StateLists!CopyNext
  <2> QED BY <2>1, <2>2
<1> QED BY <1>1, <1>2, UploadInvAlways, PTL DEF UploadSpec, StateLists!CopySpec

\* Once every list that is held is that of the states as they are, no step but a
\* change of the states makes it otherwise.  Of ListCatchesUp this is the part
\* that needs no fairness (findAll, generic uploads of LGAs).
THEOREM CurrentListStays ==
    UploadSpec =>
      [][ListsHeld \subseteq {parents} /\ parents' = parents
           => listed' \in {NONE, parents} /\ ListsHeld' \subseteq {parents}]_uploadVars
<1> DEFINE Stays == ListsHeld \subseteq {parents} /\ parents' = parents
                      => listed' \in {NONE, parents} /\ ListsHeld' \subseteq {parents}
<1>1. UploadInv /\ [UploadNext]_uploadVars => [Stays]_uploadVars
  <2> SUFFICES ASSUME UploadInv, UploadNext, ListsHeld \subseteq {parents}, parents' = parents
               PROVE  listed' \in {NONE, parents} /\ ListsHeld' \subseteq {parents}
    OBVIOUS
  <2>1. ListsHeld' \subseteq {parents}
    BY ListsCopied
  <2> QED BY <2>1 DEF ListsHeld
<1> QED BY <1>1, UploadInvAlways, PTL DEF UploadSpec
============================================================================
