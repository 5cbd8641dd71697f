-------------------------- MODULE StoreGateProofs --------------------------
(***************************************************************************)
(* Proof that the allocation gate of Store::allocate_file never lets a     *)
(* redundant shared drive be created (NoRedundantDrive), for every number  *)
(* of tasks, every DRIVE_MAX_FILE_LIMIT and every bound.                   *)
(*                                                                         *)
(* The argument: a task creates a drive only after get_drive_by_least_files *)
(* found no drive with count <= limit, so each of the k existing drives    *)
(* holds at least limit + 1 rows; the rows have distinct serial keys in    *)
(* 1..fileSeq (a rolled-back insert spends a key no row keeps), so         *)
(* fileSeq >= k * (limit + 1).  The gate is held from that query to      *)
(* add_drive, so no other drive row appears in between, and                *)
(* fileSeq never decreases.                                                *)
(***************************************************************************)
EXTENDS StoreProofs, FiniteSetTheorems

(* Drive ids come from the counter of created shared drives. *)
DrivesIssued ==
    /\ drives \subseteq 1..driveSeq
    /\ \A p \in Procs : pc[p] = "add_drive" => drv[p] \in 1..driveSeq

(* Every row, committed or inserted and not yet committed, has a distinct  *)
(* key of the serial.                                                      *)
KeysIssued ==
    /\ \A r \in files : r.key \in 1..fileSeq
    /\ \A r1, r2 \in files : r1.key = r2.key => r1 = r2
    /\ \A p \in Procs : pc[p] = "commit" =>
          /\ row[p].key \in 1..fileSeq
          /\ \A r \in files : r.key # row[p].key
          /\ \A q \in Procs : q # p /\ pc[q] = "commit" => row[q].key # row[p].key

(* Every row, every upload past allocation and every uncommitted insert    *)
(* names a drive with a row.                                               *)
RowsInDrives ==
    /\ \A r \in files : r.drive \in drives
    /\ \A p \in Procs : pc[p] \in {"create_file", "add_file"} => drv[p] \in drives
    /\ \A p \in Procs : pc[p] = "commit" => row[p].drive \in drives

(* Between the query and add_drive the task holds file_alloc_mutex. *)
GateHeld ==
    \A p \in Procs : pc[p] \in {"query", "create_drive", "add_drive"} => gate = p

(* A task about to create a drive found every existing drive full. *)
PendingDriveJustified ==
    \A p \in Procs : pc[p] \in {"create_drive", "add_drive"} =>
        Cardinality(drives) * (DriveMaxFileLimit + 1) <= fileSeq

GInv ==
    /\ TypeOK
    /\ DrivesIssued
    /\ KeysIssued
    /\ RowsInDrives
    /\ GateHeld
    /\ PendingDriveJustified
    /\ NoRedundantDrive

-----------------------------------------------------------------------------
(* Rows with distinct keys in 1..k are at most k. *)
LEMMA KeyedRowsBound ==
  ASSUME NEW F, NEW k \in Nat,
         \A r \in F : r.key \in 1..k,
         \A r1, r2 \in F : r1.key = r2.key => r1 = r2
  PROVE  IsFiniteSet(F) /\ Cardinality(F) <= k
  <1> DEFINE key == [r \in F |-> r.key]
  <1>1. key \in Injection(F, 1..k)
    BY DEF Injection, IsInjective
  <1>2. IsFiniteSet(1..k) /\ Cardinality(1..k) = k
    BY FS_Interval
  <1>3. QED
    BY <1>1, <1>2, FS_Injection

(* If each of the drives in D holds at least n of the rows F, F has at     *)
(* least |D| * n rows: pairs (drive, i) for i in 1..n map injectively to   *)
(* rows.                                                                   *)
LEMMA RowsPerDriveBound ==
  ASSUME NEW F, IsFiniteSet(F), NEW D, IsFiniteSet(D), NEW n \in Nat,
         \A d \in D : Cardinality({r \in F : r.drive = d}) >= n
  PROVE  Cardinality(D) * n <= Cardinality(F)
  <1> DEFINE In(d) == {r \in F : r.drive = d}
  <1>1. \A d \in D : IsFiniteSet(In(d)) /\ Cardinality(In(d)) \in Nat /\ n <= Cardinality(In(d))
    BY FS_Subset, FS_CardinalityType DEF In
  <1>2. \A d \in D : Bijection(1..Cardinality(In(d)), In(d)) # {}
    BY <1>1, FS_CardinalityType DEF ExistsBijection
  <1> DEFINE g == [d \in D |-> CHOOSE f \in Bijection(1..Cardinality(In(d)), In(d)) : TRUE]
  <1>3. \A d \in D : g[d] \in Injection(1..Cardinality(In(d)), In(d))
    BY <1>2 DEF Bijection
  <1>4. ASSUME NEW d \in D, NEW i \in 1..n
        PROVE  g[d][i] \in In(d) /\ g[d][i] \in F
    <2>1. i \in 1..Cardinality(In(d))
      BY <1>1
    <2>2. g[d] \in [1..Cardinality(In(d)) -> In(d)]
      BY <1>3 DEF Injection
    <2>3. QED
      BY <2>1, <2>2 DEF In
  <1> DEFINE h == [x \in D \X (1..n) |-> g[x[1]][x[2]]]
  <1>5. h \in [D \X (1..n) -> F]
    BY <1>4 DEF h
  <1>6. IsInjective(h)
    <2> SUFFICES ASSUME NEW x \in D \X (1..n), NEW y \in D \X (1..n), h[x] = h[y]
                 PROVE  x = y
      BY DEF IsInjective, h
    <2>1. PICK d1 \in D, i1 \in 1..n : x = <<d1, i1>>
      OBVIOUS
    <2>2. PICK d2 \in D, i2 \in 1..n : y = <<d2, i2>>
      OBVIOUS
    <2>3. g[d1][i1] = g[d2][i2]
      BY <2>1, <2>2 DEF h
    <2>4. g[d1][i1] \in In(d1) /\ g[d2][i2] \in In(d2)
      BY <1>4
    <2>5. d1 = d2
      BY <2>3, <2>4 DEF In
    <2>6. i1 \in 1..Cardinality(In(d1)) /\ i2 \in 1..Cardinality(In(d1))
      <3>1. n <= Cardinality(In(d1)) /\ Cardinality(In(d1)) \in Nat
        BY <1>1
      <3>2. QED
        BY <3>1, <2>5
    <2>7. i1 = i2
      <3>1. g[d1] \in Injection(1..Cardinality(In(d1)), In(d1))
        BY <1>3
      <3>2. g[d1][i1] = g[d1][i2]
        BY <2>3, <2>5
      <3>3. QED
        BY <3>1, <3>2, <2>6 DEF Injection, IsInjective
    <2>8. QED
      BY <2>1, <2>2, <2>5, <2>7
  <1>7. IsFiniteSet(D \X (1..n)) /\ Cardinality(D \X (1..n)) = Cardinality(D) * n
    <2>1. IsFiniteSet(1..n) /\ Cardinality(1..n) = n
      BY FS_Interval
    <2>2. QED
      BY <2>1, FS_Product
  <1>8. h \in Injection(D \X (1..n), F)
    BY <1>5, <1>6 DEF Injection
  <1>9. Cardinality(D \X (1..n)) <= Cardinality(F)
    BY <1>8, FS_Injection
  <1>10. QED
    BY <1>7, <1>9

(* A non-empty set of drives has one with the least count: the           *)
(* `order by count limit 1` of get_drive_by_least_files has an answer.      *)
LEMMA LeastExists ==
  ASSUME NEW S, S # {}, NEW f \in [S -> Nat]
  PROVE  \E d \in S : \A e \in S : f[d] <= f[e]
  <1> DEFINE T == {f[x] : x \in S}
  <1>1. T \subseteq Nat /\ T # {}
    OBVIOUS
  <1>2. PICK m \in T : \A y \in T : ~(<<y, m>> \in OpToRel(<, Nat))
    BY <1>1, WFMin, NatLessThanWellFounded
  <1>3. ASSUME NEW y \in T PROVE m <= y
    <2>1. ~(<<y, m>> \in OpToRel(<, Nat))
      BY <1>2
    <2>2. y \in Nat /\ m \in Nat
      BY <1>1
    <2>3. ~(y < m)
      BY <2>1, <2>2, Zenon DEF OpToRel
    <2>4. QED
      BY <2>2, <2>3
  <1>4. QED
    BY <1>3

(* The rows are finitely many, so every drive's count is a number. *)
LEMMA FilesFinite ==
  ASSUME TypeOK, KeysIssued
  PROVE  /\ IsFiniteSet(files)
         /\ Cardinality(files) <= fileSeq
         /\ \A d \in Nat : IsFiniteSet({r \in files : r.drive = d})
                         /\ FileCount(d) \in Nat
  <1>1. IsFiniteSet(files) /\ Cardinality(files) <= fileSeq
    BY KeyedRowsBound DEF KeysIssued, TypeOK
  <1>2. \A d \in Nat : IsFiniteSet({r \in files : r.drive = d})
                    /\ FileCount(d) \in Nat
    BY <1>1, FS_Subset, FS_CardinalityType DEF FileCount
  <1>3. QED
    BY <1>1, <1>2

(* get_drive_by_least_files returned None: every drive holds more than     *)
(* DRIVE_MAX_FILE_LIMIT rows.                                              *)
LEMMA NoneMeansFull ==
  ASSUME TypeOK, KeysIssued, LeastFilesDrives = {}
  PROVE  \A d \in drives : FileCount(d) >= DriveMaxFileLimit + 1
  <1> DEFINE eligible == {d \in drives : FileCount(d) <= DriveMaxFileLimit}
  <1>1. \A d \in drives : FileCount(d) \in Nat
    BY FilesFinite DEF TypeOK
  <1>2. SUFFICES eligible = {}
    BY <1>1, StoreAssumption DEF eligible
  <1>3. SUFFICES ASSUME eligible # {} PROVE FALSE
    OBVIOUS
  <1>4. [x \in eligible |-> FileCount(x)] \in [eligible -> Nat]
    BY <1>1
  <1> DEFINE cnt == [x \in eligible |-> FileCount(x)]
  <1>5. PICK d \in eligible : \A e \in eligible : cnt[d] <= cnt[e]
    BY <1>3, <1>4, LeastExists
  <1>6. \A e \in eligible : FileCount(d) <= FileCount(e)
    BY <1>5
  <1>7. d \in LeastFilesDrives
    BY <1>6, Zenon DEF LeastFilesDrives, eligible
  <1>8. QED
    BY <1>7

(* So the drives already hold (limit + 1) rows each, below the serial. *)
LEMMA NoneMeansRowsBound ==
  ASSUME TypeOK, KeysIssued, DrivesIssued, LeastFilesDrives = {}
  PROVE  Cardinality(drives) * (DriveMaxFileLimit + 1) <= fileSeq
  <1>1. IsFiniteSet(files) /\ Cardinality(files) <= fileSeq
    BY FilesFinite
  <1>2. IsFiniteSet(drives)
    <2>1. IsFiniteSet(1..driveSeq)
      BY FS_Interval DEF TypeOK
    <2>2. QED
      BY <2>1, FS_Subset DEF DrivesIssued
  <1>3. \A d \in drives : Cardinality({r \in files : r.drive = d}) >= DriveMaxFileLimit + 1
    BY NoneMeansFull DEF FileCount
  <1>4. Cardinality(drives) * (DriveMaxFileLimit + 1) <= Cardinality(files)
    BY <1>1, <1>2, <1>3, RowsPerDriveBound, StoreAssumption
  <1>5. Cardinality(drives) \in Nat /\ Cardinality(files) \in Nat
    BY <1>1, <1>2, FS_CardinalityType
  <1>6. QED
    BY <1>1, <1>4, <1>5, StoreAssumption DEF TypeOK

LEMMA DrivesFinite ==
  ASSUME TypeOK, DrivesIssued
  PROVE  IsFiniteSet(drives) /\ Cardinality(drives) \in Nat
  <1>1. IsFiniteSet(1..driveSeq)
    BY FS_Interval DEF TypeOK
  <1>2. IsFiniteSet(drives)
    BY <1>1, FS_Subset DEF DrivesIssued
  <1>3. QED
    BY <1>2, FS_CardinalityType

LEMMA GInvInit == Init => GInv
  <1> SUFFICES ASSUME Init PROVE GInv
    OBVIOUS
  <1>1. TypeOK
    BY TypeInit
  <1>2. Cardinality(drives) = 0
    BY FS_EmptySet DEF Init
  <1>3. QED
    BY <1>1, <1>2 DEF Init, GInv, DrivesIssued, KeysIssued, RowsInDrives, GateHeld,
                      PendingDriveJustified, NoRedundantDrive

LEMMA GInvStep == GInv /\ [Next]_vars => GInv'
  <1> SUFFICES ASSUME GInv, [Next]_vars PROVE GInv'
    OBVIOUS
  <1> USE StoreAssumption DEF GInv, TypeOK, DrivesIssued, KeysIssued, RowsInDrives, GateHeld,
                              PendingDriveJustified, NoRedundantDrive
  <1>1. TypeOK' /\ IsFiniteSet(drives) /\ Cardinality(drives) \in Nat
    BY TypeStep, DrivesFinite
  <1>2. ASSUME NEW p \in Procs, StartUpload(p) PROVE GInv'
    BY <1>1, <1>2 DEF StartUpload
  <1>3. ASSUME NEW p \in Procs, Lock(p) PROVE GInv'
    BY <1>1, <1>3 DEF Lock
  <1>4. ASSUME NEW p \in Procs, LockAbandon(p) PROVE GInv'
    BY <1>1, <1>4 DEF LockAbandon, Finish
  <1>5. ASSUME NEW p \in Procs, CreateDrive(p) PROVE GInv'
    <2>1. DrivesIssued'
      BY <1>1, <1>5 DEF CreateDrive
    <2>2. KeysIssued'
      BY <1>1, <1>5 DEF CreateDrive
    <2>3. RowsInDrives'
      BY <1>1, <1>5 DEF CreateDrive
    <2>4. GateHeld'
      BY <1>1, <1>5 DEF CreateDrive
    <2>5. PendingDriveJustified'
      BY <1>1, <1>5 DEF CreateDrive
    <2>6. NoRedundantDrive'
      BY <1>1, <1>5 DEF CreateDrive
    <2>7. QED
      BY <1>1, <2>1, <2>2, <2>3, <2>4, <2>5, <2>6
  <1>6. ASSUME NEW p \in Procs, CreateFile(p) PROVE GInv'
    BY <1>1, <1>6 DEF CreateFile
  <1>7. ASSUME NEW p \in Procs, UploadFail(p) PROVE GInv'
    <2>1. DrivesIssued'
      BY <1>1, <1>7 DEF UploadFail, Finish
    <2>2. KeysIssued'
      BY <1>1, <1>7 DEF UploadFail, Finish
    <2>3. RowsInDrives'
      BY <1>1, <1>7 DEF UploadFail, Finish
    <2>4. GateHeld'
      BY <1>1, <1>7 DEF UploadFail, Finish
    <2>5. PendingDriveJustified'
      BY <1>1, <1>7 DEF UploadFail, Finish
    <2>6. NoRedundantDrive'
      BY <1>1, <1>7 DEF UploadFail, Finish
    <2>7. QED
      BY <1>1, <2>1, <2>2, <2>3, <2>4, <2>5, <2>6
  <1>8. ASSUME NEW p \in Procs, StartGet(p) PROVE GInv'
    BY <1>1, <1>8 DEF StartGet
  <1>9. ASSUME NEW p \in Procs, GetRow(p) PROVE GInv'
    <2>1. DrivesIssued'
      BY <1>1, <1>9 DEF GetRow, Finish
    <2>2. KeysIssued'
      BY <1>1, <1>9 DEF GetRow, Finish
    <2>3. RowsInDrives'
      BY <1>1, <1>9 DEF GetRow, Finish
    <2>4. GateHeld'
      BY <1>1, <1>9 DEF GetRow, Finish
    <2>5. PendingDriveJustified'
      BY <1>1, <1>9 DEF GetRow, Finish
    <2>6. NoRedundantDrive'
      BY <1>1, <1>9 DEF GetRow, Finish
    <2>7. QED
      BY <1>1, <2>1, <2>2, <2>3, <2>4, <2>5, <2>6
  <1>10. ASSUME NEW p \in Procs, GetRemote(p) PROVE GInv'
    BY <1>1, <1>10 DEF GetRemote, Finish
  <1>11. ASSUME NEW p \in Procs, GetFail(p) PROVE GInv'
    BY <1>1, <1>11 DEF GetFail, Finish
  <1>12. ASSUME NEW p \in Procs, StartDelete(p) PROVE GInv'
    BY <1>1, <1>12 DEF StartDelete
  <1>13. ASSUME NEW p \in Procs, DeleteRow(p) PROVE GInv'
    <2>1. DrivesIssued'
      BY <1>1, <1>13 DEF DeleteRow, Finish
    <2>2. KeysIssued'
      BY <1>1, <1>13 DEF DeleteRow, Finish
    <2>3. RowsInDrives'
      BY <1>1, <1>13 DEF DeleteRow, Finish
    <2>4. GateHeld'
      BY <1>1, <1>13 DEF DeleteRow, Finish
    <2>5. PendingDriveJustified'
      BY <1>1, <1>13 DEF DeleteRow, Finish
    <2>6. NoRedundantDrive'
      BY <1>1, <1>13 DEF DeleteRow, Finish
    <2>7. QED
      BY <1>1, <2>1, <2>2, <2>3, <2>4, <2>5, <2>6
  <1>14. ASSUME NEW p \in Procs, DeleteRemote(p) PROVE GInv'
    BY <1>1, <1>14 DEF DeleteRemote, Finish
  <1>15. ASSUME NEW p \in Procs, DeleteFail(p) PROVE GInv'
    BY <1>1, <1>15 DEF DeleteFail, Finish
  <1>16. ASSUME NEW p \in Procs, AllocQuery(p) PROVE GInv'
    BY <1>1, <1>16, NoneMeansRowsBound DEF AllocQuery, LeastFilesDrives
  <1>17. ASSUME NEW p \in Procs, AddDrive(p) PROVE GInv'
    <2>1. DrivesIssued'
      BY <1>1, <1>17 DEF AddDrive
    <2>2. KeysIssued'
      BY <1>1, <1>17 DEF AddDrive
    <2>3. RowsInDrives'
      BY <1>1, <1>17 DEF AddDrive
    <2>4. GateHeld'
      BY <1>1, <1>17 DEF AddDrive
    <2>5. PendingDriveJustified'
      BY <1>1, <1>17 DEF AddDrive
    <2>6. NoRedundantDrive'
      <3> DEFINE c == Cardinality(drives)
                 L == DriveMaxFileLimit + 1
      <3>1. Cardinality(drives') \in Nat /\ Cardinality(drives') <= c + 1
        <4>1. drives' = drives \cup {drv[p]}
          BY <1>17 DEF AddDrive
        <4>2. /\ IsFiniteSet(drives \cup {drv[p]})
              /\ Cardinality(drives \cup {drv[p]}) =
                    IF drv[p] \in drives THEN c ELSE c + 1
          BY <1>1, FS_AddElement
        <4>3. QED
          BY <1>1, <4>1, <4>2, FS_CardinalityType
      <3>2. c * L <= fileSeq /\ fileSeq' = fileSeq
        BY <1>17 DEF AddDrive
      <3>3. (Cardinality(drives') - 1) * L <= c * L
        BY <1>1, <3>1
      <3>4. (Cardinality(drives') - 1) * (DriveMaxFileLimit + 1) <= fileSeq'
        BY <1>1, <3>1, <3>2, <3>3 DEF c, L
      <3>5. QED
        BY <3>4
    <2>7. QED
      BY <1>1, <2>1, <2>2, <2>3, <2>4, <2>5, <2>6
  <1>18. ASSUME NEW p \in Procs, AddFile(p) PROVE GInv'
    <2>1. DrivesIssued'
      BY <1>1, <1>18 DEF AddFile, InsertedRow
    <2>2. KeysIssued'
      BY <1>1, <1>18 DEF AddFile, InsertedRow
    <2>3. RowsInDrives'
      BY <1>1, <1>18 DEF AddFile, InsertedRow
    <2>4. GateHeld'
      BY <1>1, <1>18 DEF AddFile, InsertedRow
    <2>5. PendingDriveJustified'
      BY <1>1, <1>18 DEF AddFile, InsertedRow
    <2>6. NoRedundantDrive'
      BY <1>1, <1>18 DEF AddFile, InsertedRow
    <2>7. QED
      BY <1>1, <2>1, <2>2, <2>3, <2>4, <2>5, <2>6
  <1>21. ASSUME NEW p \in Procs, Commit(p) PROVE GInv'
    <2>1. DrivesIssued'
      BY <1>1, <1>21 DEF Commit, Finish
    <2>2. KeysIssued'
      BY <1>1, <1>21 DEF Commit, Finish
    <2>3. RowsInDrives'
      BY <1>1, <1>21 DEF Commit, Finish
    <2>4. GateHeld'
      BY <1>1, <1>21 DEF Commit, Finish
    <2>5. PendingDriveJustified'
      BY <1>1, <1>21 DEF Commit, Finish
    <2>6. NoRedundantDrive'
      BY <1>1, <1>21 DEF Commit, Finish
    <2>7. QED
      BY <1>1, <2>1, <2>2, <2>3, <2>4, <2>5, <2>6
  <1>19. CASE UNCHANGED vars
    BY <1>1, <1>19 DEF vars
  <1>20. QED
    BY <1>2, <1>3, <1>4, <1>5, <1>6, <1>7, <1>8, <1>9, <1>10, <1>11, <1>12, <1>13, <1>14, <1>15, <1>16, <1>17, <1>18, <1>19, <1>21 DEF Next

(* No redundant shared drive, for every number of tasks, every           *)
(* DRIVE_MAX_FILE_LIMIT and every interleaving and failure: because        *)
(* allocate_file holds file_alloc_mutex from get_drive_by_least_files to   *)
(* add_drive, the k-th drive is created only once (k-1) * (limit + 1)      *)
(* serial values have been drawn by row inserts (the property run          *)
(* store_safety checks).                                                   *)
THEOREM GateInvariant == Spec => []NoRedundantDrive
  <1>1. Spec => []GInv
    BY GInvInit, GInvStep, PTL DEF Spec
  <1>2. QED
    BY <1>1, PTL DEF GInv

=============================================================================
