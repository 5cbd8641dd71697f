---------------------------- MODULE StoreProofs ----------------------------
(***************************************************************************)
(* Proofs about module Store, for every set of tasks and every value of    *)
(* the bounds: the type invariant, and that no file row ever points at a   *)
(* remote object that does not exist (RowHasRemote).                       *)
(***************************************************************************)
EXTENDS Store, TLAPS

(***************************************************************************)
(* RowHasRemote is not inductive by itself: a remote delete would break it *)
(* if another row or a pending insert could name the object it deletes,    *)
(* and a pending insert would break it if its object could be gone.  The   *)
(* strengthening says that remote ids are fresh and never shared:          *)
(*  - every remote id is at most remoteSeq, the ids handed out so far;     *)
(*  - no two rows share a remote id;                                       *)
(*  - a task about to insert or commit a row holds an id that exists and  *)
(*    that no row and no other pending insert names, and the row it        *)
(*    inserted carries that id;                                            *)
(*  - a task about to delete a remote object holds the id of a row it has  *)
(*    removed, which no row and no pending insert names any more.          *)
(***************************************************************************)
RemoteIdsIssued == remote \subseteq 1..remoteSeq

UniqueRowIds == \A r1, r2 \in files : r1.id = r2.id => r1 = r2

Inserting == {"add_file", "commit"}

PendingInsertFresh ==
    \A p \in Procs : pc[p] \in Inserting =>
        /\ rid[p] \in remote
        /\ \A r \in files : r.id # rid[p]
        /\ \A q \in Procs : q # p /\ pc[q] \in Inserting => rid[q] # rid[p]
        /\ pc[p] = "commit" => row[p].id = rid[p]

PendingDeleteUnnamed ==
    \A p \in Procs : pc[p] = "delete_remote" =>
        /\ row[p].id \in 1..remoteSeq
        /\ \A r \in files : r.id # row[p].id
        /\ \A q \in Procs : pc[q] \in Inserting => rid[q] # row[p].id

IInv ==
    /\ TypeOK
    /\ RowHasRemote
    /\ RemoteIdsIssued
    /\ UniqueRowIds
    /\ PendingInsertFresh
    /\ PendingDeleteUnnamed

-----------------------------------------------------------------------------
(* The type invariant: Init establishes it and every step keeps it. *)
LEMMA TypeInit == Init => TypeOK
  BY StoreAssumption DEF Init, TypeOK, Row, NoRow, PcLabels

LEMMA TypeStep == TypeOK /\ [Next]_vars => TypeOK'
  <1> SUFFICES ASSUME TypeOK, [Next]_vars PROVE TypeOK'
    OBVIOUS
  <1> USE StoreAssumption DEF TypeOK, PcLabels
  <1>1. ASSUME NEW p \in Procs, StartUpload(p) PROVE TypeOK'
    BY <1>1 DEF StartUpload
  <1>2. ASSUME NEW p \in Procs, Lock(p) PROVE TypeOK'
    BY <1>2 DEF Lock
  <1>3. ASSUME NEW p \in Procs, AllocQuery(p) PROVE TypeOK'
    BY <1>3 DEF AllocQuery, LeastFilesDrives
  <1>4. ASSUME NEW p \in Procs, CreateDrive(p) PROVE TypeOK'
    BY <1>4 DEF CreateDrive
  <1>5. ASSUME NEW p \in Procs, AddDrive(p) PROVE TypeOK'
    BY <1>5 DEF AddDrive
  <1>6. ASSUME NEW p \in Procs, CreateFile(p) PROVE TypeOK'
    BY <1>6 DEF CreateFile
  <1>7. ASSUME NEW p \in Procs, AddFile(p) PROVE TypeOK'
    BY <1>7 DEF AddFile, InsertedRow, Row
  <1>20. ASSUME NEW p \in Procs, Commit(p) PROVE TypeOK'
    BY <1>20 DEF Commit, Finish, Row, NoRow
  <1>8. ASSUME NEW p \in Procs, UploadFail(p) PROVE TypeOK'
    BY <1>8 DEF UploadFail, Finish, NoRow, Row
  <1>9. ASSUME NEW p \in Procs, StartGet(p) PROVE TypeOK'
    BY <1>9 DEF StartGet, Keys
  <1>10. ASSUME NEW p \in Procs, GetRow(p) PROVE TypeOK'
    <2>1. CASE \E r \in files : /\ r.key = req[p]
                                /\ row' = [row EXCEPT ![p] = r]
                                /\ pc' = [pc EXCEPT ![p] = "get_remote"]
                                /\ UNCHANGED <<gate, drv, rid, req>>
      BY <1>10, <2>1 DEF GetRow
    <2>2. CASE Finish(p)
      BY <1>10, <2>2 DEF GetRow, Finish, NoRow, Row
    <2>3. QED
      BY <1>10, <2>1, <2>2 DEF GetRow
  <1>11. ASSUME NEW p \in Procs, GetRemote(p) PROVE TypeOK'
    BY <1>11 DEF GetRemote, Finish, NoRow, Row
  <1>12. ASSUME NEW p \in Procs, GetFail(p) PROVE TypeOK'
    BY <1>12 DEF GetFail, Finish, NoRow, Row
  <1>13. ASSUME NEW p \in Procs, StartDelete(p) PROVE TypeOK'
    BY <1>13 DEF StartDelete, Keys
  <1>14. ASSUME NEW p \in Procs, DeleteRow(p) PROVE TypeOK'
    <2>1. CASE \E r \in files : /\ r.key = req[p]
                                /\ files' = files \ {r}
                                /\ row' = [row EXCEPT ![p] = r]
                                /\ pc' = [pc EXCEPT ![p] = "delete_remote"]
                                /\ UNCHANGED <<gate, drv, rid, req>>
      BY <1>14, <2>1 DEF DeleteRow
    <2>2. CASE Finish(p) /\ UNCHANGED files
      BY <1>14, <2>2 DEF DeleteRow, Finish, NoRow, Row
    <2>3. QED
      BY <1>14, <2>1, <2>2 DEF DeleteRow
  <1>15. ASSUME NEW p \in Procs, DeleteRemote(p) PROVE TypeOK'
    BY <1>15 DEF DeleteRemote, Finish, NoRow, Row
  <1>16. ASSUME NEW p \in Procs, DeleteFail(p) PROVE TypeOK'
    BY <1>16 DEF DeleteFail, Finish, NoRow, Row
  <1>17. CASE UNCHANGED vars
    BY <1>17 DEF vars
  <1>18. ASSUME NEW p \in Procs, LockAbandon(p) PROVE TypeOK'
    BY <1>18 DEF LockAbandon, Finish, NoRow, Row
  <1>19. QED
    BY <1>1, <1>2, <1>3, <1>4, <1>5, <1>6, <1>7, <1>8, <1>9, <1>10, <1>11,
       <1>12, <1>13, <1>14, <1>15, <1>16, <1>17, <1>18, <1>20 DEF Next

(* Store's tasks never give a variable a value outside its type. *)
THEOREM TypeCorrect == Spec => []TypeOK
  BY TypeInit, TypeStep, PTL DEF Spec

-----------------------------------------------------------------------------
(* RowHasRemote, through the inductive invariant IInv. *)
LEMMA IInvInit == Init => IInv
  BY StoreAssumption DEF Init, IInv, TypeOK, Row, NoRow, PcLabels, RowHasRemote,
     RemoteIdsIssued, UniqueRowIds, PendingInsertFresh, PendingDeleteUnnamed, Inserting

LEMMA IInvStep == IInv /\ [Next]_vars => IInv'
  <1> SUFFICES ASSUME IInv, [Next]_vars PROVE IInv'
    OBVIOUS
  <1>0. TypeOK'
    BY TypeStep DEF IInv
  <1> USE StoreAssumption, <1>0
      DEF IInv, TypeOK, PcLabels, RowHasRemote, RemoteIdsIssued, UniqueRowIds,
          PendingInsertFresh, PendingDeleteUnnamed, Inserting
  <1>1. ASSUME NEW p \in Procs, StartUpload(p) PROVE IInv'
    BY <1>1 DEF StartUpload
  <1>2. ASSUME NEW p \in Procs, Lock(p) PROVE IInv'
    BY <1>2 DEF Lock
  <1>3. ASSUME NEW p \in Procs, AllocQuery(p) PROVE IInv'
    BY <1>3 DEF AllocQuery
  <1>4. ASSUME NEW p \in Procs, CreateDrive(p) PROVE IInv'
    BY <1>4 DEF CreateDrive
  <1>5. ASSUME NEW p \in Procs, AddDrive(p) PROVE IInv'
    BY <1>5 DEF AddDrive
  <1>6. ASSUME NEW p \in Procs, CreateFile(p) PROVE IInv'
    BY <1>6 DEF CreateFile
  <1>7. ASSUME NEW p \in Procs, AddFile(p) PROVE IInv'
    BY <1>7 DEF AddFile, InsertedRow
  <1>20. ASSUME NEW p \in Procs, Commit(p) PROVE IInv'
    BY <1>20 DEF Commit, Finish
  <1>8. ASSUME NEW p \in Procs, UploadFail(p) PROVE IInv'
    BY <1>8 DEF UploadFail, Finish
  <1>9. ASSUME NEW p \in Procs, StartGet(p) PROVE IInv'
    BY <1>9 DEF StartGet
  <1>10. ASSUME NEW p \in Procs, GetRow(p) PROVE IInv'
    BY <1>10 DEF GetRow, Finish
  <1>11. ASSUME NEW p \in Procs, GetRemote(p) PROVE IInv'
    BY <1>11 DEF GetRemote, Finish
  <1>12. ASSUME NEW p \in Procs, GetFail(p) PROVE IInv'
    BY <1>12 DEF GetFail, Finish
  <1>13. ASSUME NEW p \in Procs, StartDelete(p) PROVE IInv'
    BY <1>13 DEF StartDelete
  <1>14. ASSUME NEW p \in Procs, DeleteRow(p) PROVE IInv'
    <2>1. CASE \E r \in files : /\ r.key = req[p]
                                /\ files' = files \ {r}
                                /\ row' = [row EXCEPT ![p] = r]
                                /\ pc' = [pc EXCEPT ![p] = "delete_remote"]
                                /\ UNCHANGED <<gate, drv, rid, req>>
      <3>1. PICK r \in files : /\ r.key = req[p]
                              /\ files' = files \ {r}
                              /\ row' = [row EXCEPT ![p] = r]
                              /\ pc' = [pc EXCEPT ![p] = "delete_remote"]
                              /\ UNCHANGED <<gate, drv, rid, req>>
        BY <2>1
      <3>2. UNCHANGED <<drives, remote, fileSeq, remoteSeq, driveSeq>>
        BY <1>14 DEF DeleteRow
      <3>3. (RowHasRemote /\ RemoteIdsIssued /\ UniqueRowIds)'
        BY <3>1, <3>2
      <3>4. PendingInsertFresh'
        BY <3>1, <3>2
      <3>5. PendingDeleteUnnamed'
        \* the removed row's id is named by no other row and no pending insert
        BY <3>1, <3>2
      <3>6. QED
        BY <3>3, <3>4, <3>5
    <2>2. CASE Finish(p) /\ UNCHANGED files
      BY <1>14, <2>2 DEF DeleteRow, Finish
    <2>3. QED
      BY <1>14, <2>1, <2>2 DEF DeleteRow
  <1>15. ASSUME NEW p \in Procs, DeleteRemote(p) PROVE IInv'
    BY <1>15 DEF DeleteRemote, Finish
  <1>16. ASSUME NEW p \in Procs, DeleteFail(p) PROVE IInv'
    BY <1>16 DEF DeleteFail, Finish
  <1>17. CASE UNCHANGED vars
    BY <1>17 DEF vars
  <1>18. ASSUME NEW p \in Procs, LockAbandon(p) PROVE IInv'
    BY <1>18 DEF LockAbandon, Finish
  <1>19. QED
    BY <1>1, <1>2, <1>3, <1>4, <1>5, <1>6, <1>7, <1>8, <1>9, <1>10, <1>11,
       <1>12, <1>13, <1>14, <1>15, <1>16, <1>17, <1>18, <1>20 DEF Next

(* Every row of table files names a remote object that exists, whatever    *)
(* the number of tasks and however uploads, gets and deletes interleave    *)
(* and fail: the property run store_safety checks on two tasks.            *)
THEOREM RowsPointToRemote == Spec => []RowHasRemote
  <1>1. IInv => RowHasRemote
    BY DEF IInv
  <1>2. QED
    BY IInvInit, IInvStep, <1>1, PTL DEF Spec

=============================================================================
