---------------------------- MODULE GroupFilesProofs ----------------------------
(***************************************************************************)
(* Proofs about GroupFiles, for any sets of contents and groups, any expiry *)
(* and any bounds on the clock and on the messages.                         *)
(***************************************************************************)
EXTENDS GroupFiles, FiniteSetTheorems, TLAPS

(* A stored file has counts and a date.                                     *)
LEMMA StoredFile ==
    ASSUME TypeOK, NEW h \in Hash
    PROVE  Exists(h) <=> file[h] \in File
  BY NoFileAssumption DEF TypeOK, Exists

(* An operation is of one of two kinds and carries a message.               *)
LEMMA OperationFields ==
    ASSUME TypeOK, op # NoOp
    PROVE  op \in Operation /\ op.msg \in Message /\ op.found \in BOOLEAN
  BY DEF TypeOK, Operation

(* What a refresh does to the file of m.                                    *)
LEMMA RefreshedFile ==
    ASSUME TypeOK, NEW m \in Message, Exists(m.hash)
    PROVE  /\ Refreshed(m) \in [Hash -> File \cup {NoFile}]
           /\ Refreshed(m)[m.hash].date = now
           /\ \A g \in Group : Refreshed(m)[m.hash].count[g] =
                IF g = m.group THEN file[m.hash].count[g] + 1 ELSE file[m.hash].count[g]
           /\ \A h \in Hash \ {m.hash} : Refreshed(m)[h] = file[h]
           /\ Refreshed(m)[m.hash] # NoFile
<1>1. /\ m.hash \in Hash /\ m.group \in Group /\ file[m.hash] \in File
      /\ file \in [Hash -> File \cup {NoFile}] /\ now \in 1..MaxTime
  BY StoredFile DEF TypeOK, Message
<1>2. PICK c \in [Group -> Int], t \in 1..MaxTime : file[m.hash] = [count |-> c, date |-> t]
  BY <1>1 DEF File
<1>3. Refreshed(m)[m.hash] = [count |-> [c EXCEPT ![m.group] = @ + 1], date |-> now]
  <2>1. OneMore(m) = [c EXCEPT ![m.group] = @ + 1]
    BY <1>2 DEF OneMore
  <2> QED
    BY <1>1, <2>1 DEF Refreshed
<1>4. Refreshed(m)[m.hash] \in File
  BY <1>1, <1>3 DEF File
<1>5. \A h \in Hash \ {m.hash} : Refreshed(m)[h] = file[h]
  BY <1>1 DEF Refreshed
<1>6. Refreshed(m) \in [Hash -> File \cup {NoFile}]
  <2>1. Refreshed(m) = [h \in Hash |-> Refreshed(m)[h]]
    BY <1>1 DEF Refreshed
  <2> QED
    BY <1>1, <1>4, <1>5, <2>1
<1>7. Refreshed(m)[m.hash].date = now
  BY <1>3
<1>8. \A g \in Group : Refreshed(m)[m.hash].count[g] =
         IF g = m.group THEN file[m.hash].count[g] + 1 ELSE file[m.hash].count[g]
  BY <1>1, <1>2, <1>3
<1> QED
  BY <1>4, <1>5, <1>6, <1>7, <1>8, NoFileAssumption

(* The file a new content is stored as.                                     *)
NewFile(m) == [count |-> [g \in Group |-> IF g = m.group THEN 1 ELSE 0], date |-> now]

(* What an upload of a new content does.                                    *)
LEMMA PutFile ==
    ASSUME TypeOK, NEW m \in Message
    PROVE  /\ Counted(m, FALSE) \in [Hash -> File \cup {NoFile}]
           /\ Counted(m, FALSE)[m.hash] = NewFile(m)
           /\ NewFile(m) \in File /\ NewFile(m) # NoFile
           /\ \A h \in Hash \ {m.hash} : Counted(m, FALSE)[h] = file[h]
<1>1. NewFile(m) \in File
  BY DEF NewFile, File, TypeOK
<1>2. m.hash \in Hash /\ file \in [Hash -> File \cup {NoFile}]
  BY DEF TypeOK, Message
<1>3. Counted(m, FALSE) = [file EXCEPT ![m.hash] = NewFile(m)]
  BY DEF Counted, NewFile
<1> QED
  BY <1>1, <1>2, <1>3, NoFileAssumption

(* Counting a message stores files and touches one content.                 *)
LEMMA CountedType ==
    ASSUME TypeOK, NEW m \in Message, NEW found \in BOOLEAN
    PROVE  /\ Counted(m, found) \in [Hash -> File \cup {NoFile}]
           /\ \A h \in Hash \ {m.hash} : Counted(m, found)[h] = file[h]
<1>1. CASE ~found
  BY <1>1, PutFile
<1>2. CASE found
  BY <1>2, RefreshedFile DEF Counted, TypeOK
<1> QED
  BY <1>1, <1>2

(* What giving a count back does.                                           *)
LEMMA GivenBack ==
    ASSUME TypeOK, NEW m \in Message, Exists(m.hash)
    PROVE  LET new == [file EXCEPT ![m.hash].count[m.group] = @ - 1]
           IN  /\ new \in [Hash -> File \cup {NoFile}]
               /\ new[m.hash] # NoFile /\ new[m.hash].date = file[m.hash].date
               /\ \A g \in Group : new[m.hash].count[g] =
                    IF g = m.group THEN file[m.hash].count[g] - 1
                                   ELSE file[m.hash].count[g]
               /\ \A h \in Hash \ {m.hash} : new[h] = file[h]
<1> DEFINE new == [file EXCEPT ![m.hash].count[m.group] = @ - 1]
<1>1. /\ m.hash \in Hash /\ m.group \in Group /\ file[m.hash] \in File
      /\ file \in [Hash -> File \cup {NoFile}]
  BY StoredFile DEF TypeOK, Message
<1>2. PICK c \in [Group -> Int], t \in 1..MaxTime : file[m.hash] = [count |-> c, date |-> t]
  BY <1>1 DEF File
<1>3. new[m.hash] = [count |-> [c EXCEPT ![m.group] = @ - 1], date |-> t]
  BY <1>1, <1>2
<1>4. new[m.hash] \in File
  BY <1>1, <1>2, <1>3 DEF File
<1>5. \A h \in Hash \ {m.hash} : new[h] = file[h]
  BY <1>1
<1>6. new \in [Hash -> File \cup {NoFile}]
  <2>1. new = [h \in Hash |-> new[h]]
    BY <1>1
  <2> QED
    BY <1>1, <1>4, <1>5, <2>1
<1>7. /\ new[m.hash].date = file[m.hash].date
      /\ \A g \in Group : new[m.hash].count[g] =
           IF g = m.group THEN file[m.hash].count[g] - 1 ELSE file[m.hash].count[g]
  BY <1>1, <1>2, <1>3
<1> QED
  BY <1>4, <1>5, <1>6, <1>7, NoFileAssumption

(* Every step keeps the types.                                              *)
LEMMA NextKeepsType ==
    ASSUME TypeOK, [Next]_vars
    PROVE  TypeOK'
<1> USE DEF cleanerVars
<1>1. CASE Tick
  BY <1>1, ExpireAssumption DEF Tick, TypeOK
<1>2. ASSUME NEW kind \in {"upload", "forward"}, NEW g \in Group, NEW h \in Hash,
             LookUp(kind, g, h)
      PROVE  TypeOK'
  <2>1. [id |-> sent + 1, group |-> g, hash |-> h, time |-> now] \in Message
        /\ sent' \in 0..MaxSent
    BY <1>2, ExpireAssumption DEF LookUp, TypeOK, Message
  <2>2. op' \in Operation
    BY <1>2, <2>1 DEF LookUp, Operation, Exists
  <2> QED
    BY <1>2, <2>1, <2>2 DEF LookUp, TypeOK
<1>3. CASE UploadWrites
  <2>1. file' \in [Hash -> File \cup {NoFile}]
    BY <1>3, OperationFields, CountedType DEF UploadWrites
  <2> QED
    BY <1>3, <2>1, OperationFields DEF UploadWrites, TypeOK
<1>4. CASE ForwardWrites
  <2>1. file' \in [Hash -> File \cup {NoFile}]
    BY <1>4, OperationFields, CountedType DEF ForwardWrites
  <2> QED
    BY <1>4, <2>1, OperationFields DEF ForwardWrites, StoreOrLose, TypeOK
<1>5. ASSUME NEW m \in pending, SendUploaded(m)
      PROVE  TypeOK'
  BY <1>5 DEF SendUploaded, StoreOrLose, TypeOK
<1>6. ASSUME NEW m \in messages, Revoke(m)
      PROVE  TypeOK'
  <2>1. file' \in [Hash -> File \cup {NoFile}]
    BY <1>6, GivenBack DEF Revoke, TypeOK
  <2> QED
    BY <1>6, <2>1 DEF Revoke, TypeOK
<1>7. CASE CleanerStarts
  BY <1>7, ExpireAssumption DEF CleanerStarts, TypeOK
<1>8. ASSUME NEW g \in Group, CleanGroup(g)
      PROVE  TypeOK'
  BY <1>8 DEF CleanGroup, TypeOK
<1>9. CASE ListFiles
  BY <1>9 DEF ListFiles, CleanerPhase, TypeOK
<1>10. ASSUME NEW h \in Hash, DeleteFile(h)
       PROVE  TypeOK'
  BY <1>10 DEF DeleteFile, CleanerPhase, TypeOK
<1>11. CASE UNCHANGED vars
  BY <1>11 DEF vars, TypeOK
<1> QED
  BY <1>1, <1>2, <1>3, <1>4, <1>5, <1>6, <1>7, <1>8, <1>9, <1>10, <1>11
     DEF Next, Upload, Forward

--------------------------------------------------------------------------------
(* Messages and lookups *)

(* A message is one, on its way or stored, and was stamped in the past.     *)
StampedOnce ==
    /\ \A m \in messages \cup pending : m.id <= sent /\ m.time <= now
    /\ messages \cap pending = {}
    /\ IsFiniteSet(messages) /\ IsFiniteSet(pending)
    /\ op # NoOp => /\ op.msg.id <= sent /\ op.msg.time <= now
                    /\ op.msg \notin messages \cup pending

(* What a lookup found is still there, unless the cleaner took it.          *)
LookedUp ==
    op # NoOp =>
        /\ op.kind = "forward" => op.found
        /\ op.found => Exists(op.msg.hash) \/ op.msg.hash \in swept
        /\ ~op.found => ~Exists(op.msg.hash)

(* Messages come and go one at a time.                                      *)
LEMMA NextKeepsStamped ==
    ASSUME TypeOK, StampedOnce, [Next]_vars
    PROVE  StampedOnce'
<1> USE DEF StampedOnce
<1>0. now \in Nat /\ sent \in Nat
  BY DEF TypeOK
<1>1. CASE Tick
  BY <1>0, <1>1, OperationFields DEF Tick, TypeOK, Message
<1>2. ASSUME NEW kind, NEW g \in Group, NEW h \in Hash, LookUp(kind, g, h)
      PROVE  StampedOnce'
  <2>1. \A m \in messages \cup pending : m.id \in Nat
    BY DEF TypeOK, Message
  <2> QED
    BY <1>0, <1>2, <2>1 DEF LookUp
<1>3. CASE UploadWrites
  BY <1>3, FS_AddElement DEF UploadWrites
<1>4. CASE ForwardWrites
  BY <1>4, FS_AddElement DEF ForwardWrites, StoreOrLose
<1>5. ASSUME NEW m \in pending, SendUploaded(m)
      PROVE  StampedOnce'
  BY <1>5, FS_AddElement, FS_RemoveElement DEF SendUploaded, StoreOrLose
<1>6. ASSUME NEW g \in Group, CleanGroup(g)
      PROVE  StampedOnce'
  <2>1. messages' \in SUBSET messages /\ UNCHANGED <<pending, op, sent, now>>
    BY <1>6 DEF CleanGroup
  <2> QED
    BY <2>1, FS_Subset
<1>7. ASSUME UNCHANGED <<now, sent, op, pending, messages>>
      PROVE  StampedOnce'
  BY <1>7
<1> QED
  BY <1>1, <1>2, <1>3, <1>4, <1>5, <1>6, <1>7
     DEF Next, Upload, Forward, Revoke, CleanerStarts, ListFiles, DeleteFile, vars

(* While an operation has looked its file up only the cleaner moves.        *)
LEMMA NextKeepsLookup ==
    ASSUME TypeOK, LookedUp, [Next]_vars
    PROVE  LookedUp'
<1> USE DEF LookedUp, cleanerVars
<1>1. ASSUME NEW kind, NEW g \in Group, NEW h \in Hash, LookUp(kind, g, h),
             kind = "forward" => Exists(h)
      PROVE  LookedUp'
  BY <1>1 DEF LookUp, Exists
<1>2. CASE UploadWrites \/ ForwardWrites
  BY <1>2 DEF UploadWrites, ForwardWrites
<1>3. ASSUME NEW h \in Hash, DeleteFile(h)
      PROVE  LookedUp'
  <2>1. SUFFICES ASSUME op # NoOp
                 PROVE  LookedUp'
    BY <1>3 DEF DeleteFile
  <2>2. /\ file' = [file EXCEPT ![h] = NoFile] /\ op' = op /\ swept \subseteq swept'
        /\ op.msg.hash \in Hash
    BY <1>3, <2>1, OperationFields DEF DeleteFile, Message
  <2>3. ~Exists(op.msg.hash) => ~Exists(op.msg.hash)'
    BY <2>2 DEF Exists, TypeOK
  <2>4. op.found => Exists(op.msg.hash)' \/ op.msg.hash \in swept'
    <3>1. CASE op.msg.hash = h
      BY <1>3, <2>1, <3>1 DEF DeleteFile, Needed
    <3>2. CASE op.msg.hash # h
      BY <2>1, <2>2, <3>2 DEF Exists, TypeOK
    <3> QED
      BY <3>1, <3>2
  <2> QED
    BY <2>1, <2>2, <2>3, <2>4
<1>4. ASSUME op = NoOp, UNCHANGED op
      PROVE  LookedUp'
  BY <1>4
<1>5. ASSUME UNCHANGED <<op, file, swept>>
      PROVE  LookedUp'
  BY <1>5 DEF Exists
<1> QED
  BY <1>1, <1>2, <1>3, <1>4, <1>5
     DEF Next, Tick, Upload, Forward, SendUploaded, Revoke, CleanerStarts,
         ListFiles, CleanGroup, vars

--------------------------------------------------------------------------------
(* Files under messages *)

(* The messages of a group that refer to a content can be counted.          *)
LEMMA InGroupFinite ==
    ASSUME StampedOnce, NEW h, NEW g
    PROVE  IsFiniteSet(InGroup(h, g))
<1>1. IsFiniteSet(messages \cup pending)
  BY FS_Union DEF StampedOnce
<1>2. InGroup(h, g) \in SUBSET (messages \cup pending)
  BY DEF InGroup, Refers
<1> QED
  BY <1>1, <1>2, FS_Subset

FilesKept == FileOutlivesMessage /\ CountCovers

(* A step that adds no reference and leaves the files alone.                *)
LEMMA FewerReferences ==
    ASSUME TypeOK, StampedOnce, FilesKept, UNCHANGED <<file, swept>>,
           \A h \in Hash : Refers(h)' \subseteq Refers(h)
    PROVE  FilesKept'
<1>1. FileOutlivesMessage'
  BY DEF FilesKept, FileOutlivesMessage, Exists
<1>2. CountCovers'
  <2> SUFFICES ASSUME NEW h \in Hash \ swept', NEW g \in Group, Exists(h)'
               PROVE  file'[h].count[g] >= Cardinality(InGroup(h, g)')
    BY DEF CountCovers
  <2>1. Exists(h) /\ file[h].count[g] >= Cardinality(InGroup(h, g))
    BY DEF FilesKept, CountCovers, Exists
  <2>2. InGroup(h, g)' \in SUBSET InGroup(h, g) /\ IsFiniteSet(InGroup(h, g))
    BY InGroupFinite DEF InGroup
  <2>3. /\ Cardinality(InGroup(h, g)') <= Cardinality(InGroup(h, g))
        /\ Cardinality(InGroup(h, g)') \in Nat /\ Cardinality(InGroup(h, g)) \in Nat
    BY <2>2, FS_Subset, FS_CardinalityType
  <2>4. file[h].count[g] \in Int
    BY <2>1, StoredFile DEF File
  <2> QED
    BY <2>1, <2>3, <2>4
<1> QED
  BY <1>1, <1>2 DEF FilesKept

(* A message counted in a group covers the reference it makes.              *)
LEMMA CountedCovers ==
    ASSUME TypeOK, StampedOnce, FilesKept,
           NEW m \in Message, m.time <= now, NEW found \in BOOLEAN,
           found => Exists(m.hash) \/ m.hash \in swept,
           ~found => ~Exists(m.hash),
           file' = Counted(m, found), UNCHANGED <<now, swept>>,
           \A h \in Hash : Refers(h)' \subseteq Refers(h) \cup
                                IF h = m.hash THEN {m} ELSE {}
    PROVE  FilesKept'
<1>0. m.hash \in Hash /\ m.group \in Group /\ now \in Nat
  BY DEF Message, TypeOK
<1>1. \A h \in Hash \ {m.hash} : file'[h] = file[h]
  BY <1>0, CountedType
<1>old. ASSUME NEW n \in Message, n \in messages \cup pending \cup {m}
        PROVE  n.time <= now
  BY <1>old DEF StampedOnce
<1>refers. \A h : Refers(h) \subseteq messages \cup pending /\ Refers(h) \subseteq Message
  BY DEF Refers, TypeOK
<1>2. ASSUME found, m.hash \notin swept
      PROVE  /\ Exists(m.hash) /\ Exists(m.hash)' /\ file'[m.hash].date = now
             /\ \A g \in Group : file'[m.hash].count[g] =
                  IF g = m.group THEN file[m.hash].count[g] + 1
                                 ELSE file[m.hash].count[g]
  <2>1. Exists(m.hash)
    BY <1>2
  <2>2. file' = Refreshed(m)
    BY <1>2, <2>1 DEF Counted
  <2> QED
    BY <1>0, <2>1, <2>2, RefreshedFile DEF Exists
<1>3. ASSUME ~found, m.hash \notin swept
      PROVE  /\ Exists(m.hash)' /\ file'[m.hash] = NewFile(m)
             /\ Refers(m.hash) = {}
  <2>1. file' = Counted(m, FALSE)
    BY <1>0, <1>3
  <2>2. ~Exists(m.hash)
    BY <1>3
  <2>3. Refers(m.hash) = {}
    BY <1>0, <1>3, <2>2 DEF FilesKept, FileOutlivesMessage
  <2> QED
    BY <1>0, <2>1, <2>3, PutFile DEF Exists
<1>4. FileOutlivesMessage'
  <2> SUFFICES ASSUME NEW h \in Hash \ swept, NEW n \in Refers(h)'
               PROVE  Exists(h)' /\ file'[h].date >= n.time
    BY DEF FileOutlivesMessage
  <2>1. CASE h # m.hash
    BY <1>1, <2>1 DEF FilesKept, FileOutlivesMessage, Exists
  <2>2. CASE h = m.hash
    <3>1. n.time <= now /\ n.time \in Nat
      BY <1>0, <1>old, <1>refers, <2>2 DEF Message
    <3>2. Exists(h)' /\ file'[h].date = now
      BY <1>2, <1>3, <2>2 DEF NewFile
    <3> QED
      BY <1>0, <3>1, <3>2
  <2> QED
    BY <2>1, <2>2
<1>5. CountCovers'
  <2> SUFFICES ASSUME NEW h \in Hash \ swept, NEW g \in Group, Exists(h)'
               PROVE  file'[h].count[g] >= Cardinality(InGroup(h, g)')
    BY DEF CountCovers
  <2> DEFINE S == InGroup(h, g)
             T == InGroup(h, g)'
  <2>0. IsFiniteSet(S) /\ Cardinality(S) \in Nat
    BY InGroupFinite, FS_CardinalityType
  <2>1. CASE h # m.hash
    <3>1. Exists(h) /\ T \in SUBSET S /\ file'[h] = file[h]
      BY <1>1, <2>1 DEF InGroup, Exists
    <3>2. file[h].count[g] >= Cardinality(S) /\ file[h].count[g] \in Int
      BY <3>1, StoredFile DEF FilesKept, CountCovers, File
    <3>3. Cardinality(T) <= Cardinality(S) /\ Cardinality(T) \in Nat
      BY <2>0, <3>1, FS_Subset, FS_CardinalityType
    <3> QED
      BY <2>0, <3>1, <3>2, <3>3
  <2>2. CASE h = m.hash /\ found
    <3>1. /\ Exists(h) /\ file[h].count[g] >= Cardinality(S) /\ file[h].count[g] \in Int
          /\ file'[h].count[g] = IF g = m.group THEN file[h].count[g] + 1
                                                ELSE file[h].count[g]
      BY <1>2, <2>2, StoredFile DEF FilesKept, CountCovers, File
    <3>2. CASE g = m.group
      <4>1. T \in SUBSET (S \cup {m})
        BY <2>2 DEF InGroup
      <4>2. /\ IsFiniteSet(S \cup {m}) /\ Cardinality(S \cup {m}) \in Nat
            /\ Cardinality(S \cup {m}) <= Cardinality(S) + 1
        BY <2>0, FS_AddElement, FS_CardinalityType
      <4>3. Cardinality(T) <= Cardinality(S \cup {m}) /\ Cardinality(T) \in Nat
        BY <4>1, <4>2, FS_Subset, FS_CardinalityType
      <4> QED
        BY <2>0, <3>1, <3>2, <4>2, <4>3
    <3>3. CASE g # m.group
      <4>1. T \in SUBSET S
        BY <2>2, <3>3 DEF InGroup
      <4>2. Cardinality(T) <= Cardinality(S) /\ Cardinality(T) \in Nat
        BY <2>0, <4>1, FS_Subset, FS_CardinalityType
      <4> QED
        BY <2>0, <3>1, <3>3, <4>2
    <3> QED
      BY <3>2, <3>3
  <2>3. CASE h = m.hash /\ ~found
    <3>1. /\ file'[h].count[g] = IF g = m.group THEN 1 ELSE 0
          /\ Refers(h) = {}
      BY <1>3, <2>3 DEF NewFile
    <3>2. CASE g = m.group
      <4>1. T \in SUBSET {m}
        BY <2>3, <3>1 DEF InGroup
      <4>2. IsFiniteSet({m}) /\ Cardinality({m}) = 1
        BY FS_Singleton
      <4>3. Cardinality(T) <= 1 /\ Cardinality(T) \in Nat
        BY <4>1, <4>2, FS_Subset, FS_CardinalityType
      <4> QED
        BY <3>1, <3>2, <4>3
    <3>3. CASE g # m.group
      <4>1. T = {}
        BY <2>3, <3>1, <3>3 DEF InGroup
      <4>2. Cardinality(T) = 0
        BY <4>1, FS_EmptySet
      <4> QED
        BY <3>1, <3>3, <4>2
    <3> QED
      BY <3>2, <3>3
  <2> QED
    BY <1>0, <2>1, <2>2, <2>3
<1> QED
  BY <1>4, <1>5 DEF FilesKept

(* A revoked message gives back the one count that it had.                  *)
LEMMA RevokeCovers ==
    ASSUME TypeOK, StampedOnce, FilesKept, NEW m \in messages, Revoke(m)
    PROVE  FilesKept'
<1>0. /\ m \in Message /\ m.hash \in Hash /\ m.group \in Group /\ m \notin pending
      /\ revoked' = revoked \cup {m} /\ UNCHANGED <<now, messages, pending, swept>>
  BY DEF TypeOK, Message, StampedOnce, Revoke, cleanerVars
<1>1. \A h \in Hash : Refers(h)' \subseteq Refers(h)
  BY <1>0 DEF Refers
<1>2. CASE ~(Exists(m.hash) /\ m \notin revoked)
  <2>1. file' = file
    BY <1>2 DEF Revoke
  <2> QED
    BY <1>0, <1>1, <2>1, FewerReferences
<1>3. CASE Exists(m.hash) /\ m \notin revoked
  <2>1. /\ file'[m.hash] # NoFile /\ file'[m.hash].date = file[m.hash].date
        /\ \A g \in Group : file'[m.hash].count[g] =
             IF g = m.group THEN file[m.hash].count[g] - 1 ELSE file[m.hash].count[g]
        /\ \A h \in Hash \ {m.hash} : file'[h] = file[h]
    BY <1>0, <1>3, GivenBack DEF Revoke
  <2>2. FileOutlivesMessage'
    BY <1>0, <1>1, <2>1 DEF FilesKept, FileOutlivesMessage, Exists
  <2>3. CountCovers'
    <3> SUFFICES ASSUME NEW h \in Hash \ swept, NEW g \in Group, Exists(h)'
                 PROVE  file'[h].count[g] >= Cardinality(InGroup(h, g)')
      BY <1>0 DEF CountCovers
    <3>1. Exists(h) /\ file[h].count[g] >= Cardinality(InGroup(h, g))
      BY <1>3, <2>1 DEF FilesKept, CountCovers, Exists
    <3>2. /\ IsFiniteSet(InGroup(h, g)) /\ Cardinality(InGroup(h, g)) \in Nat
          /\ file[h].count[g] \in Int
      BY <3>1, InGroupFinite, FS_CardinalityType, StoredFile DEF File
    <3>3. CASE h = m.hash /\ g = m.group
      <4>1. InGroup(h, g)' = InGroup(h, g) \ {m}
        BY <1>0, <3>3 DEF InGroup, Refers
      <4>2. m \in InGroup(h, g)
        BY <1>3, <3>3 DEF InGroup, Refers
      <4>3. Cardinality(InGroup(h, g)') = Cardinality(InGroup(h, g)) - 1
        BY <3>2, <4>1, <4>2, FS_RemoveElement
      <4> QED
        BY <2>1, <3>1, <3>2, <3>3, <4>3
    <3>4. CASE ~(h = m.hash /\ g = m.group)
      <4>1. InGroup(h, g)' \in SUBSET InGroup(h, g)
        BY <1>1 DEF InGroup
      <4>2. /\ Cardinality(InGroup(h, g)') <= Cardinality(InGroup(h, g))
            /\ Cardinality(InGroup(h, g)') \in Nat
        BY <3>2, <4>1, FS_Subset, FS_CardinalityType
      <4>3. file'[h].count[g] = file[h].count[g]
        BY <2>1, <3>4
      <4> QED
        BY <3>1, <3>2, <4>2, <4>3
    <3> QED
      BY <3>3, <3>4
  <2> QED
    BY <2>2, <2>3 DEF FilesKept
<1> QED
  BY <1>2, <1>3

(* The cleaner's deletion is remembered when something refers to the file.  *)
LEMMA DeleteCovers ==
    ASSUME TypeOK, FilesKept, NEW h \in Hash, DeleteFile(h)
    PROVE  FilesKept'
<1>1. /\ UNCHANGED <<now, op, pending, messages, revoked>>
      /\ file' = [file EXCEPT ![h] = NoFile]
      /\ swept \subseteq swept' /\ (Refers(h) # {} => h \in swept')
  BY DEF DeleteFile, Needed
<1>2. \A k \in Hash : Refers(k)' = Refers(k) /\ (k # h => file'[k] = file[k])
  BY <1>1 DEF Refers, TypeOK
<1>3. \A k \in Hash, g \in Group : InGroup(k, g)' = InGroup(k, g)
  BY <1>2 DEF InGroup
<1>4. ~Exists(h)'
  BY <1>1 DEF Exists, TypeOK
<1>5. FileOutlivesMessage'
  BY <1>1, <1>2 DEF FilesKept, FileOutlivesMessage, Exists
<1>6. CountCovers'
  BY <1>1, <1>2, <1>3, <1>4 DEF FilesKept, CountCovers, Exists
<1> QED
  BY <1>5, <1>6 DEF FilesKept

(* Every step leaves files under the messages that refer to them.           *)
LEMMA NextKeepsFiles ==
    ASSUME TypeOK, StampedOnce, LookedUp, FilesKept, [Next]_vars
    PROVE  FilesKept'
<1> USE DEF cleanerVars
<1>1. CASE UploadWrites
  <2>1. /\ op # NoOp /\ file' = Counted(op.msg, op.found)
        /\ pending' = pending \cup {op.msg}
        /\ UNCHANGED <<now, messages, revoked, swept>>
    BY <1>1 DEF UploadWrites
  <2>2. PICK m \in Message, found \in BOOLEAN : m = op.msg /\ found = op.found
    BY <2>1, OperationFields
  <2>3. \A h \in Hash : Refers(h)' \subseteq Refers(h) \cup IF h = m.hash THEN {m} ELSE {}
    BY <2>1, <2>2 DEF Refers
  <2> QED
    BY <2>1, <2>2, <2>3, CountedCovers DEF StampedOnce, LookedUp
<1>2. CASE ForwardWrites
  <2>1. /\ op # NoOp /\ op.found /\ file' = Counted(op.msg, TRUE)
        /\ messages' \subseteq messages \cup {op.msg}
        /\ UNCHANGED <<now, pending, revoked, swept>>
    BY <1>2 DEF ForwardWrites, StoreOrLose, LookedUp
  <2>2. PICK m \in Message : m = op.msg
    BY <2>1, OperationFields
  <2>3. \A h \in Hash : Refers(h)' \subseteq Refers(h) \cup IF h = m.hash THEN {m} ELSE {}
    BY <2>1, <2>2 DEF Refers
  <2>4. /\ m.time <= now /\ file' = Counted(m, TRUE)
        /\ Exists(m.hash) \/ m.hash \in swept
    BY <2>1, <2>2 DEF StampedOnce, LookedUp
  <2> QED
    BY <2>1, <2>3, <2>4, CountedCovers
<1>3. ASSUME NEW m \in messages, Revoke(m)
      PROVE  FilesKept'
  BY <1>3, RevokeCovers
<1>4. ASSUME NEW h \in Hash, DeleteFile(h)
      PROVE  FilesKept'
  BY <1>4, DeleteCovers
<1>5. ASSUME NEW m \in pending, SendUploaded(m)
      PROVE  FilesKept'
  <2>1. /\ UNCHANGED <<file, swept, revoked>> /\ pending' = pending \ {m}
        /\ messages' \subseteq messages \cup {m}
    BY <1>5 DEF SendUploaded, StoreOrLose
  <2>2. \A h \in Hash : Refers(h)' \subseteq Refers(h)
    BY <2>1 DEF Refers
  <2> QED
    BY <2>1, <2>2, FewerReferences
<1>6. ASSUME NEW g \in Group, CleanGroup(g)
      PROVE  FilesKept'
  <2>1. UNCHANGED <<file, swept, pending>>
    BY <1>6 DEF CleanGroup
  <2>2. \A h \in Hash : Refers(h)' \subseteq Refers(h)
    BY <1>6 DEF CleanGroup, Refers
  <2> QED
    BY <2>1, <2>2, FewerReferences
<1>7. ASSUME UNCHANGED <<file, swept, messages, revoked, pending>>
      PROVE  FilesKept'
  <2>1. \A h \in Hash : Refers(h)' \subseteq Refers(h)
    BY <1>7 DEF Refers
  <2> QED
    BY <1>7, <2>1, FewerReferences
<1> QED
  BY <1>1, <1>2, <1>3, <1>4, <1>5, <1>6, <1>7
     DEF Next, Tick, Upload, Forward, LookUp, CleanerStarts, ListFiles, vars

--------------------------------------------------------------------------------
(* The theorems *)

(* The inductive invariant.                                                 *)
FilesInv == TypeOK /\ StampedOnce /\ LookedUp /\ FilesKept

(* The inductive invariant holds in every behaviour.                        *)
LEMMA FilesInvHolds == Spec => []FilesInv
<1>1. Init => FilesInv
  <2> SUFFICES ASSUME Init PROVE FilesInv
    OBVIOUS
  <2>1. TypeOK
    BY ExpireAssumption DEF Init, TypeOK
  <2>2. StampedOnce /\ LookedUp
    BY FS_EmptySet DEF Init, StampedOnce, LookedUp
  <2>3. FilesKept
    BY DEF Init, FilesKept, FileOutlivesMessage, CountCovers, Refers, Exists
  <2> QED
    BY <2>1, <2>2, <2>3 DEF FilesInv
<1>2. FilesInv /\ [Next]_vars => FilesInv'
  BY NextKeepsType, NextKeepsStamped, NextKeepsLookup, NextKeepsFiles DEF FilesInv
<1> QED
  BY <1>1, <1>2, PTL DEF Spec

(* The variables keep their types in every behaviour.                       *)
THEOREM FilesTypeCorrect == Spec => []TypeOK
<1>1. FilesInv => TypeOK
  BY DEF FilesInv
<1> QED
  BY FilesInvHolds, <1>1, PTL

(* A message that stands has its file, unless the cleaner deleted that      *)
(* content while something referred to it.                                  *)
THEOREM FilesOutliveMessages == Spec => []FileOutlivesMessage
<1>1. FilesInv => FileOutlivesMessage
  BY DEF FilesInv, FilesKept
<1> QED
  BY FilesInvHolds, <1>1, PTL

(* The count of a group never falls below the messages it stands for.       *)
THEOREM CountsAlwaysCover == Spec => []CountCovers
<1>1. FilesInv => CountCovers
  BY DEF FilesInv, FilesKept
<1> QED
  BY FilesInvHolds, <1>1, PTL

(* The download check never refuses the file of a message that stands.      *)
THEOREM DownloadsAlwaysAllowed == Spec => []DownloadsAllowed
<1>1. FilesInv => DownloadsAllowed
  <2> SUFFICES ASSUME FilesInv, NEW h \in Hash \ swept, NEW m \in Refers(h)
               PROVE  MayDownload(m.group, h)
    BY DEF DownloadsAllowed
  <2> DEFINE g == m.group
  <2>1. m \in Message /\ g \in Group
    BY DEF FilesInv, TypeOK, Refers, Message
  <2>2. Exists(h) /\ file[h].count[g] >= Cardinality(InGroup(h, g))
    BY <2>1 DEF FilesInv, FilesKept, FileOutlivesMessage, CountCovers
  <2>3. IsFiniteSet(InGroup(h, g)) /\ InGroup(h, g) # {}
    BY InGroupFinite DEF FilesInv, InGroup
  <2>4. Cardinality(InGroup(h, g)) \in Nat /\ Cardinality(InGroup(h, g)) # 0
    BY <2>3, FS_CardinalityType, FS_EmptySet
  <2>5. file[h].count[g] \in Int
    BY <2>1, <2>2, StoredFile DEF FilesInv, File
  <2> QED
    BY <2>2, <2>4, <2>5 DEF MayDownload
<1> QED
  BY FilesInvHolds, <1>1, PTL

================================================================================
