--------------------------- MODULE PackStoreProofs ---------------------------
(***************************************************************************)
(* Theorems about PackStore, for every set of packs, versions, documents,  *)
(* paths, chunkings and manifests; where a theorem excludes an option of   *)
(* Scope or a shape of the catalogue, it says so.                          *)
(***************************************************************************)
EXTENDS PackStore, TLAPS

-----------------------------------------------------------------------------
(* Shapes of the operators the actions are built from.                     *)

\* A manifest of the catalogue names documents, a pack and a cut.
LEMMA CatalogShape ==
    ASSUME NEW m \in Catalog
    PROVE  /\ m.id \in Packs /\ m.version \in Versions /\ m.cut \in Cuts
           /\ <<m.id, m.version>> \in Rows
           /\ DocsOf(m) \subseteq Docs
           /\ \A d \in DocsOf(m) : PathIn(m, d) \in Paths
<1> DEFINE P(d) == \E p \in DOMAIN m.docs : m.docs[p] = d
<1>1. m \in Manifests
  BY CatalogAssumption
<1>2. PICK S \in SUBSET Paths : m.docs \in [S -> Docs]
  BY <1>1 DEF Manifests
<1>3. DOMAIN m.docs = S
  BY <1>2
<1>4. \A d \in DocsOf(m) : PathIn(m, d) \in DOMAIN m.docs
  BY DEF DocsOf, PathIn
<1>5. m.id \in Packs /\ m.version \in Versions /\ m.cut \in Cuts
  BY <1>1 DEF Manifests
<1>. QED
  BY <1>2, <1>3, <1>4, <1>5 DEF DocsOf, Rows

\* A transaction keeps the tables well typed.
LEMMA WriteTypes ==
    ASSUME TypeOK,
           NEW released, NEW added \in SUBSET Docs, NEW who \in Claimants,
           NEW at, \A d \in added : at[d] \in Paths, NEW c \in Cuts,
           Write(released, added, who, at, c)
    PROVE  /\ path' \in [Docs -> Paths \cup {NoPath}]
           /\ cut' \in [Docs -> Cuts \cup {NoCut}]
           /\ claims' \subseteq Docs \X Claimants
<1>1. path' \in [Docs -> Paths \cup {NoPath}]
  BY DEF TypeOK, Write
<1>2. cut' \in [Docs -> Cuts \cup {NoCut}]
  BY DEF TypeOK, Write
<1>3. claims' \subseteq Docs \X Claimants
  BY DEF TypeOK, Write, Claimed
<1>. QED
  BY <1>1, <1>2, <1>3

\* A transaction deletes a document with its last claim and only then.
LEMMA WriteContent ==
    ASSUME TypeOK, ContentExactlyWhileClaimed,
           NEW released, NEW added \in SUBSET Docs, NEW who \in Claimants,
           NEW at, \A d \in added : at[d] \in Paths, NEW c \in Cuts,
           Write(released, added, who, at, c)
    PROVE  ContentExactlyWhileClaimed'
<1> SUFFICES ASSUME NEW d \in Docs
             PROVE  /\ path'[d] # NoPath <=> \E a \in Claimants : <<d, a>> \in claims'
                    /\ path'[d] # NoPath <=> cut'[d] # NoCut
  BY DEF ContentExactlyWhileClaimed, Live
<1>1. /\ path[d] # NoPath <=> \E a \in Claimants : <<d, a>> \in claims
      /\ path[d] # NoPath <=> cut[d] # NoCut
  BY DEF ContentExactlyWhileClaimed, Live
<1>2. claims' = (claims \ released) \cup (added \X {who})
  BY DEF Write, Claimed
<1>3. path'[d] = IF d \in added \ Kept(released) THEN at[d]
                 ELSE IF d \in Deleted(released) THEN NoPath ELSE path[d]
  BY DEF Write
<1>4. cut'[d] = IF d \in added THEN c
                ELSE IF d \in Deleted(released) THEN NoCut ELSE cut[d]
  BY DEF Write
<1>5. c # NoCut /\ \A e \in added : at[e] # NoPath
  BY CutAssumption, PathAssumption
<1>6. CASE d \in added
  <2>1. <<d, who>> \in claims'
    BY <1>2, <1>6
  <2>2. path'[d] # NoPath
    BY <1>3, <1>5, <1>6 DEF Kept, Live
  <2>. QED
    BY <1>4, <1>5, <1>6, <2>1, <2>2
<1>7. CASE d \notin added
  <2>1. \A a \in Claimants : <<d, a>> \in claims' <=> <<d, a>> \in claims \ released
    BY <1>2, <1>7
  <2>2. CASE d \in Deleted(released)
    <3>1. \A a \in Claimants : <<d, a>> \notin claims \ released
      BY <2>2 DEF Deleted
    <3>. QED
      BY <1>3, <1>4, <1>7, <2>1, <2>2, <3>1
  <2>3. CASE d \notin Deleted(released)
    <3>1. (\E a \in Claimants : <<d, a>> \in claims) =>
            \E a \in Claimants : <<d, a>> \in claims \ released
      <4> SUFFICES ASSUME NEW a \in Claimants, <<d, a>> \in claims, <<d, a>> \in released
                   PROVE  \E b \in Claimants : <<d, b>> \in claims \ released
        OBVIOUS
      <4>1. d \in {e[1] : e \in released}
        OBVIOUS
      <4>. QED
        BY <2>3, <4>1 DEF Deleted
    <3>. QED
      BY <1>1, <1>3, <1>4, <1>7, <2>1, <2>3, <3>1
  <2>. QED
    BY <2>2, <2>3
<1>. QED
  BY <1>6, <1>7

\* The three ways the actions use a transaction.
LEMMA ManifestWrite ==
    ASSUME TypeOK, NEW released, NEW m \in Catalog, WriteManifest(released, m)
    PROVE  /\ path' \in [Docs -> Paths \cup {NoPath}]
           /\ cut' \in [Docs -> Cuts \cup {NoCut}]
           /\ claims' \subseteq Docs \X Claimants
           /\ ContentExactlyWhileClaimed => ContentExactlyWhileClaimed'
<1> DEFINE at == [d \in DocsOf(m) |-> PathIn(m, d)]
<1>1. /\ DocsOf(m) \in SUBSET Docs
      /\ m.id \in Claimants
      /\ m.cut \in Cuts
      /\ \A d \in DocsOf(m) : at[d] \in Paths
  BY CatalogShape DEF Claimants
<1>2. Write(released, DocsOf(m), m.id, at, m.cut)
  BY DEF WriteManifest
<1> HIDE DEF at
<1>. QED
  BY <1>1, <1>2, WriteTypes, WriteContent

LEMMA ReleaseWrite ==
    ASSUME TypeOK, NEW released, Release(released)
    PROVE  /\ path' \in [Docs -> Paths \cup {NoPath}]
           /\ cut' \in [Docs -> Cuts \cup {NoCut}]
           /\ claims' \subseteq Docs \X Claimants
           /\ ContentExactlyWhileClaimed => ContentExactlyWhileClaimed'
<1> DEFINE at == [d \in {} |-> NoPath]
<1>1. Write(released, {}, User, at, UserCut)
  BY DEF Release
<1>2. User \in Claimants /\ UserCut \in Cuts /\ {} \in SUBSET Docs
  BY CutAssumption DEF Claimants
<1>3. \A d \in {} : at[d] \in Paths
  OBVIOUS
<1> HIDE DEF at
<1>. QED
  BY <1>1, <1>2, <1>3, WriteTypes, WriteContent

LEMMA UploadWrite ==
    ASSUME TypeOK, NEW i \in ingests, WriteUpload(i)
    PROVE  /\ path' \in [Docs -> Paths \cup {NoPath}]
           /\ cut' \in [Docs -> Cuts \cup {NoCut}]
           /\ claims' \subseteq Docs \X Claimants
           /\ ContentExactlyWhileClaimed => ContentExactlyWhileClaimed'
<1> DEFINE at == [d \in {i.doc} |-> i.path]
<1>1. i.doc \in Docs /\ i.path \in Paths
  BY DEF TypeOK, Upload
<1>2. User \in Claimants /\ UserCut \in Cuts
  BY CutAssumption DEF Claimants
<1>3. CASE i.doc \in Live
  <2>1. claims' = claims \cup {<<i.doc, User>>} /\ path' = path /\ cut' = cut
    BY <1>3 DEF WriteUpload
  <2>2. claims' \subseteq Docs \X Claimants
    BY <1>1, <1>2, <2>1 DEF TypeOK
  <2>3. ASSUME ContentExactlyWhileClaimed PROVE ContentExactlyWhileClaimed'
    BY <1>2, <1>3, <2>1, <2>3 DEF ContentExactlyWhileClaimed, Live
  <2>. QED
    BY <2>1, <2>2, <2>3 DEF TypeOK
<1>4. CASE i.doc \notin Live
  <2>1. Write(StaleAt(i), {i.doc}, User, at, UserCut)
    BY <1>4 DEF WriteUpload
  <2>2. \A d \in {i.doc} : at[d] \in Paths
    BY <1>1
  <2>3. {i.doc} \in SUBSET Docs
    BY <1>1
  <2> HIDE DEF at
  <2>. QED
    BY <1>2, <2>1, <2>2, <2>3, WriteTypes, WriteContent
<1>. QED
  BY <1>3, <1>4

\* Reconciliation claims only stored documents, for packs.
LEMMA ReconcileKeeps ==
    ASSUME TypeOK, Reconcile, UNCHANGED <<path, cut>>
    PROVE  /\ claims' \subseteq Docs \X Claimants
           /\ pending' \in BOOLEAN
           /\ ContentExactlyWhileClaimed => ContentExactlyWhileClaimed'
<1>1. VouchedClaims \subseteq Live \X Packs
  <2> SUFFICES ASSUME NEW e \in VouchedClaims
               PROVE  e \in Live \X Packs
    OBVIOUS
  <2>1. PICK r \in InState("active") : e \in MappedDocs(r) \X {r[1]}
    BY DEF VouchedClaims, ClaimsOfRows
  <2>2. r[1] \in Packs
    BY <2>1 DEF InState, Rows
  <2>. QED
    BY <2>1, <2>2 DEF VouchedClaims
<1>2. Live \subseteq Docs /\ Packs \subseteq Claimants
  BY DEF Live, Claimants
<1>3. claims' = claims \cup VouchedClaims
  BY DEF Reconcile
<1>4. claims' \subseteq Docs \X Claimants
  BY <1>1, <1>2, <1>3 DEF TypeOK
<1>5. ASSUME ContentExactlyWhileClaimed PROVE ContentExactlyWhileClaimed'
  <2> SUFFICES ASSUME NEW d \in Docs
               PROVE  d \in Live => ((\E a \in Claimants : <<d, a>> \in claims')
                                        <=> \E a \in Claimants : <<d, a>> \in claims)
    BY <1>1, <1>3, <1>5 DEF ContentExactlyWhileClaimed, Live
  <2>. QED
    BY <1>3, <1>5 DEF ContentExactlyWhileClaimed
<1>. QED
  BY <1>4, <1>5 DEF Reconcile

-----------------------------------------------------------------------------
(* Type correctness.                                                       *)

LEMMA ActivatedType ==
    ASSUME TypeOK, NEW out, NEW row \in Rows
    PROVE  /\ Activated(out, row) \in [Rows -> {"absent", "inactive", "active"}]
           /\ [Activated(out, row) EXCEPT ![row] = "active"]
                  \in [Rows -> {"absent", "inactive", "active"}]
<1>1. Activated(out, row) \in [Rows -> {"absent", "inactive", "active"}]
  BY DEF TypeOK, Activated
<1>. QED
  BY <1>1

LEMMA EmptyType ==
    ASSUME Empty
    PROVE  /\ path' \in [Docs -> Paths \cup {NoPath}]
           /\ cut' \in [Docs -> Cuts \cup {NoCut}]
           /\ claims' \subseteq Docs \X Claimants
           /\ status' \in [Rows -> {"absent", "inactive", "active"}]
           /\ pending' \in BOOLEAN
           /\ ContentExactlyWhileClaimed'
  BY DEF Empty, ContentExactlyWhileClaimed, Live

LEMMA InitType == Init => TypeOK /\ ContentExactlyWhileClaimed
<1> SUFFICES ASSUME Init PROVE TypeOK /\ ContentExactlyWhileClaimed
  OBVIOUS
<1>1. opens \in 1..MaxOpens /\ handle \in 0..opens /\ retrieval \in 1..opens
  BY OpensAssumption DEF Init
<1>2. TypeOK
  BY <1>1 DEF Init, TypeOK, OpType, Idle
<1>3. ContentExactlyWhileClaimed
  BY DEF Init, ContentExactlyWhileClaimed, Live
<1>. QED
  BY <1>2, <1>3

\* Every step keeps the types, and keeps content and claims together: the two
\* are proved side by side, action by action.
LEMMA StepType ==
    ASSUME TypeOK, [Next]_vars
    PROVE  /\ TypeOK'
           /\ ContentExactlyWhileClaimed => ContentExactlyWhileClaimed'
<1> DEFINE Goal == TypeOK' /\ (ContentExactlyWhileClaimed => ContentExactlyWhileClaimed')
<1> USE DEF store, disk, host
<1>0. ASSUME UNCHANGED <<path, cut, claims>>
      PROVE  ContentExactlyWhileClaimed => ContentExactlyWhileClaimed'
  BY <1>0 DEF ContentExactlyWhileClaimed, Live
<1>1. ASSUME NEW m \in Catalog, BeginInstall(m) PROVE Goal
  <2>1. <<m.id, m.version>> \in Rows
    BY CatalogShape
  <2>2. ActiveOf(m.id) \cup (m.supersedes \cap Installed) \in SUBSET Rows
    BY DEF ActiveOf, InState, Installed
  <2>3. op' \in OpType
    BY <1>1, <2>1, <2>2 DEF BeginInstall, OpType
  <2>4. managed' \in [Rows -> Catalog \cup {NoManifest}] /\ unreadable' \subseteq Rows
    BY <1>1, <2>1 DEF BeginInstall, TypeOK
  <2>. QED
    BY <1>0, <1>1, <2>3, <2>4 DEF BeginInstall, TypeOK
<1>2. ASSUME NEW m \in Catalog, StagingFails(m) PROVE Goal
  BY <1>0, <1>2, CatalogShape DEF StagingFails, TypeOK
<1>3. CASE CommitInstall
  <2>1. op.m \in Catalog /\ op.row \in Rows
    BY <1>3 DEF CommitInstall, TypeOK, OpType, Idle
  <2>2. WriteManifest(Replaced(op.drop, op.m), op.m)
    BY <1>3 DEF CommitInstall
  <2>3. status' \in [Rows -> {"absent", "inactive", "active"}]
    BY <1>3, <2>1, ActivatedType DEF CommitInstall
  <2>. QED
    BY <1>3, <2>1, <2>2, <2>3, ManifestWrite DEF CommitInstall, TypeOK, OpType
<1>4. ASSUME NEW row \in Rows, NEW out \in SUBSET Rows, NEW drop \in SUBSET Rows,
             BeginActivation(row, out, drop)
      PROVE  Goal
  <2>1. managed[row] \in Catalog
    BY <1>4 DEF BeginActivation, Readable, TypeOK
  <2>2. op' \in OpType
    BY <1>4, <2>1 DEF BeginActivation, OpType
  <2>. QED
    BY <1>0, <1>4, <2>2 DEF BeginActivation, TypeOK
<1>5. ASSUME NEW r \in Rows, BeginRollback(r) PROVE Goal
  BY <1>4, <1>5 DEF BeginRollback, ActiveOf, InState
<1>6. ASSUME NEW from \in Rows, NEW to \in Rows, BeginSupersede(from, to) PROVE Goal
  BY <1>4, <1>6 DEF BeginSupersede
<1>7. CASE CommitActivation
  <2>1. op.m \in Catalog /\ op.row \in Rows
    BY <1>7 DEF CommitActivation, TypeOK, OpType, Idle
  <2>2. WriteManifest(ClaimsOfRows(op.drop), op.m)
    BY <1>7 DEF CommitActivation
  <2>3. status' \in [Rows -> {"absent", "inactive", "active"}]
    BY <1>7, <2>1, ActivatedType DEF CommitActivation
  <2>. QED
    BY <1>7, <2>1, <2>2, <2>3, ManifestWrite DEF CommitActivation, TypeOK, OpType
<1>8. ASSUME NEW from \in Rows, NEW to \in Rows, SupersedeToActive(from, to) PROVE Goal
  <2>1. Release(ClaimsOfRows({from} \cap InState("active")))
    BY <1>8 DEF SupersedeToActive
  <2>2. status' \in [Rows -> {"absent", "inactive", "active"}]
    BY <1>8, ActivatedType DEF SupersedeToActive
  <2>. QED
    BY <1>8, <2>1, <2>2, ReleaseWrite DEF SupersedeToActive, TypeOK
<1>9. CASE FailVerb
  BY <1>0, <1>9 DEF FailVerb, TypeOK, OpType
<1>10. ASSUME NEW rows \in SUBSET Rows, Remove(rows) PROVE Goal
  <2>1. Release(ClaimsOfRows(rows))
    BY <1>10 DEF Remove
  <2>2. status' \in [Rows -> {"absent", "inactive", "active"}]
    BY <1>10 DEF Remove, TypeOK
  <2>3. managed' \in [Rows -> Catalog \cup {NoManifest}] /\ unreadable' \subseteq Rows
    BY <1>10 DEF Remove, TypeOK
  <2>. QED
    BY <1>10, <2>1, <2>2, <2>3, ReleaseWrite DEF Remove, TypeOK
<1>11. ASSUME NEW p \in Packs, RemovePack(p) PROVE Goal
  BY <1>10, <1>11 DEF RemovePack, Installed
<1>12. ASSUME NEW r \in Rows, RemoveVersion(r) PROVE Goal
  BY <1>10, <1>12 DEF RemoveVersion, Installed
<1>13. ASSUME NEW p \in Paths, NEW d \in Docs, BeginIngest(p, d) PROVE Goal
  <2>1. [path |-> p, doc |-> d, into |-> handle] \in Upload
    <3>1. handle \in 1..MaxOpens
      BY <1>13, OpensAssumption DEF BeginIngest, TypeOK
    <3>. QED
      BY <3>1 DEF Upload
  <2>. QED
    BY <1>0, <1>13, <2>1 DEF BeginIngest, TypeOK
<1>14. ASSUME NEW i \in ingests, WriteUpload(i) PROVE Goal
  BY <1>14, UploadWrite DEF WriteUpload, TypeOK
<1>15. ASSUME NEW i \in ingests, FailUpload(i) PROVE Goal
  BY <1>0, <1>15 DEF FailUpload, TypeOK
<1>16. ASSUME OpenHandle
       PROVE  /\ opens' \in 1..MaxOpens /\ handle' \in 0..opens'
              /\ retrieval \in 1..opens' /\ opens + 1 \in 1..opens'
  BY <1>16, OpensAssumption DEF OpenHandle, TypeOK
<1>17. CASE ClearCache
  <2>1. CASE OpenHandle /\ Empty
    BY <1>16, <1>17, <2>1, EmptyType DEF ClearCache, TypeOK
  <2>2. CASE OpenHandle /\ Reconcile /\ UNCHANGED <<path, cut, status>>
    BY <1>16, <1>17, <2>2, ReconcileKeeps DEF ClearCache, TypeOK
  <2>3. CASE handle' = 0 /\ UNCHANGED opens /\ Empty
    BY <1>17, <2>3, EmptyType DEF ClearCache, TypeOK
  <2>. QED
    BY <1>17, <2>1, <2>2, <2>3 DEF ClearCache
<1>18. CASE Stop
  BY <1>0, <1>18 DEF Stop, TypeOK, OpType
<1>19. CASE Start
  BY <1>16, <1>19, ReconcileKeeps DEF Start, TypeOK
<1>20. CASE ChangeReadability
  BY <1>0, <1>20 DEF ChangeReadability, TypeOK, Installed
<1>21. CASE UNCHANGED vars
  BY <1>0, <1>21 DEF vars, TypeOK
<1>. QED
  BY <1>1, <1>2, <1>3, <1>5, <1>6, <1>7, <1>8, <1>9, <1>11, <1>12, <1>13, <1>14,
     <1>15, <1>17, <1>18, <1>19, <1>20, <1>21 DEF Next

\* The tables, the directories and the host stay well typed.
THEOREM TypeInvariant == Spec => []TypeOK
<1>1. Init => TypeOK
  BY InitType
<1>2. TypeOK /\ [Next]_vars => TypeOK'
  BY StepType
<1>. QED
  BY <1>1, <1>2, PTL DEF Spec

\* In every reachable state a document is stored exactly while somebody
\* claims it, chunks included: no claim outlives its document and nothing is
\* stored for nobody, whatever verbs, uploads, Clear Cache, crashes and
\* damaged manifests did before.
THEOREM ContentInvariant == Spec => []ContentExactlyWhileClaimed
<1> DEFINE IInv == TypeOK /\ ContentExactlyWhileClaimed
<1>1. Init => IInv
  BY InitType
<1>2. IInv /\ [Next]_vars => IInv'
  BY StepType
<1>3. IInv => ContentExactlyWhileClaimed
  OBVIOUS
<1>. QED
  BY <1>1, <1>2, <1>3, PTL DEF Spec

-----------------------------------------------------------------------------
(* Whose claims a step can move.                                           *)

\* What a pack verb releases is claimed by packs, of documents.
LEMMA ReleasedByPacks ==
    ASSUME TypeOK, NEW rows \in SUBSET Rows, NEW m
    PROVE  /\ ClaimsOfRows(rows) \subseteq Docs \X Packs
           /\ Replaced(rows, m) \subseteq Docs \X Packs
<1>1. ASSUME NEW r \in rows PROVE r[1] \in Packs
  BY DEF Rows
<1>2. ASSUME NEW r \in rows, Readable(r) PROVE DocsOf(managed[r]) \subseteq Docs
  <2>1. managed[r] \in Catalog
    BY <1>2 DEF Readable, TypeOK
  <2>. QED
    BY <2>1, CatalogShape
<1>3. ClaimsOfRows(rows) \subseteq Docs \X Packs
  BY <1>1, <1>2 DEF ClaimsOfRows, MappedDocs
<1>4. Replaced(rows, m) \subseteq Docs \X Packs
  BY <1>1, <1>2 DEF Replaced, DocsOf
<1>. QED
  BY <1>3, <1>4

UserClaimsSame == \A d \in Docs : <<d, User>> \in claims' <=> <<d, User>> \in claims

PackClaimsSame ==
    \A d \in Docs, p \in Packs : <<d, p>> \in claims' <=> <<d, p>> \in claims

\* An upload that lands: the user's claims go only from older revisions.
UploadLands ==
    /\ PackClaimsSame
    /\ \E i \in ingests \ ingests' :
         \A d \in Docs : <<d, User>> \in claims \ claims' => path[d] = i.path /\ i.doc # d

LEMMA PackWriteKeepsUser ==
    ASSUME NEW released \in SUBSET (Docs \X Packs), NEW added, NEW who \in Packs,
           NEW at, NEW c, Write(released, added, who, at, c)
    PROVE  UserClaimsSame
<1>1. claims' = (claims \ released) \cup (added \X {who})
  BY DEF Write, Claimed
<1>. QED
  BY <1>1, UserAssumption DEF UserClaimsSame

LEMMA ReleaseKeepsUser ==
    ASSUME NEW released \in SUBSET (Docs \X Packs), Release(released)
    PROVE  UserClaimsSame
<1>1. claims' = (claims \ released) \cup ({} \X {User})
  BY DEF Release, Write, Claimed
<1>. QED
  BY <1>1, UserAssumption DEF UserClaimsSame

\* A step keeps the user's claims, is an upload landing, or wipes the store
\* and replaces the handle.
LEMMA StepClaims ==
    ASSUME TypeOK, [Next]_vars
    PROVE  UserClaimsSame \/ UploadLands \/ (Empty /\ handle' # handle)
<1> DEFINE Goal == UserClaimsSame \/ UploadLands \/ (Empty /\ handle' # handle)
<1> USE DEF store, disk, host
<1>0. ASSUME UNCHANGED claims PROVE UserClaimsSame
  BY <1>0 DEF UserClaimsSame
<1>1. ASSUME NEW m \in Catalog, BeginInstall(m) \/ StagingFails(m) PROVE Goal
  BY <1>0, <1>1 DEF BeginInstall, StagingFails
<1>2. CASE CommitInstall \/ CommitActivation
  <2>1. op.m \in Catalog /\ op.drop \in SUBSET Rows
    BY <1>2 DEF CommitInstall, CommitActivation, TypeOK, OpType, Idle
  <2>2. op.m.id \in Packs
    BY <2>1, CatalogShape
  <2>3. /\ ClaimsOfRows(op.drop) \in SUBSET (Docs \X Packs)
        /\ Replaced(op.drop, op.m) \in SUBSET (Docs \X Packs)
    BY <2>1, ReleasedByPacks
  <2>4. \/ WriteManifest(Replaced(op.drop, op.m), op.m)
        \/ WriteManifest(ClaimsOfRows(op.drop), op.m)
    BY <1>2 DEF CommitInstall, CommitActivation
  <2>. QED
    BY <2>2, <2>3, <2>4, PackWriteKeepsUser DEF WriteManifest
<1>3. ASSUME NEW r \in Rows, BeginRollback(r) PROVE Goal
  BY <1>0, <1>3 DEF BeginRollback, BeginActivation
<1>4. ASSUME NEW from \in Rows, NEW to \in Rows, BeginSupersede(from, to) PROVE Goal
  BY <1>0, <1>4 DEF BeginSupersede, BeginActivation
<1>5. ASSUME NEW from \in Rows, NEW to \in Rows, SupersedeToActive(from, to) PROVE Goal
  <2>1. {from} \cap InState("active") \in SUBSET Rows
    BY DEF InState
  <2>. QED
    BY <1>5, <2>1, ReleasedByPacks, ReleaseKeepsUser DEF SupersedeToActive
<1>6. ASSUME NEW rows \in SUBSET Rows, Remove(rows) PROVE Goal
  BY <1>6, ReleasedByPacks, ReleaseKeepsUser DEF Remove
<1>7. ASSUME NEW p \in Packs, RemovePack(p) PROVE Goal
  BY <1>6, <1>7 DEF RemovePack, Installed
<1>8. ASSUME NEW r \in Rows, RemoveVersion(r) PROVE Goal
  BY <1>6, <1>8 DEF RemoveVersion, Installed
<1>9. ASSUME NEW p \in Paths, NEW d \in Docs, BeginIngest(p, d) PROVE Goal
  BY <1>0, <1>9 DEF BeginIngest
<1>10. ASSUME NEW i \in ingests, WriteUpload(i) PROVE Goal
  <2>1. i \in ingests \ ingests'
    BY <1>10 DEF WriteUpload
  <2>2. CASE i.doc \in Live
    BY <1>10, <2>1, <2>2, UserAssumption DEF WriteUpload, UploadLands, PackClaimsSame
  <2>3. CASE i.doc \notin Live
    <3>1. claims' = (claims \ StaleAt(i)) \cup ({i.doc} \X {User})
      BY <1>10, <2>3 DEF WriteUpload, Write, Claimed
    <3>2. PackClaimsSame
      BY <3>1, UserAssumption DEF PackClaimsSame, StaleAt
    <3>3. \A d \in Docs : <<d, User>> \in claims \ claims' => path[d] = i.path /\ i.doc # d
      BY <3>1 DEF StaleAt
    <3>. QED
      BY <2>1, <3>2, <3>3 DEF UploadLands
  <2>. QED
    BY <2>2, <2>3
<1>11. ASSUME NEW i \in ingests, FailUpload(i) PROVE Goal
  BY <1>0, <1>11 DEF FailUpload
<1>12. CASE Reconcile
  <2>1. VouchedClaims \subseteq Docs \X Packs
    BY ReleasedByPacks DEF VouchedClaims, InState
  <2>. QED
    BY <1>12, <2>1, UserAssumption DEF Reconcile, UserClaimsSame
<1>13. CASE ClearCache
  <2>1. OpenHandle => handle' # handle
    BY OpensAssumption DEF OpenHandle, TypeOK
  <2>. QED
    BY <1>12, <1>13, <2>1 DEF ClearCache
<1>14. CASE Start
  BY <1>12, <1>14 DEF Start
<1>15. CASE FailVerb \/ Stop \/ ChangeReadability \/ UNCHANGED vars
  BY <1>0, <1>15 DEF FailVerb, Stop, ChangeReadability, vars
<1>. QED
  BY <1>1, <1>2, <1>3, <1>4, <1>5, <1>7, <1>8, <1>9, <1>10, <1>11, <1>13, <1>14, <1>15
     DEF Next

\* While the store file stays the same one, the user's claim on a document is
\* given up only to the user's own newer upload at that path: no install,
\* rollback, supersede, remove or restart ever takes it.
THEOREM UserClaimsSafe == Spec => UserClaimsKept
<1> DEFINE Kept_ == SameStore =>
             \A d \in Docs : <<d, User>> \in claims \ claims' =>
                 \E i \in ingests \ ingests' : i.path = path[d] /\ i.doc # d
<1>1. TypeOK /\ [Next]_vars => Kept_
  <2> SUFFICES ASSUME TypeOK, [Next]_vars, SameStore,
                      NEW d \in Docs, <<d, User>> \in claims \ claims'
               PROVE  \E i \in ingests \ ingests' : i.path = path[d] /\ i.doc # d
    OBVIOUS
  <2>. QED
    BY StepClaims DEF UserClaimsSame, UploadLands, SameStore
<1>2. TypeOK /\ [Next]_vars => [Kept_]_vars
  BY <1>1
<1>. QED
  BY <1>2, TypeInvariant, PTL DEF Spec, UserClaimsKept

-----------------------------------------------------------------------------
(* PackStore implements SharedContent.                                     *)

LEMMA HoldersType == Holders' \in [Docs -> SUBSET Claimants]
  BY DEF Holders

\* Content that is exactly the claimed content, one state later.
LEMMA LiveIsHeld ==
    ASSUME ContentExactlyWhileClaimed'
    PROVE  Live' = {d \in Docs : Holders'[d] # {}}
  BY DEF ContentExactlyWhileClaimed, Live, Holders

LEMMA StepRefines ==
    ASSUME TypeOK, ContentExactlyWhileClaimed, [Next]_vars
    PROVE  [Shared!SNext]_(Shared!svars)
<1>1. Live' = {d \in Docs : Holders'[d] # {}}
  BY StepType, LiveIsHeld
<1>2. Packs \subseteq Claimants /\ User \in Claimants
  BY DEF Claimants
<1>3. CASE UserClaimsSame
  <2>1. ASSUME NEW d \in Docs PROVE Holders'[d] \ Packs = Holders[d] \ Packs
    BY <1>3 DEF UserClaimsSame, Holders, Claimants
  <2>. QED
    BY <1>1, <2>1, HoldersType
       DEF Shared!SNext, Shared!Transact, Shared!Claimants, Claimants
<1>4. CASE UploadLands
  <2>1. ASSUME NEW d \in Docs PROVE Holders'[d] \ {User} = Holders[d] \ {User}
    BY <1>4, UserAssumption DEF UploadLands, PackClaimsSame, Holders, Claimants
  <2>. QED
    BY <1>1, <2>1, HoldersType
       DEF Shared!SNext, Shared!Transact, Shared!Claimants, Claimants
<1>5. CASE Empty
  <2>1. Holders' = [d \in Docs |-> {}]
    BY <1>5 DEF Empty, Holders
  <2>2. Live' = {}
    BY <1>5 DEF Empty, Live
  <2>. QED
    BY <2>1, <2>2 DEF Shared!SNext, Shared!Wipe
<1>. QED
  BY <1>3, <1>4, <1>5, StepClaims

\* The store, with its registry, queues, restarts and Clear Cache, implements
\* the reference-counted content of SharedContent: every step is one
\* transaction of the user or of packs, or a wipe, and a document is live
\* exactly while it has a holder.
THEOREM Refinement == Spec => ImplementsSharedContent
<1> DEFINE IInv == TypeOK /\ ContentExactlyWhileClaimed
<1>1. Init => Shared!SInit
  BY DEF Init, Shared!SInit, Holders, Live
<1>2. IInv /\ [Next]_vars => [Shared!SNext]_(Shared!svars)
  BY StepRefines
<1>3. Spec => []IInv
  BY TypeInvariant, ContentInvariant, PTL
<1>. QED
  BY <1>1, <1>2, <1>3, PTL DEF Spec, ImplementsSharedContent, Shared!SSpec

-----------------------------------------------------------------------------
(* One active version.                                                     *)

\* OneActive is not inductive: a verb acts on the rows it read before the
\* embedder was awaited.  It still deactivates every active row of its pack,
\* because only the wipe of Clear Cache can touch the registry meanwhile.
AwaitingVerbKnowsActives ==
    op.verb # "idle" => ActiveOf(op.row[1]) \subseteq op.out

RegistryInv == TypeOK /\ OneActive /\ AwaitingVerbKnowsActives

LEMMA RegistryUnchanged ==
    ASSUME RegistryInv, UNCHANGED <<status, op>>
    PROVE  OneActive' /\ AwaitingVerbKnowsActives'
  BY DEF RegistryInv, OneActive, AwaitingVerbKnowsActives, ActiveOf, InState

\* A registry whose active rows only disappear stays single-active.
LEMMA RegistryShrinks ==
    ASSUME RegistryInv, op' = op \/ op' = Idle, InState("active")' \subseteq InState("active")
    PROVE  OneActive' /\ AwaitingVerbKnowsActives'
<1>1. OneActive'
  BY DEF RegistryInv, OneActive
<1>2. AwaitingVerbKnowsActives'
  BY DEF RegistryInv, AwaitingVerbKnowsActives, ActiveOf, Idle
<1>. QED
  BY <1>1, <1>2

LEMMA StepRegistry ==
    ASSUME "supersede" \notin Scope, RegistryInv, [Next]_vars
    PROVE  OneActive' /\ AwaitingVerbKnowsActives'
<1> DEFINE Goal == OneActive' /\ AwaitingVerbKnowsActives'
<1> USE DEF store, disk, host
<1>0. TypeOK
  BY DEF RegistryInv
<1>1. ASSUME NEW m \in Catalog, BeginInstall(m) PROVE Goal
  <2>1. status' = status
    BY <1>1 DEF BeginInstall
  <2>2. OneActive'
    BY <2>1 DEF RegistryInv, OneActive, InState
  <2>3. op'.row[1] = m.id /\ ActiveOf(m.id) \subseteq op'.out
    BY <1>1 DEF BeginInstall
  <2>. QED
    BY <2>1, <2>2, <2>3 DEF AwaitingVerbKnowsActives, ActiveOf, InState
<1>2. ASSUME NEW m \in Catalog, StagingFails(m) PROVE Goal
  BY <1>2, RegistryUnchanged DEF StagingFails
<1>3. CASE CommitInstall \/ CommitActivation
  <2>1. op.row \in Rows /\ op.verb # "idle"
    BY <1>0, <1>3 DEF CommitInstall, CommitActivation, TypeOK, OpType, Idle
  <2>2. ASSUME NEW r \in Rows, status'[r] = "active", r # op.row
        PROVE  status[r] = "active" /\ r \notin op.out
    BY <1>0, <1>3, <2>1, <2>2 DEF CommitInstall, CommitActivation, Activated, TypeOK
  <2>3. ASSUME NEW r \in Rows, status'[r] = "active", r # op.row
        PROVE  r[1] # op.row[1]
    BY <2>1, <2>2, <2>3 DEF RegistryInv, AwaitingVerbKnowsActives, ActiveOf, InState
  <2>4. OneActive'
    BY <2>2, <2>3 DEF RegistryInv, OneActive, InState
  <2>5. op' = Idle
    BY <1>3 DEF CommitInstall, CommitActivation
  <2>. QED
    BY <2>4, <2>5 DEF AwaitingVerbKnowsActives, Idle
<1>4. ASSUME NEW r \in Rows, BeginRollback(r) PROVE Goal
  <2>1. status' = status
    BY <1>4 DEF BeginRollback, BeginActivation
  <2>2. op'.row = r /\ op'.out = ActiveOf(r[1])
    BY <1>4 DEF BeginRollback, BeginActivation
  <2>3. OneActive'
    BY <2>1 DEF RegistryInv, OneActive, InState
  <2>. QED
    BY <2>1, <2>2, <2>3 DEF AwaitingVerbKnowsActives, ActiveOf, InState
<1>5. ASSUME NEW from \in Rows, NEW to \in Rows,
             BeginSupersede(from, to) \/ SupersedeToActive(from, to)
      PROVE  Goal
  BY <1>5 DEF BeginSupersede, SupersedeToActive
<1>6. ASSUME NEW rows \in SUBSET Rows, Remove(rows) PROVE Goal
  <2>1. InState("active")' \subseteq InState("active") /\ op' = op
    BY <1>6 DEF Remove, InState
  <2>. QED
    BY <2>1, RegistryShrinks
<1>7. ASSUME NEW p \in Packs, RemovePack(p) PROVE Goal
  BY <1>6, <1>7 DEF RemovePack, Installed
<1>8. ASSUME NEW r \in Rows, RemoveVersion(r) PROVE Goal
  BY <1>6, <1>8 DEF RemoveVersion, Installed
<1>9. ASSUME NEW p \in Paths, NEW d \in Docs, BeginIngest(p, d) PROVE Goal
  BY <1>9, RegistryUnchanged DEF BeginIngest
<1>10. ASSUME NEW i \in ingests, WriteUpload(i) \/ FailUpload(i) PROVE Goal
  BY <1>10, RegistryUnchanged DEF WriteUpload, FailUpload
<1>11. CASE ClearCache
  <2>1. op' = op /\ (status' = status \/ Empty)
    BY <1>11 DEF ClearCache
  <2>2. InState("active")' \subseteq InState("active")
    BY <2>1 DEF InState, Empty
  <2>. QED
    BY <2>1, <2>2, RegistryShrinks
<1>12. CASE FailVerb \/ Stop
  <2>1. op' = Idle /\ status' = status
    BY <1>12 DEF FailVerb, Stop
  <2>2. InState("active")' \subseteq InState("active")
    BY <2>1 DEF InState
  <2>. QED
    BY <2>1, <2>2, RegistryShrinks
<1>13. CASE Start \/ ChangeReadability \/ UNCHANGED vars
  BY <1>13, RegistryUnchanged DEF Start, ChangeReadability, vars
<1>. QED
  BY <1>1, <1>2, <1>3, <1>4, <1>5, <1>7, <1>8, <1>9, <1>10, <1>11, <1>12, <1>13 DEF Next

\* Without the supersede verb, which no route calls, at most one version of a
\* pack is active, although install and rollback act on the rows they read
\* before awaiting the embedder and Clear Cache can empty the registry
\* meanwhile.
THEOREM OneActiveInvariant ==
    ASSUME "supersede" \notin Scope
    PROVE  Spec => []OneActive
<1>1. Init => RegistryInv
  BY InitType DEF RegistryInv, Init, OneActive, InState, AwaitingVerbKnowsActives, Idle
<1>2. RegistryInv /\ [Next]_vars => RegistryInv'
  BY StepType, StepRegistry DEF RegistryInv
<1>3. RegistryInv => OneActive
  BY DEF RegistryInv
<1>. QED
  BY <1>1, <1>2, <1>3, PTL DEF Spec

-----------------------------------------------------------------------------
(* A pack keeps its claims until its registry rows change.                 *)

\* Between its reads and its commit a verb's row is not active, and what it
\* is going to release is of its own pack or of a version it supersedes.
AwaitingVerbIsAhead ==
    op.verb # "idle" =>
        /\ status[op.row] # "active"
        /\ \A r \in op.drop : r[1] = op.row[1] \/ (op.verb = "install" /\ r \in op.m.supersedes)

NoPackActive ==
    InState("active") = {} /\ \A d \in Docs, p \in Packs : <<d, p>> \notin claims

\* The row of an awaiting rollback is still inactive, unless the cache was
\* cleared; then no pack is active and none claims anything.
AwaitingRollbackIsAhead ==
    op.verb = "activate" => status[op.row] = "inactive" \/ NoPackActive

VerbInv == RegistryInv /\ AwaitingVerbIsAhead /\ AwaitingRollbackIsAhead

\* The row an install may begin for is not active: OneActive and the version
\* check of an upgrade exclude it.
LEMMA InstallsBesideActives ==
    ASSUME RegistryInv, NEW m \in Catalog, MayInstall(m)
    PROVE  status[<<m.id, m.version>>] # "active"
<1> DEFINE row == <<m.id, m.version>>
<1> SUFFICES ASSUME status[row] = "active" PROVE FALSE
  OBVIOUS
<1>1. row \in Rows /\ m.version \in Nat
  BY CatalogShape, VersionsAssumption
<1>2. row \in ActiveOf(m.id)
  BY <1>1 DEF ActiveOf, InState
<1>3. \A s \in ActiveOf(m.id) : s = row
  BY <1>1, <1>2 DEF RegistryInv, OneActive, ActiveOf, InState
<1>4. m.version > row[2]
  BY <1>1, <1>2, <1>3 DEF MayInstall, Upgrades
<1>. QED
  BY <1>1, <1>4

\* An upload moves no pack's claim.
LEMMA UploadKeepsPacks ==
    ASSUME NEW i \in ingests, WriteUpload(i)
    PROVE  PackClaimsSame
<1>1. CASE i.doc \in Live
  BY <1>1, UserAssumption DEF WriteUpload, PackClaimsSame
<1>2. CASE i.doc \notin Live
  <2>1. claims' = (claims \ StaleAt(i)) \cup ({i.doc} \X {User})
    BY <1>2 DEF WriteUpload, Write, Claimed
  <2>. QED
    BY <2>1, UserAssumption DEF PackClaimsSame, StaleAt
<1>. QED
  BY <1>1, <1>2

\* What may change beside an awaiting verb: nothing of it, or the store is
\* emptied under it.
LEMMA AheadUnchanged ==
    ASSUME VerbInv, UNCHANGED <<status, op>>, PackClaimsSame
    PROVE  AwaitingVerbIsAhead' /\ AwaitingRollbackIsAhead'
  BY DEF VerbInv, AwaitingVerbIsAhead, AwaitingRollbackIsAhead, NoPackActive,
         PackClaimsSame, InState

LEMMA AheadIdle ==
    ASSUME op' = Idle
    PROVE  AwaitingVerbIsAhead' /\ AwaitingRollbackIsAhead'
  BY DEF AwaitingVerbIsAhead, AwaitingRollbackIsAhead, Idle

LEMMA StepAhead ==
    ASSUME "supersede" \notin Scope, VerbInv, [Next]_vars
    PROVE  AwaitingVerbIsAhead' /\ AwaitingRollbackIsAhead'
<1> DEFINE Goal == AwaitingVerbIsAhead' /\ AwaitingRollbackIsAhead'
<1> USE DEF store, disk, host
<1>0. RegistryInv /\ TypeOK
  BY DEF VerbInv, RegistryInv
<1>1. ASSUME NEW m \in Catalog, BeginInstall(m) PROVE Goal
  <2>1. status[<<m.id, m.version>>] # "active"
    BY <1>0, <1>1, InstallsBesideActives DEF BeginInstall
  <2>2. status' = status /\ op'.verb = "install" /\ op'.m = m
    BY <1>1 DEF BeginInstall
  <2>3. /\ op'.row = <<m.id, m.version>>
        /\ op'.drop = ActiveOf(m.id) \cup (m.supersedes \cap Installed)
    BY <1>1 DEF BeginInstall
  <2>. QED
    BY <2>1, <2>2, <2>3 DEF AwaitingVerbIsAhead, AwaitingRollbackIsAhead, ActiveOf
<1>2. ASSUME NEW m \in Catalog, StagingFails(m) PROVE Goal
  BY <1>2, AheadUnchanged DEF StagingFails, PackClaimsSame
<1>3. CASE CommitInstall \/ CommitActivation \/ FailVerb \/ Stop
  BY <1>3, AheadIdle DEF CommitInstall, CommitActivation, FailVerb, Stop
<1>4. ASSUME NEW r \in Rows, BeginRollback(r) PROVE Goal
  <2>1. status' = status /\ status[r] = "inactive"
    BY <1>4 DEF BeginRollback, BeginActivation
  <2>2. op'.row = r /\ op'.drop = ActiveOf(r[1])
    BY <1>4 DEF BeginRollback, BeginActivation
  <2>. QED
    BY <2>1, <2>2 DEF AwaitingVerbIsAhead, AwaitingRollbackIsAhead, ActiveOf
<1>5. ASSUME NEW from \in Rows, NEW to \in Rows,
             BeginSupersede(from, to) \/ SupersedeToActive(from, to)
      PROVE  Goal
  BY <1>5 DEF BeginSupersede, SupersedeToActive
<1>6. ASSUME NEW rows, Remove(rows) PROVE Goal
  BY <1>6, AheadIdle DEF Remove, MayStartVerb
<1>7. ASSUME NEW p \in Packs, RemovePack(p) PROVE Goal
  BY <1>6, <1>7 DEF RemovePack
<1>8. ASSUME NEW r \in Rows, RemoveVersion(r) PROVE Goal
  BY <1>6, <1>8 DEF RemoveVersion
<1>9. ASSUME NEW p \in Paths, NEW d \in Docs, BeginIngest(p, d) PROVE Goal
  BY <1>9, AheadUnchanged DEF BeginIngest, PackClaimsSame
<1>10. ASSUME NEW i \in ingests, WriteUpload(i) \/ FailUpload(i) PROVE Goal
  <2>1. PackClaimsSame
    BY <1>10, UploadKeepsPacks DEF FailUpload, PackClaimsSame
  <2>. QED
    BY <1>10, <2>1, AheadUnchanged DEF WriteUpload, FailUpload
<1>11. CASE ClearCache
  <2>1. op' = op
    BY <1>11 DEF ClearCache
  <2>2. CASE Empty
    <3>1. NoPackActive'
      BY <2>2 DEF Empty, NoPackActive, InState
    <3>2. op.verb # "idle" => status'[op.row] # "active"
      BY <1>0, <2>2 DEF Empty, TypeOK, OpType, Idle
    <3>. QED
      BY <2>1, <3>1, <3>2 DEF VerbInv, AwaitingVerbIsAhead, AwaitingRollbackIsAhead
  <2>3. CASE Reconcile /\ status' = status
    <3>1. InState("active") = {} => VouchedClaims = {}
      BY DEF VouchedClaims, ClaimsOfRows
    <3>2. NoPackActive => NoPackActive'
      BY <2>3, <3>1 DEF NoPackActive, InState, Reconcile
    <3>. QED
      BY <2>1, <2>3, <3>2 DEF VerbInv, AwaitingVerbIsAhead, AwaitingRollbackIsAhead
  <2>. QED
    BY <1>11, <2>2, <2>3 DEF ClearCache
<1>12. CASE Start
  BY <1>12, AheadIdle DEF Start
<1>13. CASE ChangeReadability \/ UNCHANGED vars
  BY <1>13, AheadUnchanged DEF ChangeReadability, vars, PackClaimsSame
<1>. QED
  BY <1>1, <1>2, <1>3, <1>4, <1>5, <1>7, <1>8, <1>9, <1>10, <1>11, <1>12, <1>13 DEF Next

LEMMA VerbInvariant ==
    ASSUME "supersede" \notin Scope
    PROVE  Spec => []VerbInv
<1>1. Init => VerbInv
  BY InitType DEF VerbInv, RegistryInv, Init, OneActive, InState, AwaitingVerbKnowsActives,
                  AwaitingVerbIsAhead, AwaitingRollbackIsAhead, Idle
<1>2. VerbInv /\ [Next]_vars => VerbInv'
  BY StepType, StepRegistry, StepAhead DEF VerbInv, RegistryInv
<1>. QED
  BY <1>1, <1>2, PTL DEF Spec

\* The pairs a verb releases are of packs whose rows it was given.
LEMMA ReleasedOfRows ==
    ASSUME NEW rows \in SUBSET Rows, NEW m, NEW d, NEW p,
           <<d, p>> \in ClaimsOfRows(rows) \cup Replaced(rows, m)
    PROVE  \E r \in rows : r[1] = p
<1>1. CASE <<d, p>> \in ClaimsOfRows(rows)
  BY <1>1 DEF ClaimsOfRows
<1>2. CASE <<d, p>> \in Replaced(rows, m)
  BY <1>2 DEF Replaced
<1>. QED
  BY <1>1, <1>2

\* A step that takes a claim of a pack changes one of its rows or commits an
\* install that supersedes it.
LEMMA StepKeepsPackClaims ==
    ASSUME "supersede" \notin Scope, VerbInv, [Next]_vars, SameStore,
           NEW d \in Docs, NEW p \in Packs, <<d, p>> \in claims \ claims'
    PROVE  \/ \E v \in Versions : status'[<<p, v>>] # status[<<p, v>>]
           \/ op.verb = "install" /\ \E r \in op.m.supersedes : r[1] = p
<1> DEFINE Goal == \/ \E v \in Versions : status'[<<p, v>>] # status[<<p, v>>]
                   \/ op.verb = "install" /\ \E r \in op.m.supersedes : r[1] = p
<1> USE DEF store, disk, host
<1>0. TypeOK
  BY DEF VerbInv, RegistryInv
<1>1. ASSUME NEW r \in Rows, r[1] = p, status'[r] # status[r] PROVE Goal
  <2>1. r[2] \in Versions /\ r = <<p, r[2]>>
    BY <1>1 DEF Rows
  <2>. QED
    BY <1>1, <2>1
<1>2. CASE CommitInstall
  <2>1. op.verb = "install" /\ op.row \in Rows /\ op.drop \in SUBSET Rows
    BY <1>0, <1>2 DEF CommitInstall, TypeOK, OpType, Idle
  <2>2. <<d, p>> \in Replaced(op.drop, op.m)
    BY <1>2 DEF CommitInstall, WriteManifest, Write, Claimed
  <2>3. PICK r \in op.drop : r[1] = p
    BY <2>1, <2>2, ReleasedOfRows
  <2>4. status'[op.row] = "active" /\ status[op.row] # "active"
    BY <1>0, <1>2, <2>1 DEF CommitInstall, Activated, VerbInv, AwaitingVerbIsAhead
  <2>5. r[1] = op.row[1] \/ r \in op.m.supersedes
    BY <2>1 DEF VerbInv, AwaitingVerbIsAhead
  <2>. QED
    BY <1>1, <2>1, <2>3, <2>4, <2>5
<1>3. CASE CommitActivation
  <2>1. op.verb = "activate" /\ op.row \in Rows /\ op.drop \in SUBSET Rows
    BY <1>0, <1>3 DEF CommitActivation, TypeOK, OpType, Idle
  <2>2. <<d, p>> \in ClaimsOfRows(op.drop)
    BY <1>3 DEF CommitActivation, WriteManifest, Write, Claimed
  <2>3. PICK r \in op.drop : r[1] = p
    BY <2>1, <2>2, ReleasedOfRows
  <2>4. status[op.row] = "inactive"
    BY <2>1 DEF VerbInv, AwaitingRollbackIsAhead, NoPackActive
  <2>5. status'[op.row] = "active"
    BY <1>3, <2>1, <2>4 DEF CommitActivation, Activated
  <2>6. r[1] = op.row[1]
    BY <2>1 DEF VerbInv, AwaitingVerbIsAhead
  <2>. QED
    BY <1>1, <2>1, <2>3, <2>4, <2>5, <2>6
<1>4. ASSUME NEW rows \in SUBSET Installed, Remove(rows) PROVE Goal
  <2>1. rows \in SUBSET Rows
    BY DEF Installed
  <2>2. <<d, p>> \in ClaimsOfRows(rows)
    BY <1>4 DEF Remove, Release, Write, Claimed
  <2>3. PICK r \in rows : r[1] = p
    BY <2>1, <2>2, ReleasedOfRows
  <2>4. status'[r] = "absent" /\ status[r] # "absent"
    BY <1>4, <2>1 DEF Remove, Installed
  <2>. QED
    BY <1>1, <2>1, <2>3, <2>4
<1>5. ASSUME NEW k \in Packs, RemovePack(k) PROVE Goal
  BY <1>4, <1>5 DEF RemovePack
<1>6. ASSUME NEW r \in Rows, RemoveVersion(r) PROVE Goal
  BY <1>4, <1>6 DEF RemoveVersion
<1>7. ASSUME PackClaimsSame \/ Reconcile PROVE FALSE
  BY <1>7 DEF PackClaimsSame, Reconcile
<1>8. ASSUME NEW i \in ingests, WriteUpload(i) \/ FailUpload(i) PROVE FALSE
  BY <1>7, <1>8, UploadKeepsPacks DEF FailUpload
<1>9. ~ClearCache
  <2>1. OpenHandle => handle' # handle
    BY <1>0, OpensAssumption DEF OpenHandle, TypeOK
  <2>. QED
    BY <2>1 DEF ClearCache, SameStore
<1>10. ASSUME NEW from \in Rows, NEW to \in Rows,
              BeginSupersede(from, to) \/ SupersedeToActive(from, to)
       PROVE  FALSE
  BY <1>10 DEF BeginSupersede, SupersedeToActive
<1>11. ASSUME NEW m \in Catalog, BeginInstall(m) \/ StagingFails(m) PROVE FALSE
  BY <1>11 DEF BeginInstall, StagingFails
<1>12. ASSUME NEW r \in Rows, BeginRollback(r) PROVE FALSE
  BY <1>12 DEF BeginRollback, BeginActivation
<1>13. ASSUME NEW k \in Paths, NEW e \in Docs, BeginIngest(k, e) PROVE FALSE
  BY <1>13 DEF BeginIngest
<1>14. ~FailVerb /\ ~Stop /\ ~ChangeReadability /\ vars' # vars
  BY DEF FailVerb, Stop, ChangeReadability, vars
<1>15. ~Start
  BY <1>7 DEF Start
<1>. QED
  BY <1>2, <1>3, <1>5, <1>6, <1>8, <1>9, <1>10, <1>11, <1>12, <1>13, <1>14, <1>15 DEF Next

\* While the store file stays the same one, a pack loses a claim only with a
\* change of one of its registry rows, or to an install that supersedes one of
\* its versions: no other pack's rollback or removal, no upload and no restart
\* takes it, also when manifests are damaged or the cache is cleared under an
\* awaiting verb.
THEOREM PackClaimsSafe ==
    ASSUME "supersede" \notin Scope
    PROVE  Spec => PackClaimsKept
<1> DEFINE Kept_ == SameStore =>
             \A d \in Docs, p \in Packs : <<d, p>> \in claims \ claims' =>
                 \/ \E v \in Versions : status'[<<p, v>>] # status[<<p, v>>]
                 \/ op.verb = "install" /\ \E r \in op.m.supersedes : r[1] = p
<1>1. VerbInv /\ [Next]_vars => [Kept_]_vars
  BY StepKeepsPackClaims
<1>. QED
  BY <1>1, VerbInvariant, PTL DEF Spec, PackClaimsKept

-----------------------------------------------------------------------------
(* What the pack claims stand for.                                         *)

\* A pack that supersedes another pack keeps no document of it at the same
\* path: install's delete-before-reingest goes by path, so the superseded
\* pack would keep its claim on a document that did not move.
MovesWhatItSupersedes ==
    \A m, n \in Catalog :
        <<n.id, n.version>> \in m.supersedes /\ n.id # m.id =>
            \A d \in DocsOf(n) : \E p \in DOMAIN n.docs :
                n.docs[p] = d /\ (p \notin DOMAIN m.docs \/ m.docs[p] # d)

\* A managed directory holds the manifest of its row.
DirectoriesMatch ==
    \A r \in Rows : managed[r] # NoManifest => r = <<managed[r].id, managed[r].version>>

\* A host whose reconciliation is not pending can read what is active.
ActivesAreReadable ==
    handle # 0 /\ ~pending => \A r \in InState("active") : Readable(r)

\* A verb that awaits has a host, its directory is the one it staged or read,
\* and it releases for exactly the rows it deactivates.
AwaitingVerbIsCurrent ==
    op.verb # "idle" =>
        /\ handle # 0 /\ ~pending
        /\ managed[op.row] = op.m /\ op.row \notin unreadable
        /\ op.drop = op.out
        /\ op.verb = "activate" => status[op.row] = "inactive"

ClaimsInv == /\ DirectoriesMatch
             /\ ActivesAreReadable
             /\ AwaitingVerbIsCurrent
             /\ PackClaimsAreActive

\* Directories that are not active may change beside the claims.
LEMMA StagingKeepsClaims ==
    ASSUME TypeOK, ClaimsInv, NEW row \in Rows, status[row] # "active",
           NEW m, m # NoManifest => row = <<m.id, m.version>>,
           managed' = [managed EXCEPT ![row] = m], unreadable' \subseteq unreadable,
           UNCHANGED <<claims, status, pending, handle>>
    PROVE  DirectoriesMatch' /\ ActivesAreReadable' /\ PackClaimsAreActive'
<1>1. \A r \in Rows : managed'[r] = IF r = row THEN m ELSE managed[r]
  BY DEF TypeOK
<1>2. InState("active")' = InState("active")
  BY DEF InState
<1>3. \A r \in InState("active") : r \in Rows /\ managed'[r] = managed[r]
  BY <1>1 DEF InState
<1>4. DirectoriesMatch'
  BY <1>1 DEF ClaimsInv, DirectoriesMatch
<1>5. ActivesAreReadable'
  BY <1>2, <1>3 DEF ClaimsInv, ActivesAreReadable, Readable
<1>6. PackClaimsAreActive'
  BY <1>2, <1>3 DEF ClaimsInv, PackClaimsAreActive, ActiveOf
<1>. QED
  BY <1>4, <1>5, <1>6

\* Nothing of it depends on the uploads, the surfaces or the verb that ends.
LEMMA ClaimsInvFrame ==
    ASSUME ClaimsInv, UNCHANGED <<status, pending, managed, unreadable, handle>>,
           op' = op \/ op' = Idle, PackClaimsSame
    PROVE  ClaimsInv'
<1>1. DirectoriesMatch' /\ ActivesAreReadable'
  BY DEF ClaimsInv, DirectoriesMatch, ActivesAreReadable, InState, Readable
<1>2. AwaitingVerbIsCurrent'
  BY DEF ClaimsInv, AwaitingVerbIsCurrent, Idle
<1>3. PackClaimsAreActive'
  BY DEF ClaimsInv, PackClaimsAreActive, PackClaimsSame, ActiveOf, InState
<1>. QED
  BY <1>1, <1>2, <1>3 DEF ClaimsInv

\* Both commits: what stays claimed is carried by the version that is now
\* active or by one that stays active.
LEMMA CommitKeepsClaims ==
    ASSUME TypeOK, VerbInv, ClaimsInv, op.verb # "idle",
           NEW released, WriteManifest(released, op.m), op' = Idle,
           UNCHANGED <<pending, managed, unreadable, handle>>,
           \A r \in Rows : status'[r] = IF r = op.row THEN "active"
                                        ELSE Activated(op.out, op.row)[r],
           \* what the rows that are deactivated claimed is released or kept
           \* by the incoming manifest
           \A r \in op.drop, d \in Docs :
               status[r] = "active" /\ d \in DocsOf(managed[r]) /\ Readable(r) =>
                   \/ <<d, r[1]>> \in released
                   \/ r[1] = op.m.id /\ d \in DocsOf(op.m)
    PROVE  ClaimsInv'
<1>1. /\ op.m \in Catalog /\ op.row \in Rows /\ op.m # NoManifest
      /\ op.out \in SUBSET Rows
  BY ManifestAssumption DEF TypeOK, OpType, Idle
<1>2. /\ handle # 0 /\ ~pending /\ managed[op.row] = op.m /\ op.row \notin unreadable
      /\ op.drop = op.out
  BY DEF ClaimsInv, AwaitingVerbIsCurrent
<1>3. op.row = <<op.m.id, op.m.version>>
  BY <1>1, <1>2 DEF ClaimsInv, DirectoriesMatch
<1>4. \A r \in InState("active") : Readable(r)
  BY <1>2 DEF ClaimsInv, ActivesAreReadable
<1>5. /\ status'[op.row] = "active"
      /\ managed'[op.row] # NoManifest /\ op.row \notin unreadable'
  BY <1>1, <1>2
<1>6. ASSUME NEW r \in Rows, status'[r] = "active", r # op.row
      PROVE  status[r] = "active"
  BY <1>6 DEF Activated
<1>7. ASSUME NEW r \in Rows, status[r] = "active", r \notin op.out
      PROVE  status'[r] = "active"
  BY <1>7 DEF Activated
<1>8. DirectoriesMatch'
  BY DEF ClaimsInv, DirectoriesMatch
<1>9. ActivesAreReadable'
  <2> SUFFICES ASSUME NEW r \in Rows, status'[r] = "active"
               PROVE  managed'[r] # NoManifest /\ r \notin unreadable'
    BY DEF ActivesAreReadable, InState, Readable
  <2>. QED
    BY <1>4, <1>5, <1>6 DEF InState, Readable
<1>10. AwaitingVerbIsCurrent'
  BY DEF AwaitingVerbIsCurrent, Idle
<1>11. PackClaimsAreActive'
  <2> SUFFICES ASSUME NEW d \in Docs, NEW k \in Packs, <<d, k>> \in claims'
               PROVE  \E r \in Rows : /\ status'[r] = "active" /\ r[1] = k
                                      /\ managed[r] # NoManifest /\ d \in DocsOf(managed[r])
    BY DEF PackClaimsAreActive, ActiveOf, InState
  <2>1. claims' = (claims \ released) \cup (DocsOf(op.m) \X {op.m.id})
    BY DEF WriteManifest, Write, Claimed
  <2>2. CASE k = op.m.id /\ d \in DocsOf(op.m)
    <3>1. op.row[1] = k /\ managed[op.row] # NoManifest /\ d \in DocsOf(managed[op.row])
      BY <1>1, <1>2, <1>3, <2>2
    <3>. QED
      BY <1>1, <1>5, <3>1
  <2>3. CASE ~(k = op.m.id /\ d \in DocsOf(op.m))
    <3>1. <<d, k>> \in claims /\ <<d, k>> \notin released
      BY <2>1, <2>3
    <3>2. PICK r \in ActiveOf(k) : managed[r] # NoManifest /\ d \in DocsOf(managed[r])
      BY <3>1 DEF ClaimsInv, PackClaimsAreActive
    <3>3. r \in Rows /\ r[1] = k /\ status[r] = "active" /\ Readable(r)
      BY <1>4, <3>2 DEF ActiveOf, InState
    <3>4. r \notin op.out
      BY <1>2, <2>3, <3>1, <3>2, <3>3
    <3>. QED
      BY <1>7, <3>2, <3>3, <3>4
  <2>. QED
    BY <2>2, <2>3
<1>. QED
  BY <1>8, <1>9, <1>10, <1>11 DEF ClaimsInv

LEMMA InstallKeepsClaims ==
    ASSUME MovesWhatItSupersedes, TypeOK, VerbInv, ClaimsInv, CommitInstall
    PROVE  ClaimsInv'
<1> DEFINE released == Replaced(op.drop, op.m)
<1>1. op.verb = "install" /\ op.row \in Rows /\ op.m \in Catalog /\ op.drop \in SUBSET Rows
  BY DEF CommitInstall, TypeOK, OpType, Idle
<1>2. op.row = <<op.m.id, op.m.version>>
  BY <1>1, ManifestAssumption DEF ClaimsInv, DirectoriesMatch, AwaitingVerbIsCurrent
<1>3. \A r \in Rows : status'[r] = IF r = op.row THEN "active"
                                   ELSE Activated(op.out, op.row)[r]
  BY <1>1 DEF CommitInstall, Activated
<1>4. ASSUME NEW r \in op.drop, NEW d \in Docs, d \in DocsOf(managed[r]), Readable(r)
      PROVE  \/ <<d, r[1]>> \in released
             \/ r[1] = op.m.id /\ d \in DocsOf(op.m)
  <2> DEFINE n == managed[r]
             Gone(p) == n.docs[p] = d /\ (p \notin DOMAIN op.m.docs \/ op.m.docs[p] # d)
  <2>1. r \in Rows /\ n \in Catalog /\ r = <<n.id, n.version>>
    BY <1>1, <1>4 DEF Readable, TypeOK, ClaimsInv, DirectoriesMatch
  <2>2. ASSUME NEW p \in DOMAIN n.docs, Gone(p) PROVE <<d, r[1]>> \in released
    BY <1>4, <2>2 DEF Replaced
  <2>3. CASE r[1] = op.m.id
    <3>1. PICK p \in DOMAIN n.docs : n.docs[p] = d
      BY <1>4 DEF DocsOf
    <3>2. CASE Gone(p)
      BY <2>2, <3>2
    <3>3. CASE ~Gone(p)
      BY <2>3, <3>1, <3>3 DEF DocsOf
    <3>. QED
      BY <3>2, <3>3
  <2>4. CASE r[1] # op.m.id
    <3>1. r \in op.m.supersedes
      BY <1>1, <1>2, <2>4 DEF VerbInv, AwaitingVerbIsAhead
    <3>2. PICK p \in DOMAIN n.docs : Gone(p)
      BY <1>1, <1>4, <2>1, <2>4, <3>1 DEF MovesWhatItSupersedes
    <3>. QED
      BY <2>2, <3>2
  <2>. QED
    BY <2>3, <2>4
<1>5. WriteManifest(released, op.m) /\ op' = Idle
  BY DEF CommitInstall
<1>6. UNCHANGED <<pending, managed, unreadable, handle>>
  BY DEF CommitInstall, disk, host
<1> HIDE DEF released
<1>. QED
  BY <1>1, <1>3, <1>4, <1>5, <1>6, CommitKeepsClaims

LEMMA RollbackKeepsClaims ==
    ASSUME TypeOK, VerbInv, ClaimsInv, CommitActivation
    PROVE  ClaimsInv'
<1>1. op.verb = "activate" /\ op.row \in Rows /\ op.drop \in SUBSET Rows
  BY DEF CommitActivation, TypeOK, OpType, Idle
<1>2. status[op.row] = "inactive"
  BY <1>1 DEF ClaimsInv, AwaitingVerbIsCurrent
<1>3. \A r \in Rows : status'[r] = IF r = op.row THEN "active"
                                   ELSE Activated(op.out, op.row)[r]
  BY <1>1, <1>2 DEF CommitActivation, Activated
<1>4. ASSUME NEW r \in op.drop, NEW d \in Docs, d \in DocsOf(managed[r]), Readable(r)
      PROVE  <<d, r[1]>> \in ClaimsOfRows(op.drop)
  BY <1>4 DEF ClaimsOfRows, MappedDocs
<1>5. WriteManifest(ClaimsOfRows(op.drop), op.m) /\ op' = Idle
  BY DEF CommitActivation
<1>6. UNCHANGED <<pending, managed, unreadable, handle>>
  BY DEF CommitActivation, disk, host
<1>. QED
  BY <1>1, <1>3, <1>4, <1>5, <1>6, CommitKeepsClaims

LEMMA RemoveKeepsClaims ==
    ASSUME TypeOK, ClaimsInv, NEW rows \in SUBSET Rows, Remove(rows)
    PROVE  ClaimsInv'
<1>1. op.verb = "idle" /\ op' = op /\ handle # 0 /\ ~pending
  BY DEF Remove, MayStartVerb, Idle
<1>2. PICK gone \in SUBSET rows :
         /\ managed' = [r \in Rows |-> IF r \in gone THEN NoManifest ELSE managed[r]]
         /\ unreadable' = unreadable \ gone
  BY DEF Remove
<1>3. \A r \in Rows : status'[r] = IF r \in rows THEN "absent" ELSE status[r]
  BY DEF Remove
<1>4. \A r \in InState("active") : Readable(r)
  BY <1>1 DEF ClaimsInv, ActivesAreReadable
<1>5. DirectoriesMatch'
  BY <1>2 DEF ClaimsInv, DirectoriesMatch
<1>6. ActivesAreReadable'
  BY <1>2, <1>3, <1>4 DEF ActivesAreReadable, InState, Readable
<1>7. AwaitingVerbIsCurrent'
  BY <1>1 DEF AwaitingVerbIsCurrent
<1>8. PackClaimsAreActive'
  <2> SUFFICES ASSUME NEW d \in Docs, NEW k \in Packs, <<d, k>> \in claims'
               PROVE  \E r \in Rows : /\ status'[r] = "active" /\ r[1] = k
                                      /\ managed'[r] # NoManifest /\ d \in DocsOf(managed'[r])
    BY DEF PackClaimsAreActive, ActiveOf, InState
  <2>1. <<d, k>> \in claims /\ <<d, k>> \notin ClaimsOfRows(rows)
    BY DEF Remove, Release, Write, Claimed
  <2>2. PICK r \in ActiveOf(k) : managed[r] # NoManifest /\ d \in DocsOf(managed[r])
    BY <2>1 DEF ClaimsInv, PackClaimsAreActive
  <2>3. r \in Rows /\ r[1] = k /\ status[r] = "active" /\ Readable(r)
    BY <1>4, <2>2 DEF ActiveOf, InState
  <2>4. r \notin rows
    BY <2>1, <2>2, <2>3 DEF ClaimsOfRows, MappedDocs
  <2>. QED
    BY <1>2, <1>3, <2>2, <2>3, <2>4
<1>. QED
  BY <1>5, <1>6, <1>7, <1>8 DEF ClaimsInv

LEMMA StepClaimsInv ==
    ASSUME Scope \subseteq {"damage", "remove_version"}, MovesWhatItSupersedes,
           VerbInv, ClaimsInv, [Next]_vars
    PROVE  ClaimsInv'
<1> USE DEF store, disk, host
<1>0. TypeOK /\ RegistryInv
  BY DEF VerbInv, RegistryInv
<1>1. ASSUME NEW m \in Catalog, BeginInstall(m) PROVE ClaimsInv'
  <2> DEFINE row == <<m.id, m.version>>
  <2>1. status[row] # "active"
    BY <1>0, <1>1, InstallsBesideActives DEF BeginInstall
  <2>2. row \in Rows
    BY CatalogShape
  <2>3. managed' = [managed EXCEPT ![row] = m] /\ unreadable' = unreadable \ {row}
    BY <1>1 DEF BeginInstall
  <2>4. UNCHANGED <<claims, status, pending, handle>> /\ handle # 0 /\ ~pending
    BY <1>1 DEF BeginInstall, MayInstall, MayStartVerb
  <2>5. op'.verb = "install" /\ op'.row = row /\ op'.m = m /\ op'.drop = op'.out
    BY <1>1 DEF BeginInstall
  <2> HIDE DEF row
  <2>6. managed'[row] = m
    BY <1>0, <2>2, <2>3 DEF TypeOK
  <2>7. DirectoriesMatch' /\ ActivesAreReadable' /\ PackClaimsAreActive'
    BY <1>0, <2>1, <2>2, <2>3, <2>4, StagingKeepsClaims DEF row
  <2>8. AwaitingVerbIsCurrent'
    BY <2>3, <2>4, <2>5, <2>6 DEF AwaitingVerbIsCurrent
  <2>. QED
    BY <2>7, <2>8 DEF ClaimsInv
<1>2. ASSUME NEW m \in Catalog, StagingFails(m) PROVE ClaimsInv'
  <2> DEFINE row == <<m.id, m.version>>
  <2>1. status[row] # "active"
    BY <1>0, <1>2, InstallsBesideActives DEF StagingFails
  <2>2. row \in Rows
    BY CatalogShape
  <2>3. managed' = [managed EXCEPT ![row] = NoManifest] /\ unreadable' = unreadable
    BY <1>2 DEF StagingFails
  <2>4. UNCHANGED <<claims, status, pending, handle>> /\ op' = op /\ op = Idle
    BY <1>2 DEF StagingFails, MayInstall, MayStartVerb
  <2> HIDE DEF row
  <2>5. DirectoriesMatch' /\ ActivesAreReadable' /\ PackClaimsAreActive'
    BY <1>0, <2>1, <2>2, <2>3, <2>4, StagingKeepsClaims
  <2>6. AwaitingVerbIsCurrent'
    BY <2>4 DEF AwaitingVerbIsCurrent, Idle
  <2>. QED
    BY <2>5, <2>6 DEF ClaimsInv
<1>3. CASE CommitInstall
  BY <1>0, <1>3, InstallKeepsClaims
<1>4. CASE CommitActivation
  BY <1>0, <1>4, RollbackKeepsClaims
<1>5. ASSUME NEW r \in Rows, BeginRollback(r) PROVE ClaimsInv'
  <2>1. handle # 0 /\ ~pending /\ status[r] = "inactive" /\ Readable(r)
    BY <1>5 DEF BeginRollback, BeginActivation, MayStartVerb
  <2>2. UNCHANGED <<claims, status, pending, managed, unreadable, handle>>
    BY <1>5 DEF BeginRollback, BeginActivation
  <2>3. op'.row = r /\ op'.m = managed[r] /\ op'.drop = op'.out
    BY <1>5 DEF BeginRollback, BeginActivation
  <2>4. AwaitingVerbIsCurrent'
    BY <2>1, <2>2, <2>3 DEF AwaitingVerbIsCurrent, Readable
  <2>5. DirectoriesMatch' /\ ActivesAreReadable' /\ PackClaimsAreActive'
    BY <2>2 DEF ClaimsInv, DirectoriesMatch, ActivesAreReadable, PackClaimsAreActive,
                ActiveOf, InState, Readable
  <2>. QED
    BY <2>4, <2>5 DEF ClaimsInv
<1>6. ASSUME NEW from \in Rows, NEW to \in Rows,
             BeginSupersede(from, to) \/ SupersedeToActive(from, to)
      PROVE  FALSE
  BY <1>6 DEF BeginSupersede, SupersedeToActive
<1>7. ASSUME NEW p \in Packs, RemovePack(p) PROVE ClaimsInv'
  BY <1>0, <1>7, RemoveKeepsClaims DEF RemovePack, Installed
<1>8. ASSUME NEW r \in Rows, RemoveVersion(r) PROVE ClaimsInv'
  BY <1>0, <1>8, RemoveKeepsClaims DEF RemoveVersion, Installed
<1>9. ASSUME NEW p \in Paths, NEW d \in Docs, BeginIngest(p, d) PROVE ClaimsInv'
  BY <1>9, ClaimsInvFrame DEF BeginIngest, PackClaimsSame
<1>10. ASSUME NEW i \in ingests, WriteUpload(i) PROVE ClaimsInv'
  BY <1>10, UploadKeepsPacks, ClaimsInvFrame DEF WriteUpload
<1>11. ASSUME NEW i \in ingests, FailUpload(i) PROVE ClaimsInv'
  BY <1>11, ClaimsInvFrame DEF FailUpload, PackClaimsSame
<1>12. ~ClearCache
  BY DEF ClearCache
<1>13. CASE FailVerb \/ UNCHANGED vars
  BY <1>13, ClaimsInvFrame DEF FailVerb, vars, PackClaimsSame
<1>14. CASE Stop
  <2>1. UNCHANGED <<claims, status, pending, managed, unreadable>> /\ handle' = 0 /\ op' = Idle
    BY <1>14 DEF Stop
  <2>. QED
    BY <2>1 DEF ClaimsInv, DirectoriesMatch, ActivesAreReadable, AwaitingVerbIsCurrent,
                PackClaimsAreActive, ActiveOf, InState, Idle
<1>15. CASE Start
  <2>1. /\ UNCHANGED <<status, managed, unreadable>> /\ op' = Idle
        /\ claims' = claims \cup VouchedClaims
        /\ pending' = (\E r \in InState("active") : ~Readable(r))
    BY <1>15 DEF Start, Reconcile
  <2>2. ActivesAreReadable'
    BY <2>1 DEF ActivesAreReadable, InState, Readable
  <2>3. PackClaimsAreActive'
    <3> SUFFICES ASSUME NEW d \in Docs, NEW k \in Packs, <<d, k>> \in claims'
                 PROVE  \E r \in ActiveOf(k) : managed[r] # NoManifest /\ d \in DocsOf(managed[r])
      BY <2>1 DEF PackClaimsAreActive, ActiveOf, InState
    <3>1. CASE <<d, k>> \in claims
      BY <3>1 DEF ClaimsInv, PackClaimsAreActive
    <3>2. CASE <<d, k>> \in VouchedClaims
      <4>1. PICK r \in InState("active") : <<d, k>> \in MappedDocs(r) \X {r[1]}
        BY <3>2 DEF VouchedClaims, ClaimsOfRows
      <4>2. r \in ActiveOf(k) /\ Readable(r) /\ d \in DocsOf(managed[r])
        BY <4>1 DEF ActiveOf, MappedDocs
      <4>. QED
        BY <4>2 DEF Readable
    <3>. QED
      BY <2>1, <3>1, <3>2
  <2>. QED
    BY <2>1, <2>2, <2>3 DEF ClaimsInv, DirectoriesMatch, AwaitingVerbIsCurrent, Idle
<1>16. CASE ChangeReadability
  <2>1. handle = 0
    BY <1>16 DEF ChangeReadability
  <2>2. UNCHANGED <<claims, status, pending, managed, handle, op>>
    BY <1>16 DEF ChangeReadability
  <2>3. op.verb = "idle"
    BY <2>1 DEF ClaimsInv, AwaitingVerbIsCurrent
  <2>. QED
    BY <2>1, <2>2, <2>3 DEF ClaimsInv, DirectoriesMatch, ActivesAreReadable,
       AwaitingVerbIsCurrent, PackClaimsAreActive, ActiveOf, InState
<1>. QED
  BY <1>1, <1>2, <1>3, <1>4, <1>5, <1>6, <1>7, <1>8, <1>9, <1>10, <1>11, <1>12, <1>13,
     <1>14, <1>15, <1>16 DEF Next

\* No pack holds a document for a version that was deactivated, replaced or
\* removed: what a pack claims is carried by its active version, whatever
\* installs, upgrades, rollbacks, removals, failed verbs, uploads and
\* restarts came before, and although manifests are damaged while the host is
\* down.  Section 4 of the README has what happens outside the assumptions.
THEOREM PackClaimsInvariant ==
    ASSUME Scope \subseteq {"damage", "remove_version"}, MovesWhatItSupersedes
    PROVE  Spec => []PackClaimsAreActive
<1>1. Init => ClaimsInv
  BY DEF Init, ClaimsInv, DirectoriesMatch, ActivesAreReadable, AwaitingVerbIsCurrent,
         PackClaimsAreActive, InState, Idle
<1>2. VerbInv /\ ClaimsInv /\ [Next]_vars => ClaimsInv'
  BY StepClaimsInv
<1>3. Spec => []VerbInv
  BY VerbInvariant
<1>4. ClaimsInv => PackClaimsAreActive
  BY DEF ClaimsInv
<1>. QED
  BY <1>1, <1>2, <1>3, <1>4, PTL DEF Spec

\* What the user ingested can be found: the document is stored, and a pack
\* that claims it too has an active version, so the retrieval's filter keeps
\* its chunks.
THEOREM UserDocsFound ==
    ASSUME Scope \subseteq {"damage", "remove_version"}, MovesWhatItSupersedes
    PROVE  Spec => []UserDocsRetrievable
<1>1. ContentExactlyWhileClaimed /\ PackClaimsAreActive => UserDocsRetrievable
  BY DEF ContentExactlyWhileClaimed, PackClaimsAreActive, UserDocsRetrievable, Retrievable,
         Claimants
<1>. QED
  BY <1>1, ContentInvariant, PackClaimsInvariant, PTL

-----------------------------------------------------------------------------
(* What an active version carries.                                         *)

\* Who supersedes a version of another pack supersedes all of that pack: the
\* release goes by pack and path, so superseding an inactive version alone
\* takes content from the active one.
SupersedesWholePacks ==
    \A m, n \in Catalog : \A r \in m.supersedes :
        r[1] = n.id /\ n.id # m.id => <<n.id, n.version>> \in m.supersedes

\* A verb's directory is the one it staged or read, also when the cache is
\* cleared under it, and every active version it supersedes goes out.
AwaitingVerbIsStaged ==
    op.verb # "idle" =>
        /\ managed[op.row] = op.m
        /\ op.verb = "install" => op.m.supersedes \cap InState("active") \subseteq op.out

ActiveContentClaimed ==
    \A r \in InState("active") :
        managed[r] # NoManifest => \A d \in DocsOf(managed[r]) : <<d, r[1]>> \in claims

CarriedInv == DirectoriesMatch /\ AwaitingVerbIsStaged /\ ActiveContentClaimed

\* A step that only adds claims of packs, or leaves them, keeps it.
LEMMA CarriedFrame ==
    ASSUME TypeOK, CarriedInv, UNCHANGED <<status, managed>>, op' = op \/ op' = Idle,
           \A d \in Docs, p \in Packs : <<d, p>> \in claims => <<d, p>> \in claims'
    PROVE  CarriedInv'
<1>1. DirectoriesMatch'
  BY DEF CarriedInv, DirectoriesMatch
<1>2. AwaitingVerbIsStaged'
  BY DEF CarriedInv, AwaitingVerbIsStaged, InState, Idle
<1>3. ASSUME NEW r \in InState("active"), managed[r] # NoManifest
      PROVE  r[1] \in Packs /\ DocsOf(managed[r]) \subseteq Docs
  <2>1. r \in Rows
    BY DEF InState
  <2>2. managed[r] \in Catalog
    BY <1>3, <2>1 DEF TypeOK
  <2>. QED
    BY <2>1, <2>2, CatalogShape DEF Rows
<1>4. ActiveContentClaimed'
  BY <1>3 DEF CarriedInv, ActiveContentClaimed, InState
<1>. QED
  BY <1>1, <1>2, <1>4 DEF CarriedInv

\* Staging touches no active row's directory.
LEMMA CarriedStaging ==
    ASSUME TypeOK, CarriedInv, NEW row \in Rows, status[row] # "active",
           NEW m, m # NoManifest => row = <<m.id, m.version>>,
           managed' = [managed EXCEPT ![row] = m], UNCHANGED <<claims, status>>
    PROVE  DirectoriesMatch' /\ ActiveContentClaimed'
<1>1. \A r \in Rows : managed'[r] = IF r = row THEN m ELSE managed[r]
  BY DEF TypeOK
<1>2. DirectoriesMatch'
  BY <1>1 DEF CarriedInv, DirectoriesMatch
<1>3. ActiveContentClaimed'
  BY <1>1 DEF CarriedInv, ActiveContentClaimed, InState
<1>. QED
  BY <1>2, <1>3

\* Both commits: a version that stays active belongs to a pack nothing is
\* released for.
LEMMA CommitCarries ==
    ASSUME SupersedesWholePacks, VerbInv, CarriedInv, CommitInstall \/ CommitActivation
    PROVE  CarriedInv'
<1>0. TypeOK /\ RegistryInv
  BY DEF VerbInv, RegistryInv
<1>1. /\ op.verb \in {"install", "activate"} /\ op.row \in Rows /\ op.m \in Catalog
      /\ op.m # NoManifest /\ op.drop \in SUBSET Rows
  BY <1>0, ManifestAssumption DEF CommitInstall, CommitActivation, TypeOK, OpType, Idle
<1>2. managed[op.row] = op.m /\ op.row = <<op.m.id, op.m.version>>
  BY <1>1 DEF CarriedInv, AwaitingVerbIsStaged, DirectoriesMatch
<1>3. op' = Idle /\ managed' = managed
  BY DEF CommitInstall, CommitActivation, disk
<1> DEFINE released == IF op.verb = "install" THEN Replaced(op.drop, op.m)
                       ELSE ClaimsOfRows(op.drop)
<1>4. claims' = (claims \ released) \cup (DocsOf(op.m) \X {op.m.id})
  BY DEF CommitInstall, CommitActivation, WriteManifest, Write, Claimed
<1>5. ASSUME NEW d, NEW k, <<d, k>> \in released PROVE \E r \in op.drop : r[1] = k
  <2>1. <<d, k>> \in ClaimsOfRows(op.drop) \cup Replaced(op.drop, op.m)
    BY <1>5
  <2>. QED
    BY <1>1, <2>1, ReleasedOfRows
<1> HIDE DEF released
<1>6. ASSUME NEW r \in Rows, status'[r] = "active", r # op.row
      PROVE  status[r] = "active" /\ r \notin op.out
  BY <1>1, <1>6 DEF CommitInstall, CommitActivation, Activated
<1>7. DirectoriesMatch' /\ AwaitingVerbIsStaged'
  BY <1>3 DEF CarriedInv, DirectoriesMatch, AwaitingVerbIsStaged, Idle
<1>8. ActiveContentClaimed'
  <2> SUFFICES ASSUME NEW r \in Rows, status'[r] = "active", managed[r] # NoManifest,
                      NEW d \in DocsOf(managed[r])
               PROVE  <<d, r[1]>> \in claims'
    BY <1>3 DEF ActiveContentClaimed, InState
  <2>1. CASE r = op.row
    BY <1>2, <1>4, <2>1
  <2>2. CASE r # op.row
    <3>1. status[r] = "active" /\ r \notin op.out
      BY <1>6, <2>2
    <3>2. <<d, r[1]>> \in claims
      BY <3>1 DEF CarriedInv, ActiveContentClaimed, InState
    <3>3. r[1] # op.row[1]
      BY <1>1, <3>1 DEF VerbInv, RegistryInv, AwaitingVerbKnowsActives, ActiveOf, InState
    <3>4. managed[r] \in Catalog /\ r = <<managed[r].id, managed[r].version>>
      BY <1>0 DEF TypeOK, CarriedInv, DirectoriesMatch
    <3>5. ASSUME NEW s \in op.drop, s[1] = r[1] PROVE FALSE
      <4>1. op.verb = "install" /\ s \in op.m.supersedes
        BY <1>1, <3>3, <3>5 DEF VerbInv, AwaitingVerbIsAhead
      <4>2. r \in op.m.supersedes
        BY <1>1, <1>2, <3>3, <3>4, <3>5, <4>1 DEF SupersedesWholePacks
      <4>. QED
        BY <3>1, <4>1, <4>2 DEF CarriedInv, AwaitingVerbIsStaged, InState
    <3>. QED
      BY <1>4, <1>5, <3>2, <3>5
  <2>. QED
    BY <2>1, <2>2
<1>. QED
  BY <1>7, <1>8 DEF CarriedInv

LEMMA StepCarries ==
    ASSUME "supersede" \notin Scope, "remove_version" \notin Scope, SupersedesWholePacks,
           VerbInv, CarriedInv, [Next]_vars
    PROVE  CarriedInv'
<1> USE DEF store, disk, host
<1>0. TypeOK /\ RegistryInv
  BY DEF VerbInv, RegistryInv
<1>1. ASSUME NEW m \in Catalog, BeginInstall(m) PROVE CarriedInv'
  <2> DEFINE row == <<m.id, m.version>>
  <2>1. status[row] # "active" /\ row \in Rows
    BY <1>0, <1>1, InstallsBesideActives, CatalogShape DEF BeginInstall
  <2>2. managed' = [managed EXCEPT ![row] = m] /\ UNCHANGED <<claims, status>>
    BY <1>1 DEF BeginInstall
  <2>3. /\ op'.row = row /\ op'.m = m
        /\ op'.out = ActiveOf(m.id) \cup (m.supersedes \cap Installed)
    BY <1>1 DEF BeginInstall
  <2> HIDE DEF row
  <2>4. managed'[row] = m
    BY <1>0, <2>1, <2>2 DEF TypeOK
  <2>5. m.supersedes \cap InState("active")' \subseteq op'.out
    BY <2>2, <2>3 DEF InState, Installed
  <2>6. AwaitingVerbIsStaged'
    BY <2>3, <2>4, <2>5 DEF AwaitingVerbIsStaged
  <2>7. DirectoriesMatch' /\ ActiveContentClaimed'
    BY <1>0, <2>1, <2>2, CarriedStaging DEF row
  <2>. QED
    BY <2>6, <2>7 DEF CarriedInv
<1>2. ASSUME NEW m \in Catalog, StagingFails(m) PROVE CarriedInv'
  <2> DEFINE row == <<m.id, m.version>>
  <2>1. status[row] # "active" /\ row \in Rows
    BY <1>0, <1>2, InstallsBesideActives, CatalogShape DEF StagingFails
  <2>2. managed' = [managed EXCEPT ![row] = NoManifest] /\ UNCHANGED <<claims, status>>
    BY <1>2 DEF StagingFails
  <2>3. op' = Idle
    BY <1>2 DEF StagingFails, MayInstall, MayStartVerb
  <2> HIDE DEF row
  <2>4. DirectoriesMatch' /\ ActiveContentClaimed'
    BY <1>0, <2>1, <2>2, CarriedStaging
  <2>. QED
    BY <2>3, <2>4 DEF CarriedInv, AwaitingVerbIsStaged, Idle
<1>3. CASE CommitInstall \/ CommitActivation
  BY <1>3, CommitCarries
<1>4. ASSUME NEW r \in Rows, BeginRollback(r) PROVE CarriedInv'
  <2>1. UNCHANGED <<claims, status, managed>>
    BY <1>4 DEF BeginRollback, BeginActivation
  <2>2. op'.verb = "activate" /\ op'.row = r /\ op'.m = managed[r]
    BY <1>4 DEF BeginRollback, BeginActivation
  <2>3. AwaitingVerbIsStaged'
    BY <2>1, <2>2 DEF AwaitingVerbIsStaged
  <2>. QED
    BY <2>1, <2>3 DEF CarriedInv, DirectoriesMatch, ActiveContentClaimed, InState
<1>5. ASSUME NEW from \in Rows, NEW to \in Rows,
             BeginSupersede(from, to) \/ SupersedeToActive(from, to)
      PROVE  FALSE
  BY <1>5 DEF BeginSupersede, SupersedeToActive
<1>6. ASSUME NEW r \in Rows PROVE ~RemoveVersion(r)
  BY DEF RemoveVersion
<1>7. ASSUME NEW p \in Packs, RemovePack(p) PROVE CarriedInv'
  <2> DEFINE rows == {r \in Installed : r[1] = p}
  <2>1. Remove(rows)
    BY <1>7 DEF RemovePack
  <2>2. rows \in SUBSET Rows
    BY DEF Installed
  <2>3. PICK gone \in SUBSET rows :
           managed' = [r \in Rows |-> IF r \in gone THEN NoManifest ELSE managed[r]]
    BY <2>1 DEF Remove
  <2>4. \A r \in Rows : status'[r] = "active" => status[r] = "active" /\ r \notin rows
    BY <2>1 DEF Remove
  <2>5. op' = Idle
    BY <2>1 DEF Remove, MayStartVerb
  <2>6. \A c \in claims : c \notin ClaimsOfRows(rows) => c \in claims'
    BY <2>1 DEF Remove, Release, Write, Claimed
  <2>7. DirectoriesMatch'
    BY <2>3 DEF CarriedInv, DirectoriesMatch
  <2>8. ActiveContentClaimed'
    <3> SUFFICES ASSUME NEW r \in Rows, status'[r] = "active", managed'[r] # NoManifest,
                        NEW d \in DocsOf(managed'[r])
                 PROVE  <<d, r[1]>> \in claims'
      BY DEF ActiveContentClaimed, InState
    <3>1. managed'[r] = managed[r]
      BY <2>3
    <3>2. <<d, r[1]>> \in claims
      BY <2>4, <3>1 DEF CarriedInv, ActiveContentClaimed, InState
    <3>3. r[1] # p
      BY <2>4 DEF Installed
    <3>4. <<d, r[1]>> \notin ClaimsOfRows(rows)
      <4> HIDE DEF rows
      <4>1. \A s \in rows : s[1] = p
        BY DEF rows
      <4>2. <<d, r[1]>> \notin ClaimsOfRows(rows) \cup Replaced(rows, NoManifest)
                \/ \E s \in rows : s[1] = r[1]
        BY <2>2, ReleasedOfRows
      <4>. QED
        BY <3>3, <4>1, <4>2
    <3>. QED
      BY <2>6, <3>2, <3>4
  <2>. QED
    BY <2>5, <2>7, <2>8 DEF CarriedInv, AwaitingVerbIsStaged, Idle
<1>8. ASSUME NEW p \in Paths, NEW d \in Docs, BeginIngest(p, d) PROVE CarriedInv'
  BY <1>0, <1>8, CarriedFrame DEF BeginIngest
<1>9. ASSUME NEW i \in ingests, WriteUpload(i) PROVE CarriedInv'
  <2>1. PackClaimsSame /\ UNCHANGED <<status, managed, op>>
    BY <1>9, UploadKeepsPacks DEF WriteUpload
  <2>. QED
    BY <1>0, <2>1, CarriedFrame DEF PackClaimsSame
<1>10. ASSUME NEW i \in ingests, FailUpload(i) PROVE CarriedInv'
  BY <1>0, <1>10, CarriedFrame DEF FailUpload
<1>11. CASE ClearCache
  <2>1. UNCHANGED <<managed, op>>
    BY <1>11 DEF ClearCache
  <2>2. CASE Empty
    <3>1. InState("active")' = {}
      BY <2>2 DEF Empty, InState
    <3>. QED
      BY <2>1, <3>1 DEF CarriedInv, DirectoriesMatch, AwaitingVerbIsStaged,
                        ActiveContentClaimed
  <2>3. CASE Reconcile /\ status' = status
    BY <1>0, <2>1, <2>3, CarriedFrame DEF Reconcile
  <2>. QED
    BY <1>11, <2>2, <2>3 DEF ClearCache
<1>12. CASE FailVerb \/ Stop \/ ChangeReadability \/ UNCHANGED vars
  BY <1>0, <1>12, CarriedFrame DEF FailVerb, Stop, ChangeReadability, vars
<1>13. CASE Start
  <2>1. UNCHANGED <<status, managed, op>> /\ Reconcile
    BY <1>13 DEF Start
  <2>. QED
    BY <1>0, <2>1, CarriedFrame DEF Reconcile
<1>. QED
  BY <1>1, <1>2, <1>3, <1>4, <1>5, <1>6, <1>7, <1>8, <1>9, <1>10, <1>11, <1>12, <1>13 DEF Next

\* Everything an active version carries is stored and claimed by its pack, so
\* no other pack's removal and no upload deletes it, also when manifests are
\* damaged at any time and Clear Cache runs beside a verb.  It is what the
\* removal of a single version breaks, and a superseded inactive version of
\* another pack (README, section 4).
THEOREM ActiveContentInvariant ==
    ASSUME "supersede" \notin Scope, "remove_version" \notin Scope, SupersedesWholePacks
    PROVE  Spec => []ActiveContentLive
<1>1. Init => CarriedInv
  BY DEF Init, CarriedInv, DirectoriesMatch, AwaitingVerbIsStaged, ActiveContentClaimed,
         InState, Idle
<1>2. VerbInv /\ CarriedInv /\ [Next]_vars => CarriedInv'
  BY StepCarries
<1>3. TypeOK /\ ContentExactlyWhileClaimed /\ CarriedInv => ActiveContentLive
  <2> SUFFICES ASSUME TypeOK, ContentExactlyWhileClaimed, CarriedInv,
                      NEW r \in InState("active"), managed[r] # NoManifest,
                      NEW d \in DocsOf(managed[r])
               PROVE  d \in Live /\ <<d, r[1]>> \in claims
    BY DEF ActiveContentLive
  <2>1. r \in Rows
    BY DEF InState
  <2>2. r[1] \in Claimants
    BY <2>1 DEF Rows, Claimants
  <2>3. managed[r] \in Catalog
    BY <2>1 DEF TypeOK
  <2>4. d \in Docs
    BY <2>3, CatalogShape
  <2>5. <<d, r[1]>> \in claims
    BY DEF CarriedInv, ActiveContentClaimed
  <2>. QED
    BY <2>2, <2>4, <2>5 DEF ContentExactlyWhileClaimed
<1>. QED
  BY <1>1, <1>2, <1>3, TypeInvariant, ContentInvariant, VerbInvariant, PTL DEF Spec

=============================================================================
