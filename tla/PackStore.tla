------------------------------ MODULE PackStore ------------------------------
(***************************************************************************)
(* The desktop corpus store and everything that writes it: the pack        *)
(* manager (install, supersede, rollback, remove), the ingest pipeline,    *)
(* Clear Cache, and the claims reconciliation of every start.              *)
(*                                                                         *)
(* The pack manager runs one verb at a time and the pipeline one upload at *)
(* a time, each on a promise queue of its own; nothing orders the two      *)
(* queues or Clear Cache with respect to each other.  A verb that embeds   *)
(* is two steps: Begin reads the registry and stages files, then the       *)
(* embedder is awaited, then one synchronous transaction commits.          *)
(*                                                                         *)
(* Abstractions.  A document is its sha256.  Its chunk, vector and FTS     *)
(* rows are one value, the cut (the chunking) that produced them: chunk    *)
(* ids hash document, index and text, so equal cuts have equal ids, and    *)
(* two cuts of a document that is longer than a window differ at an index  *)
(* both have.  Links, embedding models and signatures are left out.  A     *)
(* pack with a prebuilt index imports without an await: its install is     *)
(* Begin followed at once by Commit.                                       *)
(***************************************************************************)
EXTENDS Integers

CONSTANTS
    Packs,        \* pack ids
    Versions,     \* versions, as naturals in semver order
    Docs,         \* document contents (sha256)
    Paths,        \* document paths, of packs and of uploads
    Cuts,         \* chunkings
    Catalog,      \* the manifests of the pack folders that can be installed
    UserCut,      \* the chunking of the ingest pipeline (TextChunker)
    Scope,        \* the optional verbs and faults this instance exercises
    MaxOpens,     \* bound: how often the store file is opened
    User, NoPath, NoCut, NoManifest

Claimants == Packs \cup {User}
Rows == Packs \X Versions

\* pack.json: docs maps each path to the document's sha256, supersedes names
\* pack versions, cut stands for the chunking block or the shipped index.
Manifests == [id : Packs, version : Versions,
              docs : UNION {[S -> Docs] : S \in SUBSET Paths},
              supersedes : SUBSET Rows, cut : Cuts]

Options == {"supersede",        \* PackManager.supersede, which no route calls
            "remove_version",   \* POST /packs/remove with a version
            "clear",            \* DELETE /documents
            "damage",           \* manifests damaged while the host is down
            "damage_live"}      \* ... and while it runs

ASSUME VersionsAssumption == Versions \subseteq Nat
ASSUME CatalogAssumption == Catalog \subseteq Manifests
ASSUME CutAssumption == UserCut \in Cuts /\ NoCut \notin Cuts
ASSUME PathAssumption == NoPath \notin Paths
ASSUME UserAssumption == User \notin Packs
ASSUME ManifestAssumption == NoManifest \notin Catalog
ASSUME ScopeAssumption == Scope \subseteq Options
ASSUME OpensAssumption == MaxOpens \in Nat \ {0}

VARIABLES
    path,        \* docs: the recorded path of each stored document
    cut,         \* chunks, embeddings, chunks_fts: the cut that is stored
    claims,      \* doc_claims: pairs <<document, claimant>>
    status,      \* packs: each row absent, inactive or active
    pending,     \* meta.doc_claims_reconciled = 'pending'
    managed,     \* pack.json in each managed directory
    unreadable,  \* rows whose pack.json cannot be read now
    handle,      \* the host's store handle; 0 when there is none
    opens,       \* how many handles were ever opened
    retrieval,   \* the handle the retrieval surface was built with
    op,          \* the pack manager's verb between its reads and its commit
    ingests      \* uploads between their extraction and their write

store == <<path, cut, claims, status, pending>>
disk  == <<managed, unreadable>>
host  == <<handle, opens, retrieval>>
vars  == <<store, disk, host, op, ingests>>

Idle == [verb |-> "idle"]

-----------------------------------------------------------------------------
(* Reading the store and the managed directories.                          *)

DocsOf(m) == {m.docs[p] : p \in DOMAIN m.docs}

PathIn(m, d) == CHOOSE p \in DOMAIN m.docs : m.docs[p] = d

Live == {d \in Docs : path[d] # NoPath}

InState(s) == {r \in Rows : status[r] = s}
Installed == {r \in Rows : status[r] # "absent"}
ActiveOf(p) == {r \in InState("active") : r[1] = p}

Readable(r) == managed[r] # NoManifest /\ r \notin unreadable

\* docsMapForRow: a manifest that cannot be read counts as "no docs".
MappedDocs(r) == IF Readable(r) THEN DocsOf(managed[r]) ELSE {}

\* Mutants: the manifests are read after the directories are gone; every
\* claimant of the documents is released.
ReleasesNothing(rows) == {}
ReleasesEveryone(rows) == UNION {MappedDocs(r) \X Claimants : r \in rows}

\* The <<document, claimant>> pairs that deactivating the rows releases.
ClaimsOfRows(rows) == UNION {MappedDocs(r) \X {r[1]} : r \in rows}

\* install's delete-before-reingest: what the outgoing rows' manifests carry
\* at a path where the incoming manifest has other bytes or nothing.
Replaced(rows, m) ==
    UNION {{<<managed[r].docs[p], r[1]>> :
               p \in {q \in DOMAIN managed[r].docs :
                        q \notin DOMAIN m.docs \/ m.docs[q] # managed[r].docs[q]}} :
           r \in {x \in rows : Readable(x)}}

-----------------------------------------------------------------------------
(* Writing the store: every writer releases some claims, deletes the       *)
(* documents nobody claims any more, and adds documents with a claim.      *)

\* Mutants: the remaining claims are not counted; nothing is ever deleted.
DeletesIgnoringOthers(released) == {c[1] : c \in released}
NeverDeletes(released) == {}

\* deleteDocumentLocked and the pipeline's stale cascade, for all the pairs
\* in "released": the documents whose last claim goes.
Deleted(released) ==
    {d \in {c[1] : c \in released} : \A a \in Claimants : <<d, a>> \notin claims \ released}

Kept(released) == Live \ Deleted(released)

\* UNIQUE(doc_id, chunk_index): a kept document's rows collide with the rows
\* of another cut.
CutConflict(released, added, c) ==
    \E d \in added \cap Kept(released) : cut[d] # c

Claimed(released, added, who) == (claims \ released) \cup (added \X {who})

\* One transaction.  INSERT OR IGNORE keeps the row, and so the path, of a
\* document that is still there; chunk rows are deleted and inserted.
Write(released, added, who, at, c) ==
    /\ claims' = Claimed(released, added, who)
    /\ path' = [d \in Docs |->
                  IF d \in added \ Kept(released) THEN at[d]
                  ELSE IF d \in Deleted(released) THEN NoPath ELSE path[d]]
    /\ cut' = [d \in Docs |->
                  IF d \in added THEN c
                  ELSE IF d \in Deleted(released) THEN NoCut ELSE cut[d]]

WriteManifest(released, m) ==
    Write(released, DocsOf(m), m.id, [d \in DocsOf(m) |-> PathIn(m, d)], m.cut)

Release(released) == Write(released, {}, User, [d \in {} |-> NoPath], UserCut)

\* Mutant: the outgoing rows keep their flag.
ActivatesOnly(out, row) ==
    [r \in Rows |-> IF status[r] # "absent" /\ r = row THEN "active" ELSE status[r]]

\* UPDATE packs SET active: an absent row is not matched.
Activated(out, row) ==
    [r \in Rows |-> IF status[r] = "absent" THEN "absent"
                    ELSE IF r = row THEN "active"
                    ELSE IF r \in out THEN "inactive" ELSE status[r]]

-----------------------------------------------------------------------------
(* Opening the store: migrate() re-runs the reconciliation on every open.  *)

\* The claims the readable manifests of the active rows vouch for.
VouchedClaims == {c \in ClaimsOfRows(InState("active")) : c[1] \in Live}

Reconcile ==
    /\ claims' = claims \cup VouchedClaims
    /\ pending' = (\E r \in InState("active") : ~Readable(r))

OpenHandle == /\ opens < MaxOpens
              /\ opens' = opens + 1
              /\ handle' = opens + 1

Empty == /\ path' = [d \in Docs |-> NoPath]
         /\ cut' = [d \in Docs |-> NoCut]
         /\ claims' = {}
         /\ status' = [r \in Rows |-> "absent"]
         /\ pending' = FALSE

Init == /\ path = [d \in Docs |-> NoPath]
        /\ cut = [d \in Docs |-> NoCut]
        /\ claims = {}
        /\ status = [r \in Rows |-> "absent"]
        /\ pending = FALSE
        /\ managed = [r \in Rows |-> NoManifest]
        /\ unreadable = {}
        /\ handle = 1 /\ opens = 1 /\ retrieval = 1
        /\ op = Idle
        /\ ingests = {}

-----------------------------------------------------------------------------
(* The pack manager.  The getter of the store handle throws without one,   *)
(* the queue holds a verb back while another runs, and no verb runs while  *)
(* the reconciliation is pending (assertClaimsReconciled).                 *)

\* Mutant: the pending marker is not consulted.
MayStartUnreconciled == handle # 0 /\ op = Idle

MayStartVerb == handle # 0 /\ op = Idle /\ ~pending

\* The version of the first active row decides; equal and lower are refused.
Upgrades(m) ==
    \A r \in ActiveOf(m.id) :
        (\A s \in ActiveOf(m.id) : r[2] <= s[2]) => m.version > r[2]

MayInstall(m) == MayStartVerb /\ Upgrades(m)

BeginInstall(m) ==
    LET row == <<m.id, m.version>>
        out == ActiveOf(m.id) \cup (m.supersedes \cap Installed)
    IN  /\ MayInstall(m)
        /\ managed' = [managed EXCEPT ![row] = m]
        /\ unreadable' = unreadable \ {row}
        /\ op' = [verb |-> "install", row |-> row, m |-> m, out |-> out, drop |-> out]
        /\ UNCHANGED <<store, host, ingests>>

\* The managed directory was removed and the copy failed half way.
StagingFails(m) ==
    /\ MayInstall(m)
    /\ managed' = [managed EXCEPT ![<<m.id, m.version>>] = NoManifest]
    /\ UNCHANGED <<store, unreadable, host, op, ingests>>

CommitInstall ==
    LET released == Replaced(op.drop, op.m)
    IN  /\ op.verb = "install" /\ handle # 0
        /\ ~CutConflict(released, DocsOf(op.m), op.m.cut)
        /\ WriteManifest(released, op.m)
        /\ status' = [Activated(op.out, op.row) EXCEPT ![op.row] = "active"]
        /\ op' = Idle
        /\ UNCHANGED <<pending, disk, host, ingests>>

\* prepareActivation validates the retained manifest before it embeds.
BeginActivation(row, out, drop) ==
    /\ MayStartVerb
    /\ status[row] = "inactive" /\ Readable(row)
    /\ op' = [verb |-> "activate", row |-> row, m |-> managed[row],
              out |-> out, drop |-> drop]
    /\ UNCHANGED <<store, disk, host, ingests>>

BeginRollback(row) == BeginActivation(row, ActiveOf(row[1]), ActiveOf(row[1]))

BeginSupersede(from, to) ==
    /\ "supersede" \in Scope
    /\ from[1] = to[1] /\ from \in Installed
    /\ BeginActivation(to, {from}, {from} \cap InState("active"))

CommitActivation ==
    LET released == ClaimsOfRows(op.drop)
    IN  /\ op.verb = "activate" /\ handle # 0
        /\ ~CutConflict(released, DocsOf(op.m), op.m.cut)
        /\ WriteManifest(released, op.m)
        /\ status' = Activated(op.out, op.row)
        /\ op' = Idle
        /\ UNCHANGED <<pending, disk, host, ingests>>

\* supersede towards an active row embeds nothing and so never awaits.
SupersedeToActive(from, to) ==
    /\ "supersede" \in Scope /\ MayStartVerb
    /\ from[1] = to[1] /\ from \in Installed /\ status[to] = "active"
    /\ Release(ClaimsOfRows({from} \cap InState("active")))
    /\ status' = Activated({from}, to)
    /\ UNCHANGED <<pending, disk, host, op, ingests>>

\* The embedder fails, the transaction conflicts, or the handle went away:
\* nothing was written, the staged directory stays.
FailVerb == /\ op # Idle
            /\ op' = Idle
            /\ UNCHANGED <<store, disk, host, ingests>>

\* The rows first, then the directories; a directory that cannot be deleted
\* stays as residue.
Remove(rows) ==
    /\ MayStartVerb /\ rows # {}
    /\ Release(ClaimsOfRows(rows))
    /\ status' = [r \in Rows |-> IF r \in rows THEN "absent" ELSE status[r]]
    /\ \E gone \in SUBSET rows :
          /\ managed' = [r \in Rows |-> IF r \in gone THEN NoManifest ELSE managed[r]]
          /\ unreadable' = unreadable \ gone
    /\ UNCHANGED <<pending, host, op, ingests>>

RemovePack(p) == Remove({r \in Installed : r[1] = p})
RemoveVersion(row) == "remove_version" \in Scope /\ Remove({row} \cap Installed)

-----------------------------------------------------------------------------
(* The ingest pipeline.  It is built with the handle of the moment and     *)
(* keeps it; extraction and embedding are awaited before the write.        *)

Upload == [path : Paths, doc : Docs, into : 1..MaxOpens]

BeginIngest(p, d) ==
    /\ handle # 0
    /\ \A i \in ingests : i.into # handle
    /\ ingests' = ingests \cup {[path |-> p, doc |-> d, into |-> handle]}
    /\ UNCHANGED <<store, disk, host, op>>

\* Mutant: the cascade is not scoped to the user's claims.
StaleForEveryone(i) == {d \in Live : path[d] = i.path /\ d # i.doc} \X Claimants

StaleAt(i) == {d \in Live : path[d] = i.path /\ d # i.doc} \X {User}

\* writeDocument: known content only gains the user's claim; new content
\* replaces the user's older revision at the same path.
WriteUpload(i) ==
    /\ i.into = handle
    /\ IF i.doc \in Live
       THEN /\ claims' = claims \cup {<<i.doc, User>>}
            /\ UNCHANGED <<path, cut>>
       ELSE Write(StaleAt(i), {i.doc}, User, [d \in {i.doc} |-> i.path], UserCut)
    /\ ingests' = ingests \ {i}
    /\ UNCHANGED <<status, pending, disk, host, op>>

\* Extraction or embedding fails, or the pipeline's handle has been closed.
FailUpload(i) == /\ ingests' = ingests \ {i}
                 /\ UNCHANGED <<store, disk, host, op>>

-----------------------------------------------------------------------------
(* The host.                                                               *)

\* clearDocuments runs in one go, beside whatever is in flight.  The file is
\* deleted and re-created; or it could not be deleted, which is only logged,
\* and is opened again; or the re-creation throws and no handle is left.
ClearCache ==
    /\ "clear" \in Scope /\ handle # 0
    /\ \/ OpenHandle /\ Empty
       \/ OpenHandle /\ Reconcile /\ UNCHANGED <<path, cut, status>>
       \/ handle' = 0 /\ UNCHANGED opens /\ Empty
    /\ UNCHANGED <<disk, retrieval, op, ingests>>

\* Stop, or a crash: committed transactions and the directories survive.
Stop == /\ handle' = 0
        /\ op' = Idle
        /\ ingests' = {}
        /\ UNCHANGED <<store, disk, opens, retrieval>>

Start == /\ handle = 0 /\ op = Idle /\ ingests = {}
         /\ OpenHandle
         /\ retrieval' = opens + 1
         /\ Reconcile
         /\ UNCHANGED <<path, cut, status, disk, op, ingests>>

\* External: a pack.json is damaged, locked or lost, and later restored.
ChangeReadability ==
    /\ "damage_live" \in Scope \/ ("damage" \in Scope /\ handle = 0)
    /\ \E r \in Installed : unreadable' \in {unreadable \cup {r}, unreadable \ {r}}
    /\ UNCHANGED <<store, managed, host, op, ingests>>

-----------------------------------------------------------------------------
Next == \/ \E m \in Catalog : BeginInstall(m) \/ StagingFails(m)
        \/ CommitInstall
        \/ \E r \in Rows : BeginRollback(r) \/ RemoveVersion(r)
        \/ \E from, to \in Rows : BeginSupersede(from, to) \/ SupersedeToActive(from, to)
        \/ CommitActivation
        \/ FailVerb
        \/ \E p \in Packs : RemovePack(p)
        \/ \E p \in Paths, d \in Docs : BeginIngest(p, d)
        \/ \E i \in ingests : WriteUpload(i) \/ FailUpload(i)
        \/ ClearCache \/ Stop \/ Start \/ ChangeReadability

Spec == Init /\ [][Next]_vars

-----------------------------------------------------------------------------
(* Properties.                                                             *)

OpType == {Idle} \cup [verb : {"install", "activate"}, row : Rows, m : Catalog,
                       out : SUBSET Rows, drop : SUBSET Rows]

\* Type correctness of the store's tables, the directories and the host.
TypeOK == /\ path \in [Docs -> Paths \cup {NoPath}]
          /\ cut \in [Docs -> Cuts \cup {NoCut}]
          /\ claims \subseteq Docs \X Claimants
          /\ status \in [Rows -> {"absent", "inactive", "active"}]
          /\ pending \in BOOLEAN
          /\ managed \in [Rows -> Catalog \cup {NoManifest}]
          /\ unreadable \subseteq Rows
          /\ opens \in 1..MaxOpens
          /\ handle \in 0..opens
          /\ retrieval \in 1..opens
          /\ op \in OpType
          /\ ingests \subseteq Upload

\* A document is stored, with its chunks, exactly while somebody claims it:
\* no claim outlives its document, and nothing is stored for nobody
\* (store.schema.sql, doc_claims; deleteDocumentLocked).
ContentExactlyWhileClaimed ==
    \A d \in Docs : /\ d \in Live <=> \E a \in Claimants : <<d, a>> \in claims
                    /\ d \in Live <=> cut[d] # NoCut

\* At most one version of a pack is active ("enforced by writers, not
\* constraints", store.schema.sql, packs), whatever happened during the await.
OneActive == \A r, s \in InState("active") : r[1] = s[1] => r = s

\* Everything the active version of a pack carries is stored and claimed by it.
ActiveContentLive ==
    \A r \in InState("active") :
        managed[r] # NoManifest =>
            \A d \in DocsOf(managed[r]) : d \in Live /\ <<d, r[1]>> \in claims

\* A pack's claim is the claim of its active version: nothing is held for a
\* version that was deactivated, replaced or removed.
PackClaimsAreActive ==
    \A d \in Docs, p \in Packs :
        <<d, p>> \in claims =>
            \E r \in ActiveOf(p) : managed[r] # NoManifest /\ d \in DocsOf(managed[r])

\* hybridRetrieve drops a chunk that only packs without an active version
\* claim; it consults the 'pack:' claims and never the user's.
Retrievable(d) ==
    LET claimants == {p \in Packs : <<d, p>> \in claims}
    IN  d \in Live /\ (claimants = {} \/ \E p \in claimants : ActiveOf(p) # {})

\* What the user ingested can be found.
UserDocsRetrievable == \A d \in Docs : <<d, User>> \in claims => Retrievable(d)

\* The retrieval surface searches the store the host has open.
RetrievalIsBound == handle # 0 => retrieval = handle

\* A validated and embedded install can commit: the chunk rows it inserts
\* do not collide with the rows of documents that stay.  It does not hold
\* (README, section 4).
InstallCanCommit ==
    op.verb = "install" =>
        ~CutConflict(Replaced(op.drop, op.m), DocsOf(op.m), op.m.cut)

SameStore == handle' = handle

\* The user's claim on a document goes only when the user's own upload lands
\* on its path, or with the whole store: no pack verb takes it.
UserClaimsKept ==
    [][SameStore =>
         \A d \in Docs : <<d, User>> \in claims \ claims' =>
             \E i \in ingests \ ingests' : i.path = path[d] /\ i.doc # d]_vars

\* A pack's claim goes only with a change of that pack's registry rows or by
\* an install that supersedes the pack; never by another pack's verb, and
\* never by an upload.
PackClaimsKept ==
    [][SameStore =>
         \A d \in Docs, p \in Packs : <<d, p>> \in claims \ claims' =>
             \/ \E v \in Versions : status'[<<p, v>>] # status[<<p, v>>]
             \/ op.verb = "install" /\ \E r \in op.m.supersedes : r[1] = p]_vars

-----------------------------------------------------------------------------
(* What the store promises: SharedContent with holders read off doc_claims. *)

Holders == [d \in Docs |-> {a \in Claimants : <<d, a>> \in claims}]

Shared == INSTANCE SharedContent WITH holders <- Holders, live <- Live

\* Every writer is a transaction of the user or of packs, or a wipe, and
\* content lives exactly as long as somebody holds it.
ImplementsSharedContent == Shared!SSpec
=============================================================================
