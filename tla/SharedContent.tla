---------------------------- MODULE SharedContent ----------------------------
(***************************************************************************)
(* What the desktop store promises about a document's content, without the *)
(* registry, the managed directories or the chunk tables: content is held  *)
(* by claimants, a claimant's transaction moves only that claimant's hold, *)
(* and a document is live exactly while somebody holds it                   *)
(* (contracts/store.schema.sql, doc_claims; pack-manager.ts, header).      *)
(* PackStore is shown to implement this module.                            *)
(***************************************************************************)
CONSTANTS Docs,     \* document contents, named by their sha256
          Packs,    \* pack ids
          User      \* the claimant of everything the user ingested

VARIABLES holders,  \* holders[d]: the claimants of document d
          live      \* the documents whose rows, chunks and vectors are stored

svars == <<holders, live>>

Claimants == Packs \cup {User}

SInit == /\ holders = [d \in Docs |-> {}]
         /\ live = {}

\* One transaction on behalf of the claimants in "actors": nobody else's hold
\* moves, and content is dropped with the last hold.
Transact(actors) ==
    /\ holders' \in [Docs -> SUBSET Claimants]
    /\ \A d \in Docs : holders'[d] \ actors = holders[d] \ actors
    /\ live' = {d \in Docs : holders'[d] # {}}

\* Clear Cache: the store file is deleted and re-created empty.
Wipe == /\ holders' = [d \in Docs |-> {}]
        /\ live' = {}

SNext == Transact({User}) \/ Transact(Packs) \/ Wipe

SSpec == SInit /\ [][SNext]_svars
=============================================================================
