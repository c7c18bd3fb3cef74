------------------------------- MODULE Catalog ------------------------------
(***************************************************************************)
(* What catalogue ingestion promises (docs/ingestion.md, "What it does,    *)
(* per file"): a source file enters the catalogue in one indivisible step, *)
(* song, fingerprints and ledger row together, and at most once.           *)
(*                                                                         *)
(* Each variable is a table of the database, a set of rows.  A ledger row  *)
(* whose song has been deleted refers to NoSong (ON DELETE SET NULL).      *)
(***************************************************************************)
EXTENDS Naturals

CONSTANTS
    Sources,    \* audio files, by the SHA-256 of their bytes
    Versions    \* fingerprint algorithm versions

VARIABLES
    songs,      \* [id, source, art]: art is "artwork_url is set"
    prints,     \* [song, version]: the song's whole fingerprint set
    ledger      \* [source, song, version]: ingested_sources

tables == <<songs, prints, ledger>>

NoSong == 0
SongIds == Nat \ {NoSong}

IsIngested(c) == \E l \in ledger : l.source = c

Ingest(c, v) ==
    /\ ~IsIngested(c)
    /\ \E new \in songs' :
        /\ new.id \in SongIds /\ new.source = c
        /\ \A s \in songs : s.id # new.id
        /\ songs' = songs \cup {new}
        /\ prints' = prints \cup {[song |-> new.id, version |-> v]}
        /\ ledger' = ledger \cup {[source |-> c, song |-> new.id, version |-> v]}

\* Artwork of an ingested song is filled in later; nothing else changes.
SetArtwork(id) ==
    /\ songs' = {IF s.id = id THEN [s EXCEPT !.art = TRUE] ELSE s : s \in songs}
    /\ UNCHANGED <<prints, ledger>>

\* Drop the fingerprints of a song, keep the song.
DropFingerprints(id) ==
    /\ prints' = {p \in prints : p.song # id}
    /\ UNCHANGED <<songs, ledger>>

\* Delete a song: its fingerprints cascade, its ledger row stays without it.
RemoveSong(id) ==
    /\ songs' = {s \in songs : s.id # id}
    /\ prints' = {p \in prints : p.song # id}
    /\ ledger' = {IF l.song = id THEN [l EXCEPT !.song = NoSong] ELSE l : l \in ledger}

Init ==
    /\ \A s, t \in songs : s.id = t.id => s = t
    /\ \A s \in songs : \E l \in ledger : l.source = s.source /\ l.song = s.id

Next ==
    \/ \E c \in Sources, v \in Versions : Ingest(c, v)
    \/ \E s \in songs :
          SetArtwork(s.id) \/ DropFingerprints(s.id) \/ RemoveSong(s.id)

Spec == Init /\ [][Next]_tables
=============================================================================
