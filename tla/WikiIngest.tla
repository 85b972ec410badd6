------------------------------ MODULE WikiIngest ------------------------------
(***************************************************************************)
(* The local copy of the Hytale wiki: orchestrator/wiki_ingest.py over     *)
(* wiki_knowledge.py, a request a step.                                    *)
(*                                                                         *)
(* A cycle lists the pages, learns the revision and the categories of each *)
(* batch, and then takes the pages one by one: purges one that is about    *)
(* the real world, passes one whose revision is stored, and replaces any   *)
(* other, which is three requests: for the text, to delete the old chunks, *)
(* to write the new.  The wiki is edited all the while, any request may    *)
(* fail, and the cycle of wiki_refresh_daemon and one started by hand may  *)
(* run at the same time.                                                   *)
(***************************************************************************)
EXTENDS Naturals, Sequences, FiniteSets

CONSTANTS
  Pages,        \* titles, in the order of allpages: numbers
  Crawlers,     \* processes that may run a cycle
  Daemon,       \* the one that runs cycle after cycle
  BatchSize,    \* REVISION_BATCH_SIZE
  MaxChunks,    \* chunks of a page (a bound)
  MaxEdits,     \* revisions of all pages together (a bound)
  MaxSeeds,     \* cycles started by hand (a bound)
  MaxFaults     \* failures (a bound)

ASSUME WikiAssumption ==
  /\ Pages \subseteq Nat /\ Daemon \in Crawlers
  /\ {BatchSize, MaxChunks, MaxEdits, MaxSeeds, MaxFaults} \subseteq Nat
  /\ BatchSize > 0

VARIABLES
  wiki,      \* the revisions of each page, oldest first; none before it is made
  store,     \* the chunks of each page in wiki_knowledge, by chunk_index: the
             \* revision_id each has and (history) the revision of its text
  crawler,   \* how far each cycle is
  torn,      \* history: pages whose last two replacements overlapped
  seeds,
  faults

wikiVars == <<wiki, store, crawler, torn, seeds, faults>>

\* Only of lore does it matter what is left of it when it is cleaned.
Version == [kind : {"lore"}, chunks : 0..MaxChunks]
             \cup [kind : {"meta"}, chunks : {1}] \cup [kind : {"gone"}, chunks : {0}]

Edits == {e \in Pages \X (1..MaxEdits) : e[2] \in DOMAIN wiki[e[1]]}
Latest(p) == wiki[p][Len(wiki[p])]
Exists(p) == wiki[p] # <<>> /\ Latest(p).kind # "gone"

NoCycle == [step |-> "idle", titles |-> {}, known |-> {}, text |-> 0]

WikiInit ==
  /\ wiki = [p \in Pages |-> <<>>]
  /\ store = [p \in Pages |-> <<>>]
  /\ crawler = [c \in Crawlers |-> NoCycle]
  /\ torn = {}
  /\ seeds = 0
  /\ faults = 0

\* Somebody writes, empties, moves to another category or deletes a page.
Edited(p) ==
  /\ Cardinality(Edits) < MaxEdits
  /\ \E v \in Version : wiki' = [wiki EXCEPT ![p] = Append(@, v)]
  /\ UNCHANGED <<store, crawler, torn, seeds, faults>>

-----------------------------------------------------------------------------
(* run_ingest_cycle *)

Batch(S) == {p \in S : Cardinality({q \in S : q < p}) < BatchSize}

Goes(c, state) == crawler' = [crawler EXCEPT ![c] = state]

\* The page the cycle is at, and what the cycle knows of it: the pages of the
\* cycle that have a known revision, by title.
At(c, p) ==
  /\ \E k \in crawler[c].known : k[1] = p
  /\ \A k \in crawler[c].known : p <= k[1]
Rev(c, p) == (CHOOSE k \in crawler[c].known : k[1] = p)[2]

Taken(c, p) == {k \in crawler[c].known : k[1] # p}
Passed(c, p) == IF Taken(c, p) = {} THEN NoCycle
                ELSE [NoCycle EXCEPT !.step = "page", !.known = Taken(c, p)]

\* _fetch_all_titles
Lists(c) ==
  /\ crawler[c] = NoCycle
  /\ c = Daemon \/ seeds < MaxSeeds
  /\ seeds' = IF c = Daemon THEN seeds ELSE seeds + 1
  /\ LET titles == {p \in Pages : Exists(p)}
     IN  Goes(c, IF titles = {} THEN NoCycle
                 ELSE [NoCycle EXCEPT !.step = "learn", !.titles = titles])
  /\ UNCHANGED <<wiki, store, torn, faults>>

\* _fetch_revisions_and_categories, of one batch: a page that has gone has none.
Learns(c) ==
  /\ crawler[c].step = "learn"
  /\ LET batch == Batch(crawler[c].titles)
         known == crawler[c].known \cup
                    {<<p, Len(wiki[p])>> : p \in {q \in batch : Exists(q)}}
         left  == crawler[c].titles \ batch
     IN  Goes(c, IF left # {} THEN [crawler[c] EXCEPT !.titles = left, !.known = known]
                 ELSE IF known = {} THEN NoCycle
                 ELSE [NoCycle EXCEPT !.step = "page", !.known = known])
  /\ UNCHANGED <<wiki, store, torn, seeds, faults>>

\* Mutant: a page of the real world is passed over.
IsNeverMeta(p, r) == FALSE

\* _is_meta_page, of the revision the cycle knows.
IsMetaPage(p, r) == wiki[p][r].kind = "meta"

\* Replacements of p between their delete and their upsert.
Replacing(p) == {c \in Crawlers : crawler[c].step = "upsert" /\ At(c, p)}

\* delete_page of a page that should never have been there.
Purges(c, p) ==
  /\ crawler[c].step = "page" /\ At(c, p)
  /\ IsMetaPage(p, Rev(c, p))
  /\ store' = [store EXCEPT ![p] = <<>>]
  /\ torn' = IF \E d, e \in Replacing(p) : d # e THEN torn ELSE torn \ {p}
  /\ Goes(c, Passed(c, p))
  /\ UNCHANGED <<wiki, seeds, faults>>

\* get_revision reads one chunk, whichever.
StoredIs(p, r) == \E i \in DOMAIN store[p] : store[p][i].claim = r
StoredIsNot(p, r) == store[p] = <<>> \/ \E i \in DOMAIN store[p] : store[p][i].claim # r

Skips(c, p) ==
  /\ crawler[c].step = "page" /\ At(c, p)
  /\ ~IsMetaPage(p, Rev(c, p))
  /\ StoredIs(p, Rev(c, p))
  /\ Goes(c, Passed(c, p))
  /\ UNCHANGED <<wiki, store, torn, seeds, faults>>

Wants(c, p) ==
  /\ crawler[c].step = "page" /\ At(c, p)
  /\ ~IsMetaPage(p, Rev(c, p))
  /\ StoredIsNot(p, Rev(c, p))
  /\ Goes(c, [crawler[c] EXCEPT !.step = "fetch"])
  /\ UNCHANGED <<wiki, store, torn, seeds, faults>>

\* _fetch_wikitext and clean_wikitext: the page as it is now, or nothing.
Fetches(c, p) ==
  /\ crawler[c].step = "fetch" /\ At(c, p)
  /\ Goes(c, IF Exists(p) /\ Latest(p).chunks > 0
             THEN [crawler[c] EXCEPT !.step = "delete", !.text = Len(wiki[p])]
             ELSE Passed(c, p))
  /\ UNCHANGED <<wiki, store, torn, seeds, faults>>

-----------------------------------------------------------------------------
(* replace_page *)

\* Mutant: the chunks are only overwritten.
DeletesNothing(c, p) ==
  /\ crawler[c].step = "delete" /\ At(c, p)
  /\ torn' = IF Replacing(p) = {} THEN torn \ {p} ELSE torn \cup {p}
  /\ Goes(c, [crawler[c] EXCEPT !.step = "upsert"])
  /\ UNCHANGED <<wiki, store, seeds, faults>>

Deletes(c, p) ==
  /\ crawler[c].step = "delete" /\ At(c, p)
  /\ store' = [store EXCEPT ![p] = <<>>]
  /\ torn' = IF Replacing(p) = {} THEN torn \ {p} ELSE torn \cup {p}
  /\ Goes(c, [crawler[c] EXCEPT !.step = "upsert"])
  /\ UNCHANGED <<wiki, seeds, faults>>

\* The points have the ids of their places: what is there is overwritten, and
\* chunks behind the last of these stay.
Overwrites(p, claim, text) ==
  store' = [store EXCEPT ![p] =
    [i \in 1..(IF Len(@) > wiki[p][text].chunks THEN Len(@) ELSE wiki[p][text].chunks) |->
       IF i <= wiki[p][text].chunks THEN [claim |-> claim, text |-> text] ELSE @[i]]]

\* Mutant: the revision is looked up again when the chunks are written.
UpsertsLive(c, p) ==
  /\ crawler[c].step = "upsert" /\ At(c, p)
  /\ Overwrites(p, Len(wiki[p]), crawler[c].text)
  /\ Goes(c, Passed(c, p))
  /\ UNCHANGED <<wiki, torn, seeds, faults>>

Upserts(c, p) ==
  /\ crawler[c].step = "upsert" /\ At(c, p)
  /\ Overwrites(p, Rev(c, p), crawler[c].text)
  /\ Goes(c, Passed(c, p))
  /\ UNCHANGED <<wiki, torn, seeds, faults>>

-----------------------------------------------------------------------------
\* A request raises: the cycle ends while it lists and learns, and goes on with
\* the next page later.
Fails(c) ==
  /\ crawler[c] # NoCycle
  /\ faults < MaxFaults
  /\ faults' = faults + 1
  /\ IF crawler[c].step = "learn" THEN Goes(c, NoCycle)
     ELSE \E p \in Pages : At(c, p) /\ Goes(c, Passed(c, p))
  /\ UNCHANGED <<wiki, store, torn, seeds>>

\* The process stops, anywhere.
Stops(c) ==
  /\ crawler[c] # NoCycle
  /\ faults < MaxFaults
  /\ faults' = faults + 1
  /\ Goes(c, NoCycle)
  /\ UNCHANGED <<wiki, store, torn, seeds>>

Page(c, p) == Purges(c, p) \/ Skips(c, p) \/ Wants(c, p) \/ Fetches(c, p)
                \/ Deletes(c, p) \/ Upserts(c, p)

Cycle(c) == Lists(c) \/ Learns(c) \/ \E p \in Pages : Page(c, p)

WikiNext ==
  \/ \E p \in Pages : Edited(p)
  \/ \E c \in Crawlers : Cycle(c) \/ Fails(c) \/ Stops(c)

\* wiki_refresh_daemon runs for ever, and every request is answered or fails.
WikiFairness == \A c \in Crawlers : WF_wikiVars(Cycle(c))

WikiSpec == WikiInit /\ [][WikiNext]_wikiVars /\ WikiFairness

-----------------------------------------------------------------------------
(* Properties *)

\* A page is passed over when its stored revision is the wiki's: that is right
\* only if text is never older than the revision_id it is stored with, though
\* the page is edited between the two requests, and cycles overtake each other
\* (wiki_ingest.py:241-245).
TextNotOlder ==
  \A p \in Pages : \A i \in DOMAIN store[p] : store[p][i].text >= store[p][i].claim

\* "All chunks of a page share the same revision_id (re-written together on every
\* ingest)" (wiki_knowledge.py:56-57), and they are all the chunks of one text,
\* or none, wherever a cycle fails; save where two replacements overlapped.
PagesAreWhole ==
  \A p \in Pages \ torn : store[p] # <<>> =>
    /\ \A i, j \in DOMAIN store[p] : store[p][i] = store[p][j]
    /\ Len(store[p]) = wiki[p][store[p][1].text].chunks

\* The same of every page.  Does not hold when a cycle started by hand overlaps
\* the daemon's: chunks of two revisions stay, and the next cycles pass the page
\* over if the chunk they look at has the newer.
ChunksShareRevision ==
  \A p \in Pages : \A i, j \in DOMAIN store[p] : store[p][i].claim = store[p][j].claim

\* What the store has of p is what the wiki has; of a page that has gone, or has
\* nothing left to store, it keeps what it had.
Current(p) ==
  CASE ~Exists(p) -> TRUE
    [] Exists(p) /\ Latest(p).kind = "meta" -> store[p] = <<>>
    [] OTHER -> Latest(p).chunks > 0 =>
                  /\ Len(store[p]) = Latest(p).chunks
                  /\ \A i \in DOMAIN store[p] : store[p][i].text = Len(wiki[p])

\* Once edits and failures end, the copy is current and stays so, save for a
\* page torn by overlapping cycles: whatever failed is done again, and what is
\* stored is not fetched again (wiki_ingest.py:13-18).
EventuallyCurrent == \A p \in Pages : <>[](p \in torn \/ Current(p))
=============================================================================
