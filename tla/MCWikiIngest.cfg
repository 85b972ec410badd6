\* Two pages in batches of one, up to three revisions, of at most two chunks; the
\* daemon and one cycle by hand; one failure anywhere.
CONSTANTS
  Pages = {1, 2}
  Crawlers = {"daemon", "manual"}
  Daemon = "daemon"
  BatchSize = 1
  MaxChunks = 2
  MaxEdits = 3
  MaxSeeds = 1
  MaxFaults = 1
SPECIFICATION WikiSpec
INVARIANTS TextNotOlder PagesAreWhole
PROPERTY EventuallyCurrent
