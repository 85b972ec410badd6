\* Two drafts of Pest, which two scripts may approve once each or one twice, and
\* a kill or a restart in between; another NPC that has no skill.
SPECIFICATION SkillsSpec
CONSTANTS
  Npcs = {"Pest", "Mori"}
  Pest = "Pest"
  Drafts <- MCDrafts
  Scripts = {Cron, Evolve}
  Cron = Cron
  Evolve = Evolve
  MaxFaults = 1
  NoFile = NoFile
INVARIANTS
  NoticedWasApproved
  SentOncePerRun
PROPERTIES
  RunsTheActive
  EveryCandidateJudged
CHECK_DEADLOCK FALSE
