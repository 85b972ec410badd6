-------------------------------- MODULE Skills --------------------------------
(***************************************************************************)
(* A skill from its draft to a live NPC.  skill_writer.py and              *)
(* pest_evolve.py write candidates; sandbox/run_skill_validation.sh moves  *)
(* each to approved/ or rejected/; the orchestrator's skill_runtime.py     *)
(* runs the newest approved one, one of Pest only if it is older than the  *)
(* process; pest_evolve.py notes for Pest's owner that a restart is due,   *)
(* and main.py's pest_notice_daemon sends what is new in that file.        *)
(*                                                                         *)
(* These are separate processes that meet in the file system only: cron's  *)
(* and Pest's validation may run at the same time, each may be killed, the *)
(* orchestrator restarts, and somebody may delete an approved file.        *)
(***************************************************************************)
EXTENDS Naturals, Sequences, FiniteSets

CONSTANTS
  Npcs,        \* whose skills there are; one is Pest
  Pest,
  Drafts,      \* candidates that pass _static_check, as <<number, NPC>>; the
               \* shell lists them in the order of their numbers
  Scripts,     \* who runs run_skill_validation.sh: Cron, Evolve
  Cron, Evolve,
  MaxFaults,   \* scripts killed and restarts (a bound)
  NoFile

ASSUME SkillsAssumption ==
  /\ Pest \in Npcs /\ Drafts \subseteq Nat \X Npcs
  /\ Scripts = {Cron, Evolve} /\ Cron # Evolve
  /\ MaxFaults \in Nat
  /\ NoFile \notin Drafts \X Nat /\ NoFile \notin Drafts

VARIABLES
  clock,       \* ticks with every copy and every start
  drafted,     \* the drafts written so far
  candidates,  \* candidates/
  approved,    \* approved/: a draft and the mtime of its copy
  passed,      \* history: the drafts ever approved
  script,      \* how far each validation is
  evolving,    \* the draft pest_evolve.py is about, and whether it is to notify
  notices,     \* pest_notices.jsonl: the draft each line is about
  started,     \* _process_started_at
  byNpc,       \* _by_npc, since the last scan
  running,     \* the file that runs in skill_runner.py
  seenLines,   \* seen_lines
  outbox,      \* the lines the daemon is about to send
  sent,        \* history: the lines this process has sent
  faults

skillsVars == <<clock, drafted, candidates, approved, passed, script, evolving, notices,
                started, byNpc, running, seenLines, outbox, sent, faults>>

sandbox == <<drafted, candidates, approved, passed, script, evolving, notices>>
process == <<started, byNpc, running, seenLines, outbox, sent>>

Off == [step |-> "off", todo |-> {}]
NoDraft == [draft |-> NoFile, step |-> "off"]
NpcOf(d) == d[2]

SkillsInit ==
  /\ clock = 0
  /\ drafted = {} /\ candidates = {} /\ approved = {} /\ passed = {}
  /\ script = [s \in Scripts |-> Off]
  /\ evolving = NoDraft
  /\ notices = <<>>
  /\ started = 0
  /\ byNpc = [n \in Npcs |-> NoFile]
  /\ running = NoFile
  /\ seenLines = 0
  /\ outbox = <<>>
  /\ sent = <<>>
  /\ faults = 0

Ticks == clock' = clock + 1

Faulty == faults < MaxFaults /\ faults' = faults + 1

-----------------------------------------------------------------------------
(* Drafts *)

Writes(d) ==
  /\ d \in Drafts \ drafted
  /\ drafted' = drafted \cup {d}
  /\ candidates' = candidates \cup {d}
  /\ UNCHANGED <<clock, approved, passed, notices, faults, process>>

\* skill_writer.py drafts for any NPC with enough outcomes, Pest not excepted.
WriterDrafts(d) == Writes(d) /\ UNCHANGED <<script, evolving>>

\* pest_evolve.py validates at once, whatever else there is to validate.
EvolveDrafts(d) ==
  /\ evolving = NoDraft
  /\ NpcOf(d) = Pest
  /\ Writes(d)
  /\ evolving' = [draft |-> d, step |-> "validates"]
  /\ script' = [script EXCEPT ![Evolve] = [step |-> "next", todo |-> candidates']]

-----------------------------------------------------------------------------
(* run_skill_validation.sh *)

First(S) == CHOOSE d \in S : \A e \in S : d[1] <= e[1]

Goes(s, state) == script' = [script EXCEPT ![s] = state]

Validates == UNCHANGED <<clock, drafted, evolving, notices, process>>

CronStarts ==
  /\ script[Cron] = Off
  /\ candidates # {}
  /\ Goes(Cron, [step |-> "next", todo |-> candidates])
  /\ Validates /\ UNCHANGED <<candidates, approved, passed, faults>>

\* "no candidates." also when this one has gone since the list was made; and the
\* script ends behind the last.
Ends(s) ==
  /\ script[s].step = "next"
  /\ script[s].todo # {} => First(script[s].todo) \notin candidates
  /\ Goes(s, Off)
  /\ Validates /\ UNCHANGED <<candidates, approved, passed, faults>>

\* The harness in a container: a draft passes or fails, and one that passes may
\* fail another time, when the container does.
Judges(s) ==
  /\ script[s].step = "next"
  /\ script[s].todo # {}
  /\ First(script[s].todo) \in candidates
  /\ \E verdict \in {"copy", "move"} : Goes(s, [script[s] EXCEPT !.step = verdict])
  /\ Validates /\ UNCHANGED <<candidates, approved, passed, faults>>

\* cp, of a file another script may have moved: with set -e that is the end.
Copies(s) ==
  /\ script[s].step = "copy"
  /\ LET d == First(script[s].todo)
     IN  IF d \in candidates
         THEN /\ Ticks
              /\ approved' = approved \cup {<<d, clock'>>}
              /\ passed' = passed \cup {d}
              /\ Goes(s, [script[s] EXCEPT !.step = "remove"])
         ELSE Goes(s, Off) /\ UNCHANGED <<clock, approved, passed>>
  /\ UNCHANGED <<drafted, candidates, evolving, notices, faults, process>>

\* Mutant: what has failed is left where it is.
MovesNothing(s) ==
  /\ script[s].step \in {"remove", "move"}
  /\ LET d == First(script[s].todo)
     IN  /\ candidates' = IF script[s].step = "remove" THEN candidates \ {d}
                                                      ELSE candidates
         /\ Goes(s, [step |-> "next", todo |-> script[s].todo \ {d}])
  /\ Validates /\ UNCHANGED <<approved, passed, faults>>

\* rm behind the copy, or mv to rejected/.
Moves(s) ==
  /\ script[s].step \in {"remove", "move"}
  /\ LET d == First(script[s].todo)
     IN  IF d \in candidates
         THEN /\ candidates' = candidates \ {d}
              /\ Goes(s, [step |-> "next", todo |-> script[s].todo \ {d}])
         ELSE Goes(s, Off) /\ UNCHANGED candidates
  /\ Validates /\ UNCHANGED <<approved, passed, faults>>

\* Killed, or out of VALIDATION_TIMEOUT_S, which also ends pest_evolve.py.
Killed(s) ==
  /\ script[s] # Off
  /\ Faulty
  /\ Goes(s, Off)
  /\ evolving' = IF s = Evolve THEN NoDraft ELSE evolving
  /\ UNCHANGED <<clock, drafted, candidates, approved, passed, notices, process>>

-----------------------------------------------------------------------------
(* pest_evolve.py, behind its validation *)

\* Mutant: the script has ended, so the candidate has passed.
ScriptEnded(d) == TRUE

\* _validate_candidate looks for a copy of its own candidate.
WasApproved(d) == \E f \in approved : f[1] = d

Checks ==
  /\ evolving.step = "validates"
  /\ script[Evolve] = Off
  /\ evolving' = IF WasApproved(evolving.draft)
                 THEN [evolving EXCEPT !.step = "notifies"] ELSE NoDraft
  /\ UNCHANGED <<clock, drafted, candidates, approved, passed, script, notices, faults,
                 process>>

\* _notify_owners: a line if Pest is owned and its owner can be found.
Notifies ==
  /\ evolving.step = "notifies"
  /\ notices' \in {notices, Append(notices, evolving.draft)}
  /\ evolving' = NoDraft
  /\ UNCHANGED <<clock, drafted, candidates, approved, passed, script, faults, process>>

-----------------------------------------------------------------------------
(* skill_runtime.py *)

\* Mutant: a file that has just been approved is eligible too.
AnyEligible(f) == TRUE

Eligible(f) == NpcOf(f[1]) = Pest => f[2] <= started

\* _rescan: the newest of the eligible, of each NPC.
Scan ==
  [n \in Npcs |->
     LET files == {f \in approved : NpcOf(f[1]) = n /\ Eligible(f)}
     IN  IF files = {} THEN NoFile
         ELSE CHOOSE f \in files : \A g \in files : g[2] <= f[2]]

\* try_decide, after a minute or not; when the file has gone it scans again.
TryDecide(n) ==
  /\ running = NoFile
  /\ \E table \in {byNpc, Scan} :
       LET fresh == IF table[n] \in approved \cup {NoFile} THEN table ELSE Scan
       IN  byNpc' = fresh /\ running' = fresh[n]
  /\ UNCHANGED <<clock, faults, sandbox, started, seenLines, outbox, sent>>

\* The decision is valid or not, or the runner is killed after CALL_TIMEOUT_S; in
\* the ambient line that follows a skill leaves no trace.
Decides ==
  /\ running # NoFile
  /\ running' = NoFile
  /\ UNCHANGED <<clock, faults, sandbox, started, byNpc, seenLines, outbox, sent>>

-----------------------------------------------------------------------------
(* pest_notice_daemon; a plugin may be connected at any time, or not *)

\* Mutant: lines count as seen when all of them have been sent.
PollsUnseen ==
  /\ outbox = <<>>
  /\ seenLines < Len(notices)
  /\ outbox' = [i \in 1..(Len(notices) - seenLines) |-> seenLines + i]
  /\ UNCHANGED <<clock, faults, sandbox, started, byNpc, running, seenLines, sent>>

\* Every line that is new counts as seen, and is dropped without a plugin.
Polls ==
  /\ outbox = <<>>
  /\ seenLines < Len(notices)
  /\ seenLines' = Len(notices)
  /\ outbox' \in {<<>>, [i \in 1..(Len(notices) - seenLines) |-> seenLines + i]}
  /\ UNCHANGED <<clock, faults, sandbox, started, byNpc, running, sent>>

\* A plugin that has gone raises, and the lines that are left are lost.
SendsLine ==
  /\ outbox # <<>>
  /\ \/ sent' = Append(sent, Head(outbox)) /\ outbox' = Tail(outbox)
     \/ outbox' = <<>> /\ UNCHANGED sent
  /\ UNCHANGED <<clock, faults, sandbox, started, byNpc, running, seenLines>>

-----------------------------------------------------------------------------
(* Outside *)

\* "Rollback = delete the newest approved version."
RollsBack(n) ==
  /\ \E f \in approved :
       /\ NpcOf(f[1]) = n
       /\ \A g \in approved : NpcOf(g[1]) = n => g[2] <= f[2]
       /\ approved' = approved \ {f}
  /\ UNCHANGED <<clock, drafted, candidates, passed, script, evolving, notices, faults,
                 process>>

Restart ==
  /\ Ticks /\ Faulty
  /\ started' = clock'
  /\ byNpc' = [n \in Npcs |-> NoFile]
  /\ running' = NoFile
  /\ seenLines' = 0
  /\ outbox' = <<>>
  /\ sent' = <<>>
  /\ UNCHANGED sandbox

Validation(s) == Ends(s) \/ Judges(s) \/ Copies(s) \/ Moves(s)

SkillsNext ==
  \/ \E d \in Drafts : WriterDrafts(d) \/ EvolveDrafts(d)
  \/ CronStarts
  \/ \E s \in Scripts : Validation(s) \/ Killed(s)
  \/ Checks \/ Notifies
  \/ \E n \in Npcs : TryDecide(n) \/ RollsBack(n)
  \/ Decides \/ Polls \/ SendsLine
  \/ Restart

\* Cron runs again and again, and a script that is not killed goes on.
SkillsFairness ==
  /\ WF_skillsVars(CronStarts)
  /\ \A s \in Scripts : WF_skillsVars(Validation(s))

SkillsSpec == SkillsInit /\ [][SkillsNext]_skillsVars /\ SkillsFairness

-----------------------------------------------------------------------------
(* Properties *)

\* "A skill promoted mid-session only takes effect starting the NEXT orchestrator
\* start" (skill_runtime.py:113-115), and a rollback takes effect with the next
\* call (179-180): what begins to run is in approved/, of Pest no younger than the
\* process, and no restart has since passed over a newer one that was due.
RunsTheActive ==
  [][running = NoFile /\ running' # NoFile =>
       LET d == running'[1]
       IN  /\ running' \in approved
           /\ NpcOf(d) = Pest =>
                /\ running'[2] <= started
                /\ \A f \in approved :
                     NpcOf(f[1]) = Pest /\ f[2] <= started => f[2] <= running'[2]]_skillsVars

\* pest_evolve.py:178-181: what the owner is told has been learnt is the candidate
\* of that very run and did pass, though scripts overlap, end early or are killed,
\* and leave other candidates behind.
NoticedWasApproved == \A i \in DOMAIN notices : notices[i] \in passed

\* pest_notice_daemon "forwards anything new" (main.py:871-872): however the plugin
\* comes and goes in between, a process sends no line twice, and in their order.
SentOncePerRun == \A i, j \in DOMAIN sent : i < j => sent[i] < sent[j]

\* "Everything else lands in ./rejected/" (run_skill_validation.sh:12): no
\* candidate stays one for ever, though a script ends at the first that has gone.
EveryCandidateJudged == \A d \in Drafts : d \in candidates ~> d \notin candidates

\* "I've learned something new. Restart the server (or reconnect) so I can use
\* it" (pest_evolve.py:261), and the daemon "forwards anything new" (main.py:872):
\* no line is sent about a skill that this process can use already.  Does not
\* hold: the count of lines seen begins at 0 with the process.
NoticeIsNews ==
  [][Len(sent') > Len(sent) =>
       \A f \in approved : f[1] = notices[sent'[Len(sent')]] => f[2] > started]_skillsVars
=============================================================================
