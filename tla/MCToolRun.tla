------------------------------ MODULE MCToolRun ------------------------------
(***************************************************************************)
(* Values for the constants of ToolRun that a .cfg cannot write.            *)
(***************************************************************************)
EXTENDS ToolRun

CONSTANTS src, facts, index, a, b, narrow, broad, nested

\* Two skills: one restricts the tools and asks for a directory of its own, the
\* other does neither.
MCSkillTools == [s \in Skills |-> IF s = narrow THEN {"read_file", "skill_fetch"} ELSE {}]

MCSkillDir == [s \in Skills |-> IF s = narrow THEN nested ELSE Cwd]

\* The tools of an implementation run, of a run about files, and of read-only.
MCAllTools == Tools

MCFileTools == {"read_file", "memory_fetch", "repoprompt_call"} \cup Writes

MCReadOnlyTools == PureReads \cup {"repoprompt_call"}
=============================================================================
