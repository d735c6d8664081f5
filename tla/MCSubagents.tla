---------------------------- MODULE MCSubagents ----------------------------
\* Subagents for TLC.  "_keyinfo" and "_intervene" are handled alike, in one
\* loop of consume_subagent_signals: one of them shows what each can do, and
\* together with the stop file how the files of one nudge come apart.
EXTENDS Subagents

MCTexts == <<"_intervene">>
=============================================================================
