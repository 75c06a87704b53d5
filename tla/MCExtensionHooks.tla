-------------------------- MODULE MCExtensionHooks --------------------------
(* A suite that follows the split of the tool events, and one written before *)
(* it; the session selects both, or the older one alone.                     *)
EXTENDS ExtensionHooks, TLC

MCDeclares == <<
    {"PreToolUse", "PostToolUse", "PostToolUseFailure", "Stop", "SessionEnd"},
    {"SessionStart", "UserPromptSubmit", "PostToolUse", "SubagentStart", "PreCompact", "SessionEnd"}>>
MCSelections == {{1, 2}, {2}}
=============================================================================
