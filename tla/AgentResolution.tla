--------------------------- MODULE AgentResolution ----------------------------
(* Which agent an attempt runs (agent-resolution.ts), from what its issue, the *)
(* issue's role and the workflow say: records [kind, binary, retries].         *)
EXTENDS Sequences

Unset == "unset"
DefaultBinary == [k \in {"claude-code", "nano"} |->
                    IF k = "nano" THEN "nano" ELSE "claude"]

(* a ?? b ?? ...                                                               *)
FirstOf(values) ==
  LET set == SelectSeq(values, LAMBDA v : v # Unset)
  IN  IF set = <<>> THEN Unset ELSE Head(set)

BinaryOf(kind) == IF kind = Unset THEN Unset ELSE DefaultBinary[kind]

ResolveAgent(override, role, defaults) ==
  LET kind == FirstOf(<<override.kind, role.kind, defaults.kind, "claude-code">>)
  IN  [kind |-> kind,
       binary |-> FirstOf(<<override.binary, BinaryOf(override.kind), role.binary,
                            BinaryOf(role.kind), defaults.binary, BinaryOf(kind)>>),
       retries |-> FirstOf(<<role.retries, defaults.retries, "3">>)]
===============================================================================
