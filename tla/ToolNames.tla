----------------------------- MODULE ToolNames -----------------------------
(***************************************************************************)
(* Tool names, shared by the registry and the scope checks.                *)
(*                                                                         *)
(* A raw tool name is a record that keeps what parse_tool_name, the        *)
(* lookups and the scope checks tell apart: whether it has a colon,        *)
(* whether blanks surround both of its parts (parse_tool_name trims them), *)
(* whether it has an underscore, and the two parts themselves.  For a name *)
(* without a colon, `name` is all of it.                                   *)
(***************************************************************************)
CONSTANTS
  NamePrefixes, Names,  \* the parts a raw name may be made of
  DottedPrefixes,       \* prefixes with a dot, lower case, digits, - and .
  WellFormedNames,      \* 1..128 lower-case letters, digits, underscores
  EmptyPart,            \* the empty string, as a prefix or as a name
  EnforcePrefixFormat   \* config: registry.enforce_prefix_format

ASSUME NamesAssumption ==
  /\ EnforcePrefixFormat \in BOOLEAN
  /\ EmptyPart \notin DottedPrefixes
  /\ EmptyPart \notin WellFormedNames

RawName ==
  [colon : BOOLEAN, padded : BOOLEAN, underscore : BOOLEAN,
   prefix : NamePrefixes, name : Names]

(* A qualified name, `format!("{}:{}", prefix, name)` of the trimmed parts. *)
QualifiedName == NamePrefixes \X Names

Qualified(raw) == <<raw.prefix, raw.name>>

(***************************************************************************)
(* parse_tool_name: accepted raw names.  Blanks are trimmed first, so they *)
(* do not matter; a prefix needs its dot only when the format is enforced. *)
(***************************************************************************)
ParsesAsToolName(raw) ==
  /\ raw.colon
  /\ raw.prefix # EmptyPart
  /\ raw.name # EmptyPart
  /\ EnforcePrefixFormat => raw.prefix \in DottedPrefixes
  /\ raw.name \in WellFormedNames
=============================================================================
