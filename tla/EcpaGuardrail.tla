---------------------------- MODULE EcpaGuardrail ----------------------------
(***************************************************************************)
(* The rule-based ePCA guardrail (src/guardrail/ecpa.rs): constraint sets,  *)
(* one per tool, loaded from a directory or registered later, and the       *)
(* verdict the router asks for before it forwards a call.                   *)
(*                                                                         *)
(* The lock on the sets is held over each evaluation and each insertion.    *)
(* An expression is kept as the values it `hits`: those its regex matches,  *)
(* or for a comparison those that it allows.                                *)
(***************************************************************************)
EXTENDS Naturals, Sequences

CONSTANTS
  Tools, Fields, Values,
  Missing,      \* an argument that is not given
  Sets,         \* constraint sets that may be registered
  NoSet,        \* a tool without constraints
  Files,        \* .toml files the constraint directory may hold
  Content,      \* what a file holds: a tool and a constraint set, or
  Unreadable    \* nothing that can be read and parsed

(* What a predicate does is told by its name.  Those that search have a      *)
(* regex that must match, those that detect one that must not; comparisons  *)
(* have none, and so has a name of one's own.                               *)
Searches ==
  {"regex_matches", "path_within_root", "command_in_allowlist", "url_host_in_allowlist",
   "url_scheme_allowed"}
Detects == {"not_matches", "no_path_traversal", "not_system_path", "no_dangerous_patterns"}
Compares == {"starts_with", "ends_with", "equals", "not_equals", "length_le", "length_ge"}

CONSTANTS
  OtherNames,   \* names that evaluate_predicate does not know
  DefaultHits   \* for the name of a default predicate, the values it hits

HasRegex(p) == p.name \in Searches \union Detects

Predicate ==
  {p \in [name : Searches \union Detects \union Compares \union OtherNames, fields : Seq(Fields),
          hits : SUBSET Values, compiles : BOOLEAN, required : BOOLEAN] :
     HasRegex(p) \/ p.compiles}

(* block_on_violation is read nowhere, and left out. *)
ToolConstraint == [predicates : Seq(Predicate)]

Arguments == [Fields -> Values \union {Missing}]

ASSUME EcpaAssumption ==
  /\ Sets \subseteq ToolConstraint /\ NoSet \notin Sets /\ Missing \notin Values
  /\ Content \in [Files -> [tool : Tools, set : Sets] \union {Unreadable}]

VARIABLES
  constraints,  \* the constraint set in force for each tool
  phase,        \* "loading" the directory, "serving" the router, or "refused"
  directory,    \* the files it does hold
  pending,      \* those of them that are still to be read
  verdict       \* history: the last evaluation

ecpaVars == <<constraints, phase, directory, pending, verdict>>

(* register_default_constraints *)
Required(name, fields) ==
  [name |-> name, fields |-> fields, hits |-> DefaultHits[name], compiles |-> TRUE,
   required |-> TRUE]

Reading == <<Required("path_within_root", <<"path">>), Required("no_path_traversal", <<"path">>)>>

Writing == Append(Reading, Required("not_system_path", <<"path">>))

Running == <<Required("command_in_allowlist", <<"command">>),
             Required("no_dangerous_patterns", <<"command", "args">>)>>

Fetching == <<Required("url_host_in_allowlist", <<"url">>), Required("url_scheme_allowed", <<"url">>)>>

DefaultSet(t) ==
  CASE t = "fs:read" -> [predicates |-> Reading]
    [] t = "fs:write" -> [predicates |-> Writing]
    [] t = "shell:exec" -> [predicates |-> Running]
    [] t = "net:request" -> [predicates |-> Fetching]
    [] OTHER -> NoSet

NoVerdict == [tool |-> "none", result |-> "none"]

(* with_defaults, or from_directory *)
EcpaInit ==
  /\ directory \in SUBSET Files /\ pending = directory
  /\ \/ phase = "loading" /\ constraints = [t \in Tools |-> NoSet]
     \/ /\ directory = {}
        /\ phase = "serving" /\ constraints = [t \in Tools |-> DefaultSet(t)]
  /\ verdict = NoVerdict

-----------------------------------------------------------------------------
Elements(seq) == {seq[i] : i \in DOMAIN seq}

(* compile_predicate_regex, of all of a set *)
Compiles(set) == \A p \in Elements(set.predicates) : p.compiles

(* Slip: the first field decides in any case. *)
EvaluatePredicateOnFirst(p, args) ==
  p.fields # <<>> =>
    LET value == args[p.fields[1]] IN
    IF value = Missing THEN ~p.required
    ELSE IF p.name \in Detects THEN value \notin p.hits
    ELSE p.name \notin OtherNames /\ value \in p.hits

(* evaluate_predicate: the fields in their order, until one decides.  Only  *)
(* a field that a comparison finds as it should be does not.                *)
Decides(p, value) == value = Missing \/ p.name \notin Compares \/ value \notin p.hits

EvaluatePredicate(p, args) ==
  \A i \in DOMAIN p.fields :
    LET value == args[p.fields[i]] IN
    (Decides(p, value) /\ \A j \in 1..(i - 1) : ~Decides(p, args[p.fields[j]])) =>
      \/ value = Missing /\ ~p.required
      \/ value # Missing /\ p.name \in Searches /\ value \in p.hits
      \/ value # Missing /\ p.name \in Detects /\ value \notin p.hits

(* evaluate_constraints *)
Evaluation(set, args) ==
  IF set = NoSet THEN "UnknownTool"
  ELSE IF ~Compiles(set) THEN "RegexError"
  ELSE IF \A p \in Elements(set.predicates) : p.required => EvaluatePredicate(p, args)
  THEN "satisfied" ELSE "violated"

-----------------------------------------------------------------------------
Usable(f) == Content[f] # Unreadable /\ Compiles(Content[f].set)

Insert(t, set) == constraints' = [constraints EXCEPT ![t] = set]

(* Slip: a file that cannot be used is left out. *)
LoadFileLeniently(f) ==
  /\ phase = "loading" /\ f \in pending
  /\ pending' = pending \ {f}
  /\ \/ /\ Usable(f)
        /\ Insert(Content[f].tool, Content[f].set)
     \/ ~Usable(f) /\ UNCHANGED constraints
  /\ UNCHANGED <<phase, directory, verdict>>

(* from_directory, one entry, in whichever order the directory has them:    *)
(* the first that cannot be read, parsed or compiled ends it.               *)
LoadFile(f) ==
  /\ phase = "loading" /\ f \in pending
  /\ pending' = pending \ {f}
  /\ \/ /\ Usable(f)
        /\ Insert(Content[f].tool, Content[f].set) /\ UNCHANGED phase
     \/ ~Usable(f) /\ phase' = "refused" /\ UNCHANGED constraints
  /\ UNCHANGED <<directory, verdict>>

Loaded ==
  /\ phase = "loading" /\ pending = {} /\ phase' = "serving"
  /\ UNCHANGED <<constraints, directory, pending, verdict>>

(* register_constraints: everything is compiled before the set replaces     *)
(* the tool's former one.                                                   *)
Register(t, set) ==
  /\ phase = "serving"
  /\ \/ Compiles(set) /\ Insert(t, set)
     \/ ~Compiles(set) /\ UNCHANGED constraints
  /\ UNCHANGED <<phase, directory, pending, verdict>>

(* evaluate_constraints; the router lets nothing pass but "satisfied".      *)
Evaluate(t, args) ==
  /\ phase = "serving"
  /\ LET result == Evaluation(constraints[t], args) IN
     verdict' = [tool |-> t, result |-> result, args |-> args, set |-> constraints[t]]
  /\ UNCHANGED <<constraints, phase, directory, pending>>

EcpaNext ==
  \/ \E f \in Files : LoadFile(f)
  \/ Loaded
  \/ \E t \in Tools : (\E set \in Sets : Register(t, set)) \/ (\E args \in Arguments : Evaluate(t, args))

EcpaSpec == EcpaInit /\ [][EcpaNext]_ecpaVars

-----------------------------------------------------------------------------
(* Types; a set in force compiles, so that no evaluation fails over a regex *)
(* and a set that does not compile leaves the former one in force.          *)
(* (register_constraints)                                                   *)
EcpaTypeOK ==
  /\ \A t \in Tools : constraints[t] \in Sets \union {NoSet, DefaultSet(t)}
  /\ \A t \in Tools : constraints[t] # NoSet =>
       \A p \in Elements(constraints[t].predicates) : p.compiles
  /\ phase \in {"loading", "serving", "refused"}
  /\ directory \subseteq Files /\ pending \subseteq directory
  /\ verdict # NoVerdict => verdict.result # "RegexError"

(* A directory is loaded whole or not at all: a guardrail that serves was   *)
(* given every file, so that no tool with a file runs without constraints.  *)
(* (the errors of from_directory)                                           *)
LoadedWhole ==
  phase = "serving" =>
    \A f \in directory : Usable(f) /\ constraints[Content[f].tool] # NoSet

(* What a predicate means for one argument.                                 *)
Holds(p, value) ==
  IF value = Missing THEN ~p.required
  ELSE \/ p.name \in Searches \union Compares /\ value \in p.hits
       \/ p.name \in Detects /\ value \notin p.hits

HoldsEverywhere(p, args) == \A f \in Elements(p.fields) : Holds(p, args[f])

(* A set whose predicates name one field each, or are required and have no  *)
(* regex, is satisfied if and only if every required predicate holds of     *)
(* every field it names.  (the early returns of evaluate_predicate)         *)
Simple(p) == Len(p.fields) = 1 \/ (p.name \in Compares /\ p.required)

SimpleSetsAreExact ==
  (verdict # NoVerdict /\ verdict.set # NoSet /\ \A p \in Elements(verdict.set.predicates) : Simple(p))
    => (verdict.result = "satisfied" <=>
          \A p \in Elements(verdict.set.predicates) : p.required => HoldsEverywhere(p, verdict.args))
=============================================================================
