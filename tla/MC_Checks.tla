------------------------------ MODULE MC_Checks ------------------------------
(* The checks that a tool call meets, each on a small instance of its own.   *)
EXTENDS Checks, TLC

CONSTANT MaxTime      \* bound on the limiter's clock

InTime == now <= MaxTime

CallersAlike == Permutations(Callers) \union Permutations(Evaluations)

-----------------------------------------------------------------------------
(* Registry: two servers, two prefixes of which one is not in reverse-DNS    *)
(* form, names with and without blanks.                                      *)
MCPrefixes == {"com.a", "com.b", "plain", ""}
MCDotted == {"com.a", "com.b"}
MCNames == {"x", "y", "Bad", ""}
MCWellFormed == {"x", "y"}

(* Schemas: short ones, one that does not compile and one of another         *)
(* dialect; two long ones with the same first 1024 bytes, one long one of    *)
(* its own, and one that is cut inside a character.                          *)
MCKeys == [s \in Documents |-> IF s = "long2" THEN "long1" ELSE s]
MCAccepts ==
  [s \in Compilable |-> CASE s = "small" -> {"i"} [] s = "other" -> {"j"} [] s = "long2" -> {}
                          [] OTHER -> Instances]

(* Guardrail: two tools, two arguments, and a set for each way a predicate   *)
(* is decided.                                                               *)
P(name, fields, hits, required) ==
  [name |-> name, fields |-> fields, hits |-> hits, compiles |-> TRUE, required |-> required]
Set(predicates) == [predicates |-> predicates]

Within == P("path_within_root", <<"path">>, {"good"}, TRUE)
Outside == P("no_path_traversal", <<"path">>, {"bad"}, TRUE)
Broken == [Within EXCEPT !.compiles = FALSE]

Path == Set(<<Within, Outside>>)
Both == Set(<<P("equals", <<"path", "args">>, {"good"}, TRUE)>>)
Warns == Set(<<P("regex_matches", <<"args">>, {"good"}, FALSE), Outside>>)
Unknown == Set(<<P("our_regex", <<"path">>, {}, TRUE)>>)
Faulty == Set(<<Within, Broken>>)
Several == Set(<<P("no_dangerous_patterns", <<"path", "args">>, {"bad"}, TRUE)>>)

MCDefaultHits ==
  ("path_within_root" :> {"good", "odd"}) @@ ("no_path_traversal" :> {"odd"})
    @@ ("not_system_path" :> {"bad"})

MCSets == {Path, Both, Warns, Unknown, Faulty, Several}

In(tool, set) == [tool |-> tool, set |-> set]
MCContent ==
  ("f1" :> In("fs:read", Path)) @@ ("f2" :> In("fs:write", Both)) @@ ("f3" :> In("fs:read", Warns))
    @@ ("f4" :> In("fs:write", Faulty)) @@ ("f5" :> Unreadable)

(* Egress: four patterns of one text each that overlap, where one begins    *)
(* where another ends and one is part of another, and one like that for     *)
(* comments, with anything but an opening or a "b" in between; texts long   *)
(* enough for a replacement of one or two words to complete it.             *)
Between == UNION {[1..n -> {"a", "c", "redacted"}] : n \in 0..4}
Comment == {<<"open">> \o words \o <<"close">> : words \in Between}

MCPatterns == <<{<<"b">>}, {<<"a", "b">>}, {<<"b", "c">>}, {<<"c", "c">>}, Comment>>

MCReplacement == <<"redacted">>

MCTexts == {<<>>, <<"b", "c">>, <<"a", "b", "c">>, <<"a", "b", "b", "c">>, <<"a", "redacted", "b">>,
            <<"a", "a", "b", "c", "c">>,
            <<"open", "b", "close">>, <<"open", "b", "close", "open", "close">>}

(* Policy: two evaluations, two scopes, and policy files of the shapes that  *)
(* policies/default.cedar has: by name, by scope, and a forbid with an       *)
(* exception.                                                                *)
Permit ==
  [effect |-> "permit", principal |-> Anything, action |-> Anything, type |-> Anything, resource |-> Anything,
   scope |-> Anything]
Forbid == [Permit EXCEPT !.effect = "forbid"]

CallsWithScope == [Permit EXCEPT !.action = "tools/call", !.type = "Tool", !.resource = "echo",
                                 !.scope = "call"]
ListForAll == [Permit EXCEPT !.action = "tools/list"]
AdminOnly == [Forbid EXCEPT !.action = "tools/call", !.scope = "admin"]
CallersOnly == [Permit EXCEPT !.principal = "call"]

MCFiles ==
  {{CallsWithScope, ListForAll}, {Permit, AdminOnly}, {CallsWithScope, AdminOnly},
   {CallersOnly, ListForAll}}

(* Limiter: two callers on one key and a default rule, which a rule for all  *)
(* overrules and one for somebody else does not; a token has two parts, so   *)
(* that rates of half a token and one and a half leave fractions.            *)
MCMinPriority == -8

MCLimitKeys == {[scope |-> "user", value |-> "ann"]}

RateRule(id, scope, value, capacity, rate, priority) ==
  [id |-> id, scope |-> scope, value |-> value, enabled |-> TRUE, capacity |-> capacity,
   rate |-> rate, limit |-> rate, priority |-> priority]

Slow == RateRule("slow", "user", AnyValue, 2, 1, 1)
Fast == RateRule("fast", "global", AnyValue, 1, 3, 2)
Other == RateRule("other", "user", "bob", 2, 2, 3)

MCRules == {Fast, Other}
=============================================================================
