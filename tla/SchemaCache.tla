---------------------------- MODULE SchemaCache ----------------------------
(***************************************************************************)
(* The cache of compiled schemas (src/protocol/schema.rs).  The router      *)
(* holds the validator's mutex over each of its calls, so they are atomic.  *)
(*                                                                         *)
(* A validator is found by a key, the schema's JSON text, cut after 1024    *)
(* bytes.  Of the text only its head (those bytes) and whether more follows *)
(* is kept; cutting inside a character is a panic.                          *)
(***************************************************************************)
CONSTANTS
  Documents,    \* schemas, by name
  Keys,         \* what the key of a schema may be
  KeyOf,        \* its text, cut after 1024 bytes
  Long,         \* schemas whose text is longer
  SplitsChar,   \* those of them that are cut inside a character
  Foreign,      \* schemas that declare an unsupported dialect
  Compilable,   \* schemas that compile
  Instances,    \* tool arguments
  Accepts,      \* the instances that a compilable schema allows
  NoSchema      \* no entry in the cache

(* A text that was not cut is all of the schema, and JSON of an object is   *)
(* never the beginning of other JSON.                                       *)
ASSUME SchemaAssumption ==
  /\ KeyOf \in [Documents -> Keys]
  /\ Accepts \in [Compilable -> SUBSET Instances]
  /\ SplitsChar \subseteq Long /\ Long \subseteq Documents
  /\ Compilable \subseteq Documents /\ NoSchema \notin Documents
  /\ \A s \in Documents \ Long, t \in Documents : KeyOf[s] = KeyOf[t] => s = t

VARIABLES
  cache,        \* the schema whose validator is cached under a key
  outcome       \* what the last call returned, and history: for what

schemaVars == <<cache, outcome>>

NoCall == [op |-> "none", schema |-> NoSchema, instance |-> NoSchema, result |-> "none"]

SchemaInit == cache = [k \in Keys |-> NoSchema] /\ outcome = NoCall

(* Slip: what does not compile is remembered, too. *)
CompiledAnyway(s) ==
  IF cache[KeyOf[s]] # NoSchema THEN cache[KeyOf[s]] ELSE s

(* The validator that validate and precompile use: the cached one, or else  *)
(* a new one, if the schema compiles.                                       *)
Compiled(s) ==
  IF cache[KeyOf[s]] # NoSchema THEN cache[KeyOf[s]]
  ELSE IF s \in Compilable THEN s ELSE NoSchema

Returns(op, s, i, result) ==
  outcome' = [op |-> op, schema |-> s, instance |-> i, result |-> result]

(* validate: the dialect is looked at before the cache.                     *)
Validate(s, i) ==
  \/ s \in Foreign /\ Returns("validate", s, i, "dialect") /\ UNCHANGED cache
  \/ s \in SplitsChar \ Foreign /\ Returns("validate", s, i, "panic") /\ UNCHANGED cache
  \/ /\ s \notin SplitsChar \union Foreign
     /\ LET v == Compiled(s) IN
        /\ cache' = [cache EXCEPT ![KeyOf[s]] = v]
        /\ Returns("validate", s, i,
             IF v = NoSchema THEN "uncompilable"
             ELSE IF v \in Compilable /\ i \in Accepts[v] THEN "ok" ELSE "invalid")

(* precompile looks at no dialect.                                          *)
Precompile(s) ==
  \/ s \in SplitsChar /\ Returns("precompile", s, NoSchema, "panic") /\ UNCHANGED cache
  \/ /\ s \notin SplitsChar
     /\ cache' = [cache EXCEPT ![KeyOf[s]] = Compiled(s)]
     /\ Returns("precompile", s, NoSchema, IF Compiled(s) = NoSchema THEN "uncompilable" ELSE "ok")

ClearCache ==
  /\ cache' = [k \in Keys |-> NoSchema]
  /\ Returns("clear", NoSchema, NoSchema, "ok")

SchemaNext ==
  \/ \E s \in Documents : Precompile(s) \/ \E i \in Instances : Validate(s, i)
  \/ ClearCache

SchemaSpec == SchemaInit /\ [][SchemaNext]_schemaVars

-----------------------------------------------------------------------------
(* Types; a key holds only a validator of a schema that compiled, under the *)
(* key of that schema.  (schema_key, and compile before insert)             *)
CacheTypeOK ==
  /\ cache \in [Keys -> Compilable \union {NoSchema}]
  /\ \A k \in Keys : cache[k] # NoSchema => KeyOf[cache[k]] = k
  /\ outcome \in [op : {"none", "validate", "precompile", "clear"},
                  schema : Documents \union {NoSchema}, instance : Instances \union {NoSchema},
                  result : {"none", "ok", "invalid", "uncompilable", "dialect", "panic"}]

(* What validate should say of a schema of the supported dialect, without   *)
(* any cache.                                                               *)
Reference(s, i) ==
  IF s \notin Compilable THEN "uncompilable"
  ELSE IF i \in Accepts[s] THEN "ok" ELSE "invalid"

Exact(set) ==
  (outcome.op = "validate" /\ outcome.schema \in set)
    => outcome.result = Reference(outcome.schema, outcome.instance)

(* Whatever was validated, precompiled and cleared before, a schema that    *)
(* shares its key with no other gets the outcome it would get without a     *)
(* cache, however long it is.  (schema_key, validate against precompile,    *)
(* clear_cache and itself)                                                  *)
Alone == {s \in Documents \ (SplitsChar \union Foreign) : \A t \in Documents : KeyOf[t] = KeyOf[s] => t = s}

UnsharedKeysAreExact == Exact(Alone)

(* So does a schema whose text is not cut. *)
WholeTextsAreExact == Exact(Documents \ (Long \union Foreign))
=============================================================================
