---------------------------- MODULE ProcessProofs ----------------------------
(***************************************************************************)
(* That a process that serves is the one that was configured, and that its *)
(* loop over stdin answers each line once, proved for any upstreams, any   *)
(* settings and any number of lines; and what the services beside the      *)
(* pipeline promise: the audit producers, for every number of callers and  *)
(* every sequence of producers, and the control plane, for every set of    *)
(* policies, tenants, writers and refreshes.                               *)
(*                                                                         *)
(* The first is an invariant of phases: it says what main has settled when *)
(* it is at one of them, and that nothing later unsettles it.  For the     *)
(* second, the state between two awaits has to remember what the line that *)
(* is being handled was found to be.                                       *)
(***************************************************************************)
EXTENDS Process, Services, FiniteSetTheorems, TLAPS

-----------------------------------------------------------------------------
(* Starting.  The phases after each of main's decisions.                    *)
HttpPhases == {"serving", "draining"}
Vetted == {"router", "transport", "stdio"} \union HttpPhases
Complete == {"policy"} \union Vetted
Tabled == {"upstreams"} \union Complete
Configuring == {"registry", "proxy"} \union Tabled

FileRead == IF file = Missing THEN DefaultConfig ELSE file

(* The table as far as it is filled. *)
TableInv ==
  /\ waiting \subseteq Configured
  /\ \A n \in Configured \ waiting : table[n] = EntryOf(config.upstreams[n])
  /\ \A n \in Names \ Configured : table[n].echo <=> n = "echo"
  /\ table["echo"] # NoEntry

StartInv ==
  /\ file \in Settings \union {Missing, Broken}
  /\ DOMAIN table = Names
  /\ phase = "configure" \/ phase \in Configuring \union Over
  /\ phase \in Configuring => file # Broken /\ config = Overridden(FileRead)
  /\ phase \in {"configure", "registry", "proxy"} => table = [n \in Names |-> NoEntry]
  /\ phase \in Tabled => TableInv
  /\ phase \in Complete => waiting = {}
  /\ phase \in Vetted => (config.policy => policyFile # Broken /\ (policyFile = "good" <=> "authorizer" \in features))
  /\ phase \in HttpPhases => routes = Routes

LEMMA StartInit == ProcessInit => StartInv
BY DEF ProcessInit, StartInv, Configuring, Tabled, Complete, Vetted, HttpPhases

(* An entry for an upstream is one. *)
LEMMA EntriesAreSome ==
  ASSUME NEW u PROVE EntryOf(u) # NoEntry
BY DEF EntryOf, NoEntry

(* A step that leaves the parts alone and does not go forward. *)
LEMMA PartsStay ==
  ASSUME StartInv, UNCHANGED <<world, parts>>,
         phase' = phase \/ phase' \in Over \/ (phase = "serving" /\ phase' = "draining")
  PROVE  StartInv'
<1>1. CASE phase' = phase
  BY <1>1 DEF StartInv, world, parts, FileRead, Overridden, TableInv, Configured, EntryOf, Routes
<1>2. CASE phase' \in Over
  BY <1>2 DEF StartInv, world, parts, Over, Configuring, Tabled, Complete, Vetted, HttpPhases
<1>3. CASE phase = "serving" /\ phase' = "draining"
  <2>1. phase \in Configuring /\ phase \in Tabled /\ phase \in Complete /\ phase \in Vetted /\ phase \in HttpPhases
    BY <1>3 DEF Configuring, Tabled, Complete, Vetted, HttpPhases
  <2>2. phase' \in Configuring /\ phase' \notin {"configure", "registry", "proxy"}
    BY <1>3 DEF Configuring, Tabled, Complete, Vetted, HttpPhases
  <2> QED  BY <2>1, <2>2 DEF StartInv, world, parts, FileRead, Overridden, TableInv, Configured, EntryOf, Routes
<1> QED  BY <1>1, <1>2, <1>3

LEMMA LoadConfigKeeps ==
  ASSUME StartInv, LoadConfig PROVE StartInv'
<1>1. table' = [n \in Names |-> NoEntry] /\ UNCHANGED <<file, override, policyFile>>
  BY DEF LoadConfig, Quiet, world, StartInv
<1>2. CASE phase' = "failed"
  BY <1>1, <1>2 DEF StartInv, Over, Configuring, Tabled, Complete, Vetted, HttpPhases
<1>3. CASE file # Broken /\ phase' = "registry" /\ config' = Overridden(FileRead)
  <2>1. config' = Overridden(FileRead)'
    BY <1>1, <1>3 DEF Overridden, FileRead
  <2> QED  BY <1>1, <1>3, <2>1 DEF StartInv, Configuring, Tabled, Complete, Vetted, HttpPhases
<1> QED  BY <1>2, <1>3 DEF LoadConfig, FileRead

LEMMA RegisterEchoToolsKeeps ==
  ASSUME StartInv, RegisterEchoTools PROVE StartInv'
<1>1. phase = "registry" /\ phase' = "proxy" /\ UNCHANGED <<file, override, policyFile, config, table>>
  BY DEF RegisterEchoTools, Quiet, world
<1>2. FileRead' = FileRead /\ Overridden(FileRead)' = Overridden(FileRead)
  BY <1>1 DEF FileRead, Overridden
<1> QED  BY <1>1, <1>2 DEF StartInv, Configuring, Tabled, Complete, Vetted, HttpPhases

LEMMA RegisterEchoKeeps ==
  ASSUME StartInv, RegisterEcho PROVE StartInv'
<1>1. phase = "proxy" /\ phase' \in {"policy", "upstreams"} /\ UNCHANGED <<file, override, policyFile, config>>
  BY DEF RegisterEcho, Quiet, world
<1>2. FileRead' = FileRead /\ Overridden(FileRead)' = Overridden(FileRead) /\ Configured' = Configured
  BY <1>1 DEF FileRead, Overridden, Configured
<1>3. table = [n \in Names |-> NoEntry] /\ file # Broken /\ config = Overridden(FileRead)
  BY <1>1 DEF StartInv, Configuring
<1>4. waiting' = Configured /\ (phase' = "policy" => waiting' = {})
  BY DEF RegisterEcho
<1>5. TableInv'
  <2>1. table' = [table EXCEPT !["echo"] = [transport |-> "http", url |-> FALSE, echo |-> TRUE]]
    BY DEF RegisterEcho
  <2>2. table'["echo"] = [transport |-> "http", url |-> FALSE, echo |-> TRUE]
    BY <1>3, <2>1, ProcessAssumption
  <2>3. \A n \in Names \ {"echo"} : table'[n] = NoEntry
    BY <1>3, <2>1
  <2>4. \A n \in Names : table'[n].echo <=> n = "echo"
    BY <2>2, <2>3 DEF NoEntry
  <2>5. table'["echo"] # NoEntry
    BY <2>2 DEF NoEntry
  <2> QED  BY <1>2, <1>4, <2>4, <2>5 DEF TableInv, NoEntry
<1>6. DOMAIN table' = Names
  BY <1>3 DEF RegisterEcho
<1> QED  BY <1>1, <1>2, <1>3, <1>4, <1>5, <1>6 DEF StartInv, Configuring, Tabled, Complete, Vetted, HttpPhases

LEMMA RegisterUpstreamKeeps ==
  ASSUME StartInv, NEW n \in Names, RegisterUpstream(n) PROVE StartInv'
<1>1. /\ phase = "upstreams" /\ phase' \in {"policy", "upstreams"}
      /\ UNCHANGED <<file, override, policyFile, config>>
  BY DEF RegisterUpstream, Quiet, world
<1>2. FileRead' = FileRead /\ Overridden(FileRead)' = Overridden(FileRead) /\ Configured' = Configured
  BY <1>1 DEF FileRead, Overridden, Configured
<1>3. TableInv /\ file # Broken /\ config = Overridden(FileRead) /\ DOMAIN table = Names
  BY <1>1 DEF StartInv, Configuring, Tabled
<1>4. waiting' = waiting \ {n} /\ (phase' = "policy" => waiting' = {})
  BY <1>1 DEF RegisterUpstream
<1>5. n \in Configured
  BY <1>3 DEF RegisterUpstream, TableInv
<1>6. TableInv'
  <2>1. table' = [table EXCEPT ![n] = EntryOf(config.upstreams[n])]
    BY DEF RegisterUpstream
  <2>2. \A m \in Names : table'[m] = IF m = n THEN EntryOf(config.upstreams[n]) ELSE table[m]
    BY <1>3, <2>1
  <2>3. \A m \in Configured' \ waiting' : table'[m] = EntryOf(config'.upstreams[m])
    BY <1>1, <1>2, <1>3, <1>4, <2>2 DEF TableInv, Configured
  <2>4. \A m \in Names \ Configured' : table'[m].echo <=> m = "echo"
    BY <1>2, <1>3, <1>5, <2>2 DEF TableInv
  <2>5. table'["echo"] # NoEntry
    BY <1>3, <2>2, ProcessAssumption, EntriesAreSome DEF TableInv
  <2> QED  BY <1>2, <1>3, <1>4, <2>3, <2>4, <2>5 DEF TableInv, EntryOf
<1>7. DOMAIN table' = Names
  BY <1>3 DEF RegisterUpstream
<1> QED  BY <1>1, <1>2, <1>3, <1>4, <1>6, <1>7 DEF StartInv, Configuring, Tabled, Complete, Vetted, HttpPhases

(* The parts that main has built when the policy file is read stay.         *)
LEMMA LaterSteps ==
  ASSUME StartInv, phase \in Complete, phase' \in Complete \union Over,
         UNCHANGED <<world, config, waiting, table>>,
         phase' \in Vetted =>
           (config.policy => policyFile # Broken /\ (policyFile = "good" <=> "authorizer" \in features')),
         phase' \in HttpPhases => routes' = Routes
  PROVE  StartInv'
<1>1. UNCHANGED <<file, override, policyFile, config, waiting, table>>
  BY DEF world
<1>2. /\ FileRead' = FileRead /\ Overridden(FileRead)' = Overridden(FileRead)
      /\ Configured' = Configured /\ Routes' = Routes
  BY <1>1 DEF FileRead, Overridden, Configured, Routes
<1>3. TableInv /\ waiting = {} /\ file # Broken /\ config = Overridden(FileRead) /\ DOMAIN table = Names
  BY DEF StartInv, Configuring, Tabled
<1>4. TableInv'
  BY <1>1, <1>2, <1>3 DEF TableInv, EntryOf
<1>5. phase' \notin {"configure", "registry", "proxy"} /\ phase' \in Configuring \union Over
  BY DEF Configuring, Tabled, Complete, Vetted, HttpPhases, Over
<1> QED  BY <1>1, <1>2, <1>3, <1>4, <1>5 DEF StartInv

LEMMA LoadPoliciesKeeps ==
  ASSUME StartInv, LoadPolicies PROVE StartInv'
<1>1. phase = "policy" /\ UNCHANGED <<world, config, waiting, table, routes>>
  BY DEF LoadPolicies, Quiet
<1>2. CASE config.policy /\ policyFile = Broken
  <2>1. phase' = "failed"
    BY <1>2 DEF LoadPolicies
  <2> QED  BY <1>1, <2>1, LaterSteps DEF Complete, Vetted, HttpPhases, Over
<1>3. CASE ~(config.policy /\ policyFile = Broken)
  <2>1. phase' = "router" /\ features' = IF config.policy /\ policyFile = "good" THEN {"authorizer"} ELSE {}
    BY <1>3 DEF LoadPolicies
  <2>2. config.policy => policyFile # Broken /\ (policyFile = "good" <=> "authorizer" \in features')
    BY <1>3, <2>1
  <2> QED  BY <1>1, <2>1, <2>2, LaterSteps DEF Complete, Vetted, HttpPhases
<1> QED  BY <1>2, <1>3

LEMMA BuildRouterKeeps ==
  ASSUME StartInv, BuildRouter PROVE StartInv'
<1>1. /\ phase = "router" /\ phase' = "transport"
      /\ UNCHANGED <<world, config, waiting, table, routes>>
  BY DEF BuildRouter, Quiet
<1>2. "authorizer" \in features' <=> "authorizer" \in features
  BY DEF BuildRouter
<1>3. config.policy => policyFile # Broken /\ (policyFile = "good" <=> "authorizer" \in features)
  BY <1>1 DEF StartInv, Vetted
<1> QED  BY <1>1, <1>2, <1>3, LaterSteps DEF Complete, Vetted, HttpPhases

LEMMA StartTransportKeeps ==
  ASSUME StartInv, StartTransport PROVE StartInv'
<1>1. phase = "transport" /\ UNCHANGED <<world, config, waiting, table, features>>
  BY DEF StartTransport, Quiet
<1>2. phase' \in {"serving", "failed", "stdio", "done"} /\ (phase' = "serving" => routes' = Routes)
  BY DEF StartTransport
<1>3. config.policy => policyFile # Broken /\ (policyFile = "good" <=> "authorizer" \in features)
  BY <1>1 DEF StartInv, Vetted
<1> QED  BY <1>1, <1>2, <1>3, LaterSteps DEF Complete, Vetted, HttpPhases, Over

LEMMA StartInvStep ==
  ASSUME StartInv, [ProcessNext]_processVars
  PROVE  StartInv'
<1>1. CASE Start
  BY <1>1, LoadConfigKeeps, RegisterEchoToolsKeeps, RegisterEchoKeeps, RegisterUpstreamKeeps,
     LoadPoliciesKeeps, BuildRouterKeeps, StartTransportKeeps DEF Start
<1>2. CASE Signal \/ Drained \/ StdioOver
  <2>1. phase' \in Over \/ (phase = "serving" /\ phase' = "draining")
    BY <1>2 DEF Signal, Drained, StdioOver, Over
  <2> QED  BY <1>2, <2>1, PartsStay DEF Signal, Drained, StdioOver, Fixed
<1>3. CASE ServeStdio \/ StdinChanges \/ UNCHANGED processVars
  BY <1>3, PartsStay DEF ServeStdio, StdinChanges, processVars
<1>4. CASE \E c \in Connections : Accept(c) \/ Answered(c) \/ Leave(c)
  BY <1>4, PartsStay DEF Accept, Answered, Leave, Fixed
<1> QED  BY <1>1, <1>2, <1>3, <1>4 DEF ProcessNext

(* Who clients are told of: a setting of the file has a value the variable  *)
(* can take its place.                                                      *)
LEMMA AuthAsWritten ==
  ASSUME file \in Settings \union {Missing, Broken}, file # Broken
  PROVE  Overridden(FileRead).auth
           <=> IF override = "unset" THEN file # Missing /\ file.auth ELSE override = "true"
<1>1. DefaultConfig.auth = FALSE /\ "auth" \in DOMAIN DefaultConfig
  BY DEF DefaultConfig
<1>2. CASE file = Missing
  BY <1>1, <1>2 DEF Overridden, FileRead
<1>3. CASE file \in Settings /\ file # Missing
  <2>1. file.auth \in BOOLEAN /\ "auth" \in DOMAIN file
    BY <1>3, ProcessAssumption DEF Config
  <2> QED  BY <1>3, <2>1 DEF Overridden, FileRead
<1> QED  BY <1>2, <1>3

LEMMA StartInvImplies == StartInv => ServesAsConfigured
<1>1. SUFFICES ASSUME StartInv, Serving PROVE ServesAsConfigured
  BY DEF ServesAsConfigured
<1>2. phase \in Vetted /\ phase \in Complete /\ phase \in Tabled /\ phase \in Configuring
  BY <1>1 DEF Serving, Configuring, Tabled, Complete, Vetted, HttpPhases
<1>3. TableInv /\ waiting = {} /\ file # Broken /\ config = Overridden(FileRead)
  BY <1>1, <1>2 DEF StartInv
<1>4. phase # "stdio" => routes = Routes
  BY <1>1 DEF StartInv, Serving, HttpPhases
<1>5. "/.well-known/oauth-protected-resource" \in Routes <=> config.auth
  BY DEF Routes
<1>6. config.policy => policyFile # Broken /\ (policyFile = "good" <=> "authorizer" \in features)
  BY <1>1, <1>2 DEF StartInv
<1>7. config.auth <=> IF override = "unset" THEN file # Missing /\ file.auth ELSE override = "true"
  BY <1>1, <1>3, AuthAsWritten DEF StartInv
<1> QED  BY <1>3, <1>4, <1>5, <1>6, <1>7 DEF ServesAsConfigured, TableInv

(* For any settings: the process that serves is the one that was            *)
(* configured.  (main, sections 1 to 8, and load_with_env)                  *)
THEOREM ServesWhatWasConfigured == ProcessSpec => []ServesAsConfigured
BY StartInit, StartInvStep, StartInvImplies, PTL DEF ProcessSpec

-----------------------------------------------------------------------------
(* The loop over stdin.  What a line that has been answered has.            *)
Handled(n) ==
  \/ input[n] = Blank
  \/ n \in silent /\ Parses(input[n]) /\ MayBeSilent(input[n])
  \/ \E i \in DOMAIN output : output[i].line = n

(* An answer with this id may be given to a line. *)
Fits(line, id) ==
  (Parses(line) /\ Messages(line)[1].method \in AnsweredHere) => id \in {Messages(line)[1].id, NullId}

AnyId == Ids \union {NullId, BadId, NoId}

LineInv ==
  /\ input \in Seq(Lines \union {Blank})
  /\ next \in 1..(Len(input) + 1)
  /\ answer \in AnyId
  /\ output \in Seq([line : Nat, id : AnyId])
  /\ silent \subseteq 1..(next - 1)
  /\ stage \in {"routing", "writing"} => next \in DOMAIN input /\ input[next] # Blank
  /\ stage = "routing" => Parses(input[next])
  /\ stage = "writing" => Fits(input[next], answer)

AnsweredInv ==
  /\ \A i, j \in DOMAIN output : i < j => output[i].line < output[j].line
  /\ \A n \in 1..(next - 1) : Handled(n)
  /\ \A i \in DOMAIN output :
       /\ output[i].line \in 1..(next - 1) /\ output[i].line \notin silent
       /\ input[output[i].line] # Blank /\ Fits(input[output[i].line], output[i].id)

StdioInv == LineInv /\ AnsweredInv

LEMMA StdioInitInv == StdioInit => StdioInv
<1>1. SUFFICES ASSUME StdioInit PROVE StdioInv
  OBVIOUS
<1>2. DOMAIN output = {} /\ Len(input) = 0 /\ next = 1 /\ silent = {}
  BY <1>1 DEF StdioInit
<1>3. LineInv
  BY <1>1, <1>2 DEF StdioInit, LineInv, AnyId
<1>4. AnsweredInv
  BY <1>2 DEF AnsweredInv
<1> QED  BY <1>3, <1>4 DEF StdioInv

(* What handle_message gives back for a line: a failure that is taken for a *)
(* notification's has a reason, and an answer has the line's id or none.    *)
LEMMA ResultsFit ==
  ASSUME NEW b \in Lines, Parses(b), NEW result \in Results(b)
  PROVE  /\ ~result.ok /\ result.says => MayBeSilent(b)
         /\ result.ok \/ ~result.says => Fits(b, result.id)
         /\ result.id \in AnyId
<1> DEFINE raw == b.items[1]
           m == Messages(b)[1]
<1>1. b.items \in Seq(RawItem) /\ b.items # <<>>
  BY StdioAssumption DEF Body, Parses
<1>2. 1 \in DOMAIN b.items /\ raw \in RawItem
  BY <1>1
<1>3. m = Parsed(raw) /\ ParsesSingle(raw)
  BY <1>2 DEF Messages, Parses
<1>4. m.id \in AnyId /\ m.id = raw.id
  BY <1>2, <1>3 DEF RawItem, Parsed, AnyId
<1>5. CASE m.kind = "Request"
  <2>1. result \in ResultsOfRequest(m)
    BY <1>5 DEF Results
  <2>2. CASE m.method = "notifications/initialized"
    BY <1>5, <2>1, <2>2 DEF ResultsOfRequest, Failure, MayBeSilent, Fits, AnsweredHere, AnyId
  <2>3. CASE m.method # "notifications/initialized"
    <3>1. \/ result \in {Answer(m.id), Failure(FALSE)}
          \/ m.method \notin AnsweredHere /\ \E id \in Ids \union {NullId} : result = Answer(id)
          \/ m.names /\ result = Failure(TRUE)
      BY <2>1, <2>3 DEF ResultsOfRequest
    <3> QED  BY <1>4, <3>1 DEF Answer, Failure, MayBeSilent, Fits, AnyId
  <2> QED  BY <2>2, <2>3
<1>6. CASE m.kind # "Request"
  <2>1. result = Failure(TRUE) \/ result = Failure(m.method \in SpelledOut)
    BY <1>6 DEF Results
  <2> QED  BY <1>6, <2>1 DEF Failure, MayBeSilent, Fits, AnyId
<1> QED  BY <1>5, <1>6

(* The client's steps: a line that was there stays what it was. *)
LEMMA TypeKeeps ==
  ASSUME StdioInv, NEW b \in Lines \union {Blank}, Type(b)
  PROVE  StdioInv'
<1>1. input' = Append(input, b) /\ UNCHANGED <<next, stage, answer, output, silent>>
  BY DEF Type
<1>2. input' \in Seq(Lines \union {Blank}) /\ Len(input') = Len(input) + 1 /\ DOMAIN input \subseteq DOMAIN input'
  BY <1>1 DEF StdioInv, LineInv
<1>3. \A n \in DOMAIN input : input'[n] = input[n]
  BY <1>1 DEF StdioInv, LineInv
<1>4. 1..(next - 1) \subseteq DOMAIN input
  BY DEF StdioInv, LineInv
<1>5. LineInv'
  BY <1>1, <1>2, <1>3 DEF StdioInv, LineInv, Fits
<1>6. AnsweredInv'
  <2>1. \A n \in 1..(next - 1) : Handled(n)'
    BY <1>1, <1>3, <1>4 DEF StdioInv, AnsweredInv, Handled
  <2> QED  BY <1>1, <1>3, <1>4, <2>1 DEF StdioInv, AnsweredInv, Fits
<1> QED  BY <1>5, <1>6 DEF StdioInv

(* The loop goes on to the next line: the one it leaves is handled.         *)
LEMMA NextLine ==
  ASSUME StdioInv, next \in DOMAIN input, input' = input, answer' = answer, stage' = "reading",
         next' = next + 1, output' = output,
         \/ input[next] = Blank /\ silent' = silent
         \/ /\ silent' = silent \union {next}
            /\ Parses(input[next]) /\ MayBeSilent(input[next])
  PROVE  StdioInv'
<1>1. LineInv'
  <2>1. next \in 1..Len(input) /\ Len(input) \in Nat
    BY DEF StdioInv, LineInv
  <2>2. next' \in 1..(Len(input') + 1)
    BY <2>1
  <2>3. silent' \subseteq 1..(next' - 1)
    <3>1. next' - 1 = next /\ next \in Nat /\ next >= 1
      BY <2>1
    <3>2. silent \subseteq 1..(next - 1)
      BY DEF StdioInv, LineInv
    <3>3. 1..(next - 1) \union {next} \subseteq 1..next
      BY <3>1
    <3>4. silent' \subseteq silent \union {next}
      OBVIOUS
    <3> QED  BY <3>1, <3>2, <3>3, <3>4
  <2> QED  BY <2>2, <2>3 DEF StdioInv, LineInv
<1>2. \A n \in 1..(next' - 1) : Handled(n)'
  <2>1. SUFFICES ASSUME NEW n \in 1..(next' - 1) PROVE Handled(n)'
    OBVIOUS
  <2>2. CASE n = next
    BY <2>2 DEF Handled
  <2>3. CASE n # next
    <3>1. n \in 1..(next - 1)
      BY <2>1, <2>3 DEF StdioInv, LineInv
    <3> QED  BY <3>1 DEF StdioInv, AnsweredInv, Handled
  <2> QED  BY <2>2, <2>3
<1>3. \A i \in DOMAIN output :
        /\ output[i].line \in 1..(next' - 1) /\ output[i].line \notin silent'
        /\ input[output[i].line] # Blank /\ Fits(input[output[i].line], output[i].id)
  BY DEF StdioInv, LineInv, AnsweredInv
<1>4. AnsweredInv'
  BY <1>2, <1>3 DEF StdioInv, AnsweredInv, Fits
<1> QED  BY <1>1, <1>4 DEF StdioInv

(* The loop waits elsewhere, with the same line and the same output.        *)
LEMMA SameLine ==
  ASSUME StdioInv, UNCHANGED <<input, next, output, silent>>, answer' \in AnyId,
         stage' \in {"routing", "writing"} => next \in DOMAIN input /\ input[next] # Blank,
         stage' = "routing" => Parses(input[next]),
         stage' = "writing" => Fits(input[next], answer')
  PROVE  StdioInv'
<1>1. LineInv'
  BY DEF StdioInv, LineInv, Fits
<1>2. \A n \in 1..(next - 1) : Handled(n)'
  BY DEF StdioInv, AnsweredInv, Handled
<1>3. AnsweredInv'
  BY <1>2 DEF StdioInv, AnsweredInv, Fits
<1> QED  BY <1>1, <1>3 DEF StdioInv

LEMMA ReadLineKeeps ==
  ASSUME StdioInv, ReadLine PROVE StdioInv'
<1>1. next \in DOMAIN input /\ answer \in AnyId
  BY DEF ReadLine, StdioInv, LineInv
<1>2. UNCHANGED <<input, output, silent>>
  BY DEF ReadLine
<1>3. CASE input[next] = Blank /\ next' = next + 1 /\ UNCHANGED <<stage, answer>>
  BY <1>1, <1>2, <1>3, NextLine DEF ReadLine
<1>4. CASE stage' = "ended" /\ UNCHANGED <<next, answer>>
  BY <1>1, <1>2, <1>4, SameLine
<1>5. CASE input[next] # Blank /\ ~Parses(input[next]) /\ stage' = "writing" /\ answer' = NullId /\ next' = next
  BY <1>1, <1>2, <1>5, SameLine DEF Fits, AnyId
<1>6. CASE input[next] # Blank /\ Parses(input[next]) /\ stage' = "routing" /\ UNCHANGED <<next, answer>>
  BY <1>1, <1>2, <1>6, SameLine
<1> QED  BY <1>3, <1>4, <1>5, <1>6 DEF ReadLine

LEMMA RouterReturnsKeeps ==
  ASSUME StdioInv, RouterReturns PROVE StdioInv'
<1>1. /\ stage = "routing" /\ next \in DOMAIN input /\ input[next] # Blank
      /\ Parses(input[next]) /\ input[next] \in Lines
  BY DEF RouterReturns, StdioInv, LineInv
<1>2. PICK result \in Results(input[next]) :
        \/ /\ result.ok \/ ~result.says
           /\ stage' = "writing" /\ answer' = result.id
           /\ UNCHANGED <<next, silent>>
        \/ /\ ~result.ok /\ result.says
           /\ stage' = "reading" /\ next' = next + 1 /\ silent' = silent \union {next}
           /\ UNCHANGED answer
  BY DEF RouterReturns
<1>3. UNCHANGED <<input, output>>
  BY DEF RouterReturns
<1>4. /\ ~result.ok /\ result.says => MayBeSilent(input[next])
      /\ result.ok \/ ~result.says => Fits(input[next], result.id)
      /\ result.id \in AnyId
  BY <1>1, ResultsFit
<1>5. CASE /\ result.ok \/ ~result.says
           /\ stage' = "writing" /\ answer' = result.id
           /\ UNCHANGED <<next, silent>>
  BY <1>1, <1>3, <1>4, <1>5, SameLine
<1>6. CASE /\ ~result.ok /\ result.says
           /\ stage' = "reading" /\ next' = next + 1 /\ silent' = silent \union {next}
           /\ UNCHANGED answer
  BY <1>1, <1>3, <1>4, <1>6, NextLine
<1> QED  BY <1>2, <1>5, <1>6

LEMMA WriteMessageKeeps ==
  ASSUME StdioInv, WriteMessage PROVE StdioInv'
<1> DEFINE written == [line |-> next, id |-> answer]
<1>1. /\ next \in DOMAIN input /\ input[next] # Blank /\ Fits(input[next], answer)
      /\ UNCHANGED <<input, answer, silent>>
  BY DEF WriteMessage, StdioInv, LineInv
<1>2. CASE stage' = "ended" /\ UNCHANGED <<output, next>>
  BY <1>1, <1>2, SameLine DEF StdioInv, LineInv
<1>3. CASE output' = Append(output, written) /\ stage' = "reading" /\ next' = next + 1
  <2>1. /\ next \in Nat /\ written \in [line : Nat, id : AnyId]
        /\ output \in Seq([line : Nat, id : AnyId])
    BY DEF StdioInv, LineInv
  <2>2. output' \in Seq([line : Nat, id : AnyId]) /\ DOMAIN output' = DOMAIN output \union {Len(output) + 1}
    BY <1>3, <2>1
  <2>3. \A i \in DOMAIN output : output'[i] = output[i] /\ i < Len(output) + 1
    BY <1>3, <2>1
  <2>4. output'[Len(output) + 1] = written
    BY <1>3, <2>1
  <2>5. LineInv'
    BY <1>1, <1>3, <2>2 DEF StdioInv, LineInv
  <2>6. \A i, j \in DOMAIN output' : i < j => output'[i].line < output'[j].line
    <3>1. \A i \in DOMAIN output : output[i].line < next
      BY <2>1 DEF StdioInv, AnsweredInv
    <3>2. SUFFICES ASSUME NEW i \in DOMAIN output', NEW j \in DOMAIN output', i < j
                   PROVE  output'[i].line < output'[j].line
      OBVIOUS
    <3>3. i \in DOMAIN output
      BY <2>1, <2>2, <3>2
    <3>4. CASE j \in DOMAIN output
      BY <2>3, <3>2, <3>3, <3>4 DEF StdioInv, AnsweredInv
    <3>5. CASE j = Len(output) + 1
      BY <2>3, <2>4, <3>1, <3>3, <3>5
    <3> QED  BY <2>2, <3>4, <3>5
  <2>7. \A n \in 1..(next' - 1) : Handled(n)'
    <3>1. SUFFICES ASSUME NEW n \in 1..(next' - 1) PROVE Handled(n)'
      OBVIOUS
    <3>2. CASE n = next
      BY <2>2, <2>4, <3>2 DEF Handled
    <3>3. CASE n # next
      <4>1. n \in 1..(next - 1) /\ Handled(n)
        BY <1>3, <2>1, <3>3 DEF StdioInv, AnsweredInv
      <4> QED  BY <1>1, <2>2, <2>3, <4>1 DEF Handled
    <3> QED  BY <3>2, <3>3
  <2>8. \A i \in DOMAIN output' :
          /\ output'[i].line \in 1..(next' - 1) /\ output'[i].line \notin silent
          /\ input[output'[i].line] # Blank /\ Fits(input[output'[i].line], output'[i].id)
    <3>1. next \notin silent
      BY <2>1 DEF StdioInv, LineInv
    <3>2. SUFFICES ASSUME NEW i \in DOMAIN output'
                   PROVE  /\ output'[i].line \in 1..(next' - 1) /\ output'[i].line \notin silent
                          /\ input[output'[i].line] # Blank /\ Fits(input[output'[i].line], output'[i].id)
      OBVIOUS
    <3>3. CASE i \in DOMAIN output
      BY <1>3, <2>1, <2>3, <3>3 DEF StdioInv, AnsweredInv
    <3>4. CASE i = Len(output) + 1
      BY <1>1, <1>3, <2>1, <2>4, <3>1, <3>4 DEF StdioInv, LineInv
    <3> QED  BY <2>2, <3>3, <3>4
  <2>9. AnsweredInv'
    BY <1>1, <2>6, <2>7, <2>8 DEF AnsweredInv, Fits
  <2> QED  BY <2>5, <2>9 DEF StdioInv
<1> QED  BY <1>2, <1>3 DEF WriteMessage

LEMMA StdioInvStep ==
  ASSUME StdioInv, [ProcessNext]_processVars
  PROVE  StdioInv'
<1>1. CASE ServeStdio
  <2>1. CASE EndOfInput
    BY <2>1, SameLine DEF EndOfInput, StdioInv, LineInv
  <2> QED  BY <1>1, <2>1, ReadLineKeeps, RouterReturnsKeeps, WriteMessageKeeps DEF ServeStdio, Loop
<1>2. CASE StdinChanges
  <2>1. CASE CloseStdin
    BY <2>1, SameLine DEF CloseStdin, StdioInv, LineInv
  <2> QED  BY <1>2, <2>1, TypeKeeps DEF StdinChanges
<1>3. CASE UNCHANGED stdioVars
  BY <1>3, SameLine DEF stdioVars, StdioInv, LineInv
<1>4. Start => UNCHANGED stdioVars
  BY DEF Start, LoadConfig, RegisterEchoTools, RegisterEcho, RegisterUpstream, LoadPolicies,
         BuildRouter, StartTransport, Quiet
<1>5. Signal \/ Drained \/ StdioOver => UNCHANGED stdioVars
  BY DEF Signal, Drained, StdioOver, Fixed
<1>6. \A c \in Connections : Accept(c) \/ Answered(c) \/ Leave(c) => UNCHANGED stdioVars
  BY DEF Accept, Answered, Leave, Fixed
<1>7. UNCHANGED processVars => UNCHANGED stdioVars
  BY DEF processVars
<1> QED  BY <1>1, <1>2, <1>3, <1>4, <1>5, <1>6, <1>7 DEF ProcessNext

(* For any lines: answers are in the order of their lines, and every line   *)
(* that was taken has its one.  (the loop of run)                           *)
THEOREM LinesAreAnsweredOnce == ProcessSpec => []OneAnswerPerLine
<1>1. StdioInv => OneAnswerPerLine
  BY DEF StdioInv, AnsweredInv, Handled, Fits, OneAnswerPerLine
<1>2. ProcessInit => StdioInit
  BY DEF ProcessInit
<1> QED  BY <1>1, <1>2, StdioInitInv, StdioInvStep, PTL DEF ProcessSpec

-----------------------------------------------------------------------------
(* The audit producers.                                                     *)
(*                                                                          *)
(* That an event has passed a producer says where it must be; the invariant *)
(* also says of a buffer where an event that has not got there yet is not,  *)
(* so that a push makes it the only one.  What was drained and what is      *)
(* still held are one sequence, which a drain does not change.              *)
Whole(i) == drained[i] \o buffer[i]

Reached(c, i) ==
  /\ Producers[i] = "log" /\ at[c] > i => Times(c, log[i]) # {}
  /\ Producers[i] = "buffer" /\ at[c] > i =>
       \E n \in DOMAIN Whole(i) : Times(c, Whole(i)) = {n}
  /\ Producers[i] = "buffer" /\ at[c] <= i => Times(c, Whole(i)) = {}
  /\ Producers[i] = "kafka" /\ at[c] > i => c \in topic[i] \/ c \in failed

AuditInv == AuditTypeOK /\ \A c \in Callers, i \in Places : Reached(c, i)

LEMMA PlacesAreNumbers ==
  /\ Len(Producers) \in Nat /\ Places = 1..Len(Producers)
  /\ \A i \in Places : Producers[i] \in {"log", "buffer", "kafka"}
BY AuditAssumption DEF Places

LEMMA AppendTimes ==
  ASSUME NEW S, NEW s \in Seq(S), NEW x \in S, NEW c
  PROVE  /\ c = x => Times(c, Append(s, x)) = Times(c, s) \union {Len(s) + 1}
         /\ c # x => Times(c, Append(s, x)) = Times(c, s)
         /\ DOMAIN s \subseteq DOMAIN Append(s, x)
         /\ Len(s) + 1 \in DOMAIN Append(s, x)
BY DEF Times

LEMMA ConcatAppend ==
  ASSUME NEW S, NEW s \in Seq(S), NEW t \in Seq(S), NEW x \in S
  PROVE  s \o t \in Seq(S) /\ s \o Append(t, x) = Append(s \o t, x)
OBVIOUS

LEMMA ConcatNothing ==
  ASSUME NEW S, NEW s \in Seq(S), NEW t \in Seq(S)
  PROVE  (s \o t) \o <<>> = s \o t
OBVIOUS

(* A caller that goes on to the next producer. *)
LEMMA GoesOn ==
  ASSUME AuditTypeOK, NEW c \in Callers, at[c] \in {0} \union Places, GoOn(c)
  PROVE  /\ at' \in [Callers -> 0..Done]
         /\ at'[c] = at[c] + 1
         /\ \A d \in Callers \ {c} : at'[d] = at[d]
BY PlacesAreNumbers DEF AuditTypeOK, GoOn, Done

(* A broker may have the record of a send that settles or is given up. *)
LEMMA TopicGrows ==
  ASSUME AuditTypeOK, NEW c \in Callers, at[c] \in Places,
         topic' \in {topic, [topic EXCEPT ![at[c]] = @ \union {c}]}
  PROVE  /\ topic' \in [Places -> SUBSET Callers]
         /\ \A i \in Places : topic[i] \subseteq topic'[i]
<1>1. CASE topic' = topic
  BY <1>1 DEF AuditTypeOK
<1>2. CASE topic' = [topic EXCEPT ![at[c]] = @ \union {c}]
  <2>1. topic \in [Places -> SUBSET Callers]
    BY DEF AuditTypeOK
  <2>2. topic[at[c]] \union {c} \in SUBSET Callers
    BY <2>1
  <2> QED  BY <1>2, <2>1, <2>2
<1> QED  BY <1>1, <1>2

LEMMA SettleTopic ==
  ASSUME AuditTypeOK, NEW c \in Callers, Settle(c)
  PROVE  /\ at[c] \in Places /\ topic' \in {topic, [topic EXCEPT ![at[c]] = @ \union {c}]}
         /\ failed' \in {failed, failed \union {c}}
         /\ c \in failed' \/ topic' = [topic EXCEPT ![at[c]] = @ \union {c}]
BY DEF Settle, Delivered, SendFails, AuditTypeOK

LEMMA AuditTypes ==
  ASSUME AuditTypeOK, [AuditNext]_auditVars
  PROVE  AuditTypeOK'
<1> USE PlacesAreNumbers
<1>1. ASSUME NEW c \in Callers, Publish(c) PROVE AuditTypeOK'
  <2>1. /\ at' \in [Callers -> 0..Done] /\ c \notin sending
        /\ \A d \in Callers \ {c} : at'[d] = at[d]
    BY <1>1, GoesOn DEF Publish, AuditTypeOK
  <2> QED  BY <1>1, <2>1 DEF Publish, AuditTypeOK
<1>2. ASSUME NEW c \in Callers, Log(c) PROVE AuditTypeOK'
  <2>1. /\ at' \in [Callers -> 0..Done] /\ c \notin sending
        /\ \A d \in Callers \ {c} : at'[d] = at[d]
    BY <1>2, GoesOn DEF Log, IsAt, AuditTypeOK
  <2>2. log' \in [Places -> Seq(Callers)]
    BY <1>2 DEF Log, IsAt, AuditTypeOK
  <2> QED  BY <1>2, <2>1, <2>2 DEF Log, AuditTypeOK
<1>3. ASSUME NEW c \in Callers, Push(c) PROVE AuditTypeOK'
  <2>1. /\ at' \in [Callers -> 0..Done] /\ c \notin sending
        /\ \A d \in Callers \ {c} : at'[d] = at[d]
    BY <1>3, GoesOn DEF Push, IsAt, AuditTypeOK
  <2>2. buffer' \in [Places -> Seq(Callers)]
    BY <1>3 DEF Push, IsAt, AuditTypeOK
  <2> QED  BY <1>3, <2>1, <2>2 DEF Push, AuditTypeOK
<1>4. ASSUME NEW c \in Callers, Send(c) PROVE AuditTypeOK'
  BY <1>4 DEF Send, IsAt, AuditTypeOK
<1>5. ASSUME NEW c \in Callers, Settle(c) PROVE AuditTypeOK'
  <2>1. /\ at' \in [Callers -> 0..Done] /\ c \in sending /\ sending' = sending \ {c}
        /\ \A d \in Callers \ {c} : at'[d] = at[d]
    BY <1>5, GoesOn DEF Settle, Delivered, SendFails, AuditTypeOK
  <2>2. topic' \in [Places -> SUBSET Callers]
    BY <1>5, SettleTopic, TopicGrows
  <2>3. failed' \in {failed, failed \union {c}}
    BY <1>5, SettleTopic, Zenon
  <2>4. failed' \subseteq Callers
    BY <2>3 DEF AuditTypeOK
  <2> QED  BY <1>5, <2>1, <2>2, <2>4 DEF Settle, Delivered, SendFails, AuditTypeOK
<1>6. ASSUME NEW c \in Callers, Abandon(c) PROVE AuditTypeOK'
  <2>1. topic' \in [Places -> SUBSET Callers]
    BY <1>6, TopicGrows DEF Abandon, AuditTypeOK
  <2> QED  BY <1>6, <2>1 DEF Abandon, AuditTypeOK
<1>7. ASSUME NEW i \in Places, Drain(i) PROVE AuditTypeOK'
  <2>1. drained[i] \in Seq(Callers) /\ buffer[i] \in Seq(Callers)
    BY DEF AuditTypeOK
  <2>2. drained[i] \o buffer[i] \in Seq(Callers) /\ <<>> \in Seq(Callers)
    BY <2>1
  <2> QED  BY <1>7, <2>2 DEF Drain, AuditTypeOK
<1>8. CASE UNCHANGED auditVars
  BY <1>8 DEF auditVars, AuditTypeOK
<1> QED  BY <1>1, <1>2, <1>3, <1>4, <1>5, <1>6, <1>7, <1>8 DEF AuditNext, Step

(* A step that does not touch what a producer has, and moves no caller past *)
(* it, or past a broker only with the record there or the error noted.      *)
LEMMA ReachedStays ==
  ASSUME AuditInv, AuditTypeOK', NEW d \in Callers, NEW i \in Places,
         log'[i] = log[i] \/ (Times(d, log[i]) # {} => Times(d, log'[i]) # {}),
         Whole(i)' = Whole(i) \/ Producers[i] # "buffer",
         topic[i] \subseteq topic'[i], failed \subseteq failed',
         \/ at'[d] = at[d]
         \/ at[d] # i /\ at'[d] = at[d] + 1
         \/ at[d] = i /\ Producers[i] = "kafka" /\ (d \in topic'[i] \/ d \in failed')
  PROVE  Reached(d, i)'
<1>1. at[d] \in Nat /\ at'[d] \in Nat /\ i \in Nat /\ Reached(d, i)
  BY PlacesAreNumbers DEF AuditInv, AuditTypeOK, Done
<1>2. CASE Producers[i] = "log"
  BY <1>1, <1>2 DEF Reached
<1>3. CASE Producers[i] = "buffer"
  BY <1>1, <1>3 DEF Reached
<1>4. CASE Producers[i] = "kafka"
  BY <1>1, <1>4 DEF Reached
<1> QED  BY <1>2, <1>3, <1>4, PlacesAreNumbers

LEMMA AuditStep ==
  ASSUME AuditInv, [AuditNext]_auditVars
  PROVE  AuditInv'
<1> SUFFICES ASSUME NEW d \in Callers, NEW i \in Places PROVE Reached(d, i)'
  BY AuditTypes DEF AuditInv, Places
<1>1. AuditTypeOK /\ AuditTypeOK' /\ Reached(d, i)
  BY AuditTypes DEF AuditInv
<1>2. /\ at[d] \in Nat /\ i \in Nat /\ i # 0
      /\ log[i] \in Seq(Callers) /\ buffer[i] \in Seq(Callers) /\ drained[i] \in Seq(Callers)
  <2>1. at[d] \in Nat /\ i \in Nat /\ i # 0
    BY <1>1, PlacesAreNumbers DEF AuditTypeOK, Done
  <2>2. log[i] \in Seq(Callers) /\ buffer[i] \in Seq(Callers) /\ drained[i] \in Seq(Callers)
    BY <1>1 DEF AuditTypeOK
  <2> QED  BY <2>1, <2>2
<1>3. ASSUME NEW c \in Callers, Publish(c) PROVE Reached(d, i)'
  <2>1. at'[d] = at[d] \/ (at[d] # i /\ at'[d] = at[d] + 1)
    BY <1>1, <1>2, <1>3, GoesOn DEF Publish
  <2> QED  BY <1>1, <1>3, <2>1, ReachedStays DEF Publish, Whole
<1>4. ASSUME NEW c \in Callers, Log(c) PROVE Reached(d, i)'
  <2>1. /\ at[c] \in Places /\ Producers[at[c]] = "log"
        /\ log' = [log EXCEPT ![at[c]] = Append(@, c)]
        /\ UNCHANGED <<failed, buffer, drained, topic>>
        /\ at'[c] = at[c] + 1 /\ \A e \in Callers \ {c} : at'[e] = at[e]
    BY <1>1, <1>4, GoesOn DEF Log, IsAt
  <2>2. log'[i] = IF i = at[c] THEN Append(log[i], c) ELSE log[i]
    BY <1>1, <2>1 DEF AuditTypeOK
  <2>3. Times(d, log[i]) # {} => Times(d, log'[i]) # {}
    BY <1>2, <2>2, AppendTimes
  <2>4. CASE d = c /\ at[c] = i
    <3>1. log'[i] = Append(log[i], d)
      BY <2>2, <2>4
    <3>2. Times(d, log'[i]) = Times(d, log[i]) \union {Len(log[i]) + 1}
      BY <1>2, <3>1, AppendTimes
    <3>3. Times(d, log'[i]) # {}
      BY <3>2
    <3> QED  BY <2>1, <2>4, <3>3 DEF Reached, Times
  <2>5. CASE ~ (d = c /\ at[c] = i)
    BY <1>1, <2>1, <2>3, <2>5, ReachedStays DEF Whole
  <2> QED  BY <2>4, <2>5
<1>5. ASSUME NEW c \in Callers, Push(c) PROVE Reached(d, i)'
  <2>1. /\ at[c] \in Places /\ Producers[at[c]] = "buffer"
        /\ buffer' = [buffer EXCEPT ![at[c]] = Append(@, c)]
        /\ UNCHANGED <<failed, log, drained, topic>>
        /\ at'[c] = at[c] + 1 /\ \A e \in Callers \ {c} : at'[e] = at[e]
    BY <1>1, <1>5, GoesOn DEF Push, IsAt
  <2>2. CASE at[c] = i
    <3>1. buffer'[i] = Append(buffer[i], c) /\ drained' = drained
      BY <1>1, <2>1, <2>2 DEF AuditTypeOK
    <3>2. Whole(i) \in Seq(Callers) /\ Whole(i)' = Append(Whole(i), c)
      <4> DEFINE s == drained[i]
                 t == buffer[i]
      <4>1. s \in Seq(Callers) /\ t \in Seq(Callers)
        BY <1>2
      <4> HIDE DEF s, t
      <4>2. s \o t \in Seq(Callers) /\ s \o Append(t, c) = Append(s \o t, c)
        BY <4>1, ConcatAppend
      <4> QED  BY <3>1, <4>2 DEF Whole, s, t
    <3>3. CASE d = c
      <4>1. Times(d, Whole(i)) = {}
        BY <1>1, <2>1, <2>2, <3>3, <1>2 DEF Reached
      <4>2. Times(d, Whole(i)') = {Len(Whole(i)) + 1} /\ Len(Whole(i)) + 1 \in DOMAIN (Whole(i)')
        BY <3>2, <3>3, <4>1, AppendTimes
      <4>3. at'[d] > i
        BY <1>2, <2>1, <2>2, <3>3
      <4>4. Times(d, Whole(i))' = {Len(Whole(i)) + 1} /\ Producers[i] = "buffer"
        BY <2>1, <2>2, <4>2 DEF Times
      <4> QED  BY <1>2, <4>2, <4>3, <4>4, <2>1, <3>3 DEF Reached
    <3>4. CASE d # c
      <4>1. Times(d, Whole(i)') = Times(d, Whole(i)) /\ DOMAIN Whole(i) \subseteq DOMAIN (Whole(i)')
        BY <3>2, <3>4, AppendTimes
      <4>2. at'[d] = at[d] /\ Producers[i] = "buffer"
        BY <2>1, <2>2, <3>4
      <4>3. Times(d, Whole(i))' = Times(d, Whole(i))
        BY <4>1 DEF Times
      <4> QED  BY <1>1, <4>1, <4>2, <4>3 DEF Reached
    <3> QED  BY <3>3, <3>4
  <2>3. CASE at[c] # i
    <3>1. buffer'[i] = buffer[i]
      BY <1>1, <2>1, <2>3 DEF AuditTypeOK
    <3> QED  BY <1>1, <2>1, <2>3, <3>1, ReachedStays DEF Whole
  <2> QED  BY <2>2, <2>3
<1>6. ASSUME NEW c \in Callers, Send(c) PROVE Reached(d, i)'
  BY <1>1, <1>6, ReachedStays DEF Send, Whole
<1>7. ASSUME NEW c \in Callers, Settle(c) PROVE Reached(d, i)'
  <2>1. /\ at[c] \in Places /\ Producers[at[c]] = "kafka"
        /\ at'[c] = at[c] + 1 /\ \A e \in Callers \ {c} : at'[e] = at[e]
        /\ UNCHANGED <<log, buffer, drained>>
    BY <1>1, <1>7, GoesOn DEF Settle, Delivered, SendFails, AuditTypeOK
  <2>2. topic[i] \subseteq topic'[i] /\ failed \subseteq failed'
    BY <1>1, <1>7, SettleTopic, TopicGrows
  <2>3. at[c] = i => c \in topic'[i] \/ c \in failed'
    <3>1. c \in failed' \/ topic' = [topic EXCEPT ![at[c]] = @ \union {c}]
      BY <1>1, <1>7, SettleTopic
    <3> QED  BY <1>1, <3>1 DEF AuditTypeOK
  <2> QED  BY <1>1, <2>1, <2>2, <2>3, ReachedStays DEF Whole
<1>8. ASSUME NEW c \in Callers, Abandon(c) PROVE Reached(d, i)'
  <2>1. topic[i] \subseteq topic'[i]
    BY <1>1, <1>8, TopicGrows DEF Abandon, AuditTypeOK
  <2> QED  BY <1>1, <1>8, <2>1, ReachedStays DEF Abandon, Whole
<1>9. ASSUME NEW j \in Places, Drain(j) PROVE Reached(d, i)'
  <2>1. CASE i = j
    <3>1. drained'[i] = drained[i] \o buffer[i] /\ buffer'[i] = <<>>
      BY <1>1, <1>9, <2>1 DEF Drain, AuditTypeOK
    <3>2. Whole(i)' = Whole(i)
      BY <1>2, <3>1, ConcatNothing DEF Whole
    <3> QED  BY <1>1, <1>9, <3>2, ReachedStays DEF Drain
  <2>2. CASE i # j
    <3>1. drained'[i] = drained[i] /\ buffer'[i] = buffer[i]
      BY <1>1, <1>9, <2>2 DEF Drain, AuditTypeOK
    <3> QED  BY <1>1, <1>9, <3>1, ReachedStays DEF Drain, Whole
  <2> QED  BY <2>1, <2>2
<1>10. CASE UNCHANGED auditVars
  BY <1>1, <1>10, ReachedStays DEF auditVars, Whole
<1> QED  BY <1>3, <1>4, <1>5, <1>6, <1>7, <1>8, <1>9, <1>10 DEF AuditNext, Step

(* What producers keep up whatever their fairness. *)
LEMMA AuditAlways == AuditInit /\ [][AuditNext]_auditVars => []AuditInv
<1>1. AuditInit => AuditInv
  <2> SUFFICES ASSUME AuditInit PROVE AuditInv
    OBVIOUS
  <2>1. AuditTypeOK
    BY PlacesAreNumbers DEF AuditInit, AuditTypeOK, Done
  <2>2. ASSUME NEW c \in Callers, NEW i \in Places PROVE Reached(c, i)
    <3>1. at[c] = 0 /\ i \in Nat /\ Whole(i) = <<>> \o <<>>
      BY PlacesAreNumbers DEF AuditInit, Whole
    <3>2. Times(c, Whole(i)) = {}
      BY <3>1 DEF Times
    <3> QED  BY <3>1, <3>2 DEF Reached
  <2> QED  BY <2>1, <2>2 DEF AuditInv
<1>2. AuditInv /\ [AuditNext]_auditVars => AuditInv'
  BY AuditStep
<1> QED  BY <1>1, <1>2, PTL

LEMMA AuditPromises == AuditInv => AuditTypeOK /\ EveryProducerTried
BY PlacesAreNumbers DEF AuditInv, Reached, Whole, EveryProducerTried

(* Wherever an event has passed a producer it is with that producer, or the *)
(* producer failed, and in a buffer, or among what was taken out of it, it  *)
(* is exactly once: for any producers in any order, any number of callers,  *)
(* and pushes, drains, broker failures and dropped callers as they come.    *)
(* (FanoutProducer::publish_audit_event, push, drain)                       *)
THEOREM EventsReachTheirProducers == AuditSpec => [](AuditTypeOK /\ EveryProducerTried)
BY AuditAlways, AuditPromises, PTL DEF AuditSpec

-----------------------------------------------------------------------------
(* The control plane.                                                       *)
(*                                                                          *)
(* A version is in range because it counts updates, of which there are no   *)
(* more than writers; so the types and the count are proved together.  A    *)
(* writer's entry is a row from when it was loaded on.                      *)
ControlInv ==
  /\ ControlTypeOK
  /\ VersionsCountUpdates
  /\ \A w \in Writers : writer[w] = "loaded" => loaded[w] \in Row

(* Updates of a policy are counted, and there are no more than writers.     *)
LEMMA UpdatesAreCounted ==
  ASSUME NEW S \in SUBSET Writers
  PROVE  /\ IsFiniteSet(S) /\ Cardinality(S) \in Nat /\ Cardinality(Writers) \in Nat
         /\ Cardinality(S) + 1 \in 1..(Cardinality(Writers) + 1)
<1>1. IsFiniteSet(Writers) /\ Cardinality(Writers) \in Nat
  BY ControlAssumption, FS_CardinalityType
<1>2. IsFiniteSet(S) /\ Cardinality(S) <= Cardinality(Writers) /\ Cardinality(S) \in Nat
  BY <1>1, FS_Subset, FS_CardinalityType
<1> QED  BY <1>1, <1>2

LEMMA OneMore ==
  ASSUME NEW S \in SUBSET Writers, NEW w \in Writers \ S
  PROVE  Cardinality(S \union {w}) = Cardinality(S) + 1
BY UpdatesAreCounted, FS_AddElement

LEMMA ServedType ==
  ASSUME NEW rows \in [Policies -> Row \union {NoRow}]
  PROVE  /\ Served(rows) \in [Policies -> Row \union {NoRow}]
         /\ Served(Served(rows)) = Served(rows)
         /\ \A p \in Policies : Served(rows)[p] # NoRow => rows[p] \in Row
BY DEF Served

(* A step of a refresh, or of a creation, leaves versions and writers alone. *)
LEMMA VersionsStay ==
  ASSUME ControlInv, ControlTypeOK', UNCHANGED <<dbPolicies, writeVars>>
  PROVE  ControlInv'
BY DEF ControlInv, writeVars, VersionsCountUpdates, Updates

(* A writer whose step is not the UPDATE, and that is no update before it   *)
(* or is one before and after it.                                           *)
LEMMA WriterMoves ==
  ASSUME ControlInv, ControlTypeOK', NEW w \in Writers, NEW state,
         writer' = [writer EXCEPT ![w] = state], dbPolicies' = dbPolicies, target' = target,
         writer[w] \in {"written", "ok", "dropped"} <=> state \in {"written", "ok", "dropped"},
         \A v \in Writers \ {w} : loaded'[v] = loaded[v],
         state = "loaded" => loaded'[w] \in Row
  PROVE  ControlInv'
<1>1. writer'[w] = state /\ \A v \in Writers \ {w} : writer'[v] = writer[v]
  BY DEF ControlInv, ControlTypeOK
<1>2. \A p \in Policies : Updates(p)' = Updates(p)
  BY <1>1 DEF Updates
<1>3. VersionsCountUpdates'
  BY <1>2 DEF ControlInv, VersionsCountUpdates
<1>4. \A v \in Writers : writer'[v] = "loaded" => loaded'[v] \in Row
  BY <1>1 DEF ControlInv
<1> QED  BY <1>3, <1>4 DEF ControlInv

LEMMA ControlStep ==
  ASSUME ControlInv, [ControlNext]_controlVars
  PROVE  ControlInv'
<1>1. ControlTypeOK
  BY DEF ControlInv
<1>2. ASSUME NEW r \in Refreshers, FetchTenants(r) \/ FetchPolicies(r) \/ FetchFails(r) \/ Store(r)
      PROVE  ControlInv'
  <2>1. Served(dbPolicies) \in [Policies -> Row \union {NoRow}]
        /\ Served(Served(dbPolicies)) = Served(dbPolicies)
    BY <1>1, ServedType DEF ControlTypeOK
  <2>2. NoPolicies \in [Policies -> Row \union {NoRow}] /\ Served(NoPolicies) = NoPolicies
    BY DEF NoPolicies, Served
  <2>3. ControlTypeOK'
    <3>1. CASE FetchTenants(r)
      BY <1>1, <3>1 DEF FetchTenants, ControlTypeOK, dbVars, cacheVars, writeVars, createVars, Served
    <3>2. CASE FetchPolicies(r)
      BY <1>1, <3>2, <2>1
         DEF FetchPolicies, ControlTypeOK, dbVars, cacheVars, writeVars, createVars
    <3>3. CASE EndRefresh(r) /\ UNCHANGED <<dbVars, tenants, writeVars, createVars>>
               /\ policies' \in {policies, fetchedPolicies[r]}
      BY <1>1, <3>3, <2>2 DEF EndRefresh, ControlTypeOK, dbVars, writeVars, createVars
    <3>4. CASE StoreTenants(r)
      BY <1>1, <3>4 DEF StoreTenants, ControlTypeOK, dbVars, writeVars, createVars
    <3> QED  BY <1>2, <3>1, <3>2, <3>3, <3>4 DEF FetchFails, Store, StorePolicies, cacheVars
  <2>4. UNCHANGED <<dbPolicies, writeVars>>
    BY <1>2 DEF FetchTenants, FetchPolicies, FetchFails, Store, StoreTenants, StorePolicies, dbVars
  <2> QED  BY <2>3, <2>4, VersionsStay
<1>3. ASSUME NEW c \in Creators, CreateInDatabase(c) \/ CreateInCache(c) PROVE ControlInv'
  <2>1. ControlTypeOK'
    BY <1>1, <1>3
       DEF CreateInDatabase, CreateInCache, ControlTypeOK, dbVars, cacheVars, refreshVars, writeVars
  <2>2. UNCHANGED <<dbPolicies, writeVars>>
    BY <1>3 DEF CreateInDatabase, CreateInCache, dbVars
  <2> QED  BY <2>1, <2>2, VersionsStay
<1>4. ASSUME NEW w \in Writers, LoadPolicy(w) PROVE ControlInv'
  <2> DEFINE entry == IF Served(policies)[target[w]] # NoRow THEN policies[target[w]]
                      ELSE [text |-> w, enabled |-> TRUE, version |-> 1]
  <2>1. entry \in Row
    <3>1. 1 \in 1..(Cardinality(Writers) + 1)
      BY UpdatesAreCounted
    <3>2. Served(policies)[target[w]] # NoRow => policies[target[w]] \in Row
      BY <1>1, ServedType DEF ControlTypeOK
    <3> QED  BY <3>1, <3>2 DEF Row
  <2>2. /\ writer[w] = "idle" /\ writer' = [writer EXCEPT ![w] = "loaded"]
        /\ loaded' = [loaded EXCEPT ![w] = entry]
        /\ UNCHANGED <<target, dbVars, cacheVars, refreshVars, createVars>>
    BY <1>4 DEF LoadPolicy
  <2> HIDE DEF entry
  <2>3. ControlTypeOK'
    BY <1>1, <2>1, <2>2 DEF ControlTypeOK, dbVars, cacheVars, refreshVars, createVars
  <2>4. loaded'[w] = entry /\ \A v \in Writers \ {w} : loaded'[v] = loaded[v]
    BY <1>1, <2>2 DEF ControlTypeOK
  <2> QED  BY <2>1, <2>2, <2>3, <2>4, WriterMoves DEF dbVars
<1>5. ASSUME NEW w \in Writers, UpdateFails(w) \/ UpdateCache(w) PROVE ControlInv'
  <2>1. PICK state \in {"failed", "ok"} :
          /\ writer' = [writer EXCEPT ![w] = state]
          /\ (writer[w] = "loaded" /\ state = "failed") \/ (writer[w] = "written" /\ state = "ok")
    BY <1>5 DEF UpdateFails, UpdateCache
  <2>2. /\ UNCHANGED <<target, loaded, tenants, dbVars, refreshVars, createVars>>
        /\ policies' \in {policies, [policies EXCEPT ![target[w]] = loaded[w]]}
    BY <1>5 DEF UpdateFails, UpdateCache, cacheVars
  <2>3. ControlTypeOK'
    BY <1>1, <2>1, <2>2 DEF ControlTypeOK, dbVars, refreshVars, createVars
  <2> QED  BY <2>1, <2>2, <2>3, WriterMoves DEF dbVars
<1>6. ASSUME NEW w \in Writers, UpdateDatabase(w) PROVE ControlInv'
  <2> DEFINE p == target[w]
  <2>1. PICK on \in BOOLEAN :
          /\ dbPolicies' = [dbPolicies EXCEPT ![p] =
               IF @ = NoRow THEN NoRow ELSE [text |-> w, enabled |-> on, version |-> @.version + 1]]
          /\ loaded' = [loaded EXCEPT ![w].text = w, ![w].enabled = on]
    BY <1>6 DEF UpdateDatabase
  <2>2. /\ writer[w] = "loaded" /\ writer' = [writer EXCEPT ![w] = "written"]
        /\ UNCHANGED <<target, dbTenants, cacheVars, refreshVars, createVars>>
    BY <1>6 DEF UpdateDatabase
  <2>3. p \in Policies /\ loaded[w] \in Row
    BY <1>1, <2>2 DEF ControlTypeOK, ControlInv
  <2>4. writer'[w] = "written" /\ \A v \in Writers \ {w} : writer'[v] = writer[v]
    BY <1>1, <2>2 DEF ControlTypeOK
  <2>5. /\ w \notin Updates(p) /\ Updates(p) \subseteq Writers
        /\ Updates(p)' = Updates(p) \union {w}
        /\ \A q \in Policies \ {p} : Updates(q)' = Updates(q)
    BY <2>2, <2>4 DEF Updates
  <2>6. Cardinality(Updates(p))' = Cardinality(Updates(p)) + 1
    BY <2>5, OneMore
  <2>7. dbPolicies[p] # NoRow =>
          dbPolicies[p].version + 1 = 1 + Cardinality(Updates(p))'
    BY <2>3, <2>5, <2>6, UpdatesAreCounted DEF ControlInv, VersionsCountUpdates
  <2>8. dbPolicies[p] # NoRow => dbPolicies[p].version + 1 \in 1..(Cardinality(Writers) + 1)
    <3>1. Updates(p)' \in SUBSET Writers
      BY <2>5
    <3>2. Cardinality(Updates(p)') + 1 \in 1..(Cardinality(Writers) + 1)
          /\ Cardinality(Updates(p)') \in Nat
      BY <3>1, UpdatesAreCounted
    <3> QED  BY <2>7, <3>2
  <2>9. /\ dbPolicies[p] = NoRow => dbPolicies'[p] = NoRow
        /\ dbPolicies[p] # NoRow => dbPolicies'[p] =
             [text |-> w, enabled |-> on, version |-> dbPolicies[p].version + 1]
        /\ \A q \in Policies \ {p} : dbPolicies'[q] = dbPolicies[q]
    BY <1>1, <2>1, <2>3 DEF ControlTypeOK
  <2>10. dbPolicies' \in [Policies -> Row \union {NoRow}]
    <3>1. dbPolicies'[p] \in Row \union {NoRow}
      BY <2>8, <2>9 DEF Row
    <3> QED  BY <1>1, <2>1, <2>9, <3>1 DEF ControlTypeOK
  <2>11. loaded' \in [Writers -> Row \union {NoRow}] /\ \A v \in Writers \ {w} : loaded'[v] = loaded[v]
    <3>1. [loaded[w] EXCEPT !.text = w, !.enabled = on] \in Row
      BY <2>3 DEF Row
    <3>2. loaded' = [loaded EXCEPT ![w] = [loaded[w] EXCEPT !.text = w, !.enabled = on]]
      BY <1>1, <2>1 DEF ControlTypeOK
    <3> QED  BY <1>1, <3>1, <3>2 DEF ControlTypeOK
  <2>12. ControlTypeOK'
    BY <1>1, <2>2, <2>10, <2>11 DEF ControlTypeOK, cacheVars, refreshVars, createVars
  <2>13. VersionsCountUpdates'
    <3>1. \A q \in Policies \ {p} : dbPolicies'[q] # NoRow =>
            dbPolicies'[q].version = 1 + Cardinality(Updates(q)')
      BY <2>5, <2>9 DEF ControlInv, VersionsCountUpdates
    <3>2. dbPolicies'[p] # NoRow => dbPolicies'[p].version = 1 + Cardinality(Updates(p)')
      BY <2>7, <2>9
    <3> QED  BY <2>2, <3>1, <3>2 DEF VersionsCountUpdates, Updates
  <2>14. \A v \in Writers : writer'[v] = "loaded" => loaded'[v] \in Row
    BY <2>4, <2>11 DEF ControlInv
  <2> QED  BY <2>12, <2>13, <2>14 DEF ControlInv
<1>7. CASE Drop
  <2>1. CASE \E c \in Creators : creator[c] = "written" /\ creator' = [creator EXCEPT ![c] = "dropped"]
                                 /\ UNCHANGED <<wanted, dbVars, cacheVars, refreshVars, writeVars>>
    <3>1. ControlTypeOK'
      BY <1>1, <2>1 DEF ControlTypeOK, dbVars, cacheVars, refreshVars, writeVars
    <3> QED  BY <2>1, <3>1, VersionsStay DEF dbVars
  <2>2. ASSUME NEW w \in Writers, writer[w] = "written", writer' = [writer EXCEPT ![w] = "dropped"],
               UNCHANGED <<target, loaded, dbVars, cacheVars, refreshVars, createVars>>
        PROVE  ControlInv'
    <3>1. ControlTypeOK'
      BY <1>1, <2>2 DEF ControlTypeOK, dbVars, cacheVars, refreshVars, createVars
    <3> QED  BY <2>2, <3>1, WriterMoves DEF dbVars
  <2> QED  BY <1>7, <2>1, <2>2 DEF Drop
<1>8. CASE UNCHANGED controlVars
  <2>1. ControlTypeOK'
    BY <1>1, <1>8 DEF controlVars, ControlTypeOK, dbVars, cacheVars, refreshVars, createVars, writeVars
  <2> QED  BY <1>8, <2>1, VersionsStay DEF controlVars, dbVars
<1> QED  BY <1>2, <1>3, <1>4, <1>5, <1>6, <1>7, <1>8 DEF ControlNext

(* What the control plane keeps up whatever its fairness. *)
LEMMA ControlAlways == ControlInit /\ [][ControlNext]_controlVars => []ControlInv
<1>1. ControlInit => ControlInv
  <2> SUFFICES ASSUME ControlInit PROVE ControlInv
    OBVIOUS
  <2>1. 1 \in 1..(Cardinality(Writers) + 1)
    BY UpdatesAreCounted
  <2>2. ControlTypeOK
    <3>1. [text |-> First, enabled |-> TRUE, version |-> 1] \in Row
      BY <2>1 DEF Row
    <3>2. dbPolicies \in [Policies -> Row \union {NoRow}]
      BY <3>1 DEF ControlInit
    <3>3. NoPolicies \in [Policies -> Row \union {NoRow}] /\ Served(NoPolicies) = NoPolicies
      BY DEF NoPolicies, Served
    <3>4. /\ step \in [Refreshers -> {"idle", "tenants", "fetched", "stored"}]
          /\ fetchedTenants \in [Refreshers -> SUBSET Tenants]
          /\ fetchedPolicies \in [Refreshers -> [Policies -> Row \union {NoRow}]]
          /\ \A r \in Refreshers : fetchedPolicies[r] = Served(fetchedPolicies[r])
      BY <3>3 DEF ControlInit
    <3>5. /\ writer \in [Writers -> {"idle", "loaded", "written", "ok", "failed", "dropped"}]
          /\ target \in [Writers -> Policies] /\ loaded \in [Writers -> Row \union {NoRow}]
          /\ creator \in [Creators -> {"idle", "written", "ok", "failed", "conflict", "dropped"}]
          /\ wanted \in [Creators -> Tenants]
      BY DEF ControlInit
    <3> QED  BY <3>2, <3>3, <3>4, <3>5, ControlAssumption DEF ControlInit, ControlTypeOK
  <2>3. \A p \in Policies : Updates(p) = {}
    BY DEF ControlInit, Updates
  <2>4. Cardinality({}) = 0
    BY FS_EmptySet
  <2>5. VersionsCountUpdates
    <3>1. \A p \in Policies : dbPolicies[p] # NoRow => dbPolicies[p].version = 1
      BY DEF ControlInit
    <3> QED  BY <2>3, <2>4, <3>1 DEF VersionsCountUpdates
  <2> QED  BY <2>2, <2>5 DEF ControlInit, ControlInv
<1>2. ControlInv /\ [ControlNext]_controlVars => ControlInv'
  BY ControlStep
<1> QED  BY <1>1, <1>2, PTL

(* A policy's version is one more than the number of updates it had, so no  *)
(* two of its texts have the same version, however updates, failures,       *)
(* dropped calls and refreshes overlap, for any policies, tenants, writers  *)
(* and refreshes.  (update_policy: version = version + 1)                   *)
THEOREM VersionsNeverRepeat == ControlSpec => [](ControlTypeOK /\ VersionsCountUpdates)
<1>1. ControlInv => ControlTypeOK /\ VersionsCountUpdates
  BY DEF ControlInv
<1> QED  BY <1>1, ControlAlways, PTL DEF ControlSpec

(* The cache is read in the place of the database.  It may be behind.  It    *)
(* is not ahead, if the policy has a row: no entry has a version that the    *)
(* database has not reached, and but for the default there is no tenant that *)
(* the database lacks.                                                       *)
NoNewer(row, p) == dbPolicies[p] # NoRow => row.version <= dbPolicies[p].version
NotAhead(row, p) == row # NoRow => NoNewer(row, p)

CacheTrailsDatabase ==
  /\ tenants \subseteq dbTenants \union {Default}
  /\ \A p \in Policies : NotAhead(policies[p], p)

(* A policy without a row is the case where it is ahead: an update of one    *)
(* saves nothing, reports success all the same and is in the cache.          *)
Unsaved(row, p) ==
  row.version = 1 /\ \E w \in Writers : writer[w] = "ok" /\ target[w] = p /\ row.text = w

CacheIsBacked ==
  /\ CacheTrailsDatabase
  /\ \A p \in Policies : dbPolicies[p] = NoRow /\ policies[p] # NoRow => Unsaved(policies[p], p)

(* What is under way to the cache, fetched, loaded or created, is not ahead  *)
(* either.                                                                   *)
TrailInv ==
  /\ CacheTrailsDatabase
  /\ \A r \in Refreshers : /\ fetchedTenants[r] \subseteq dbTenants
                           /\ \A p \in Policies : NotAhead(fetchedPolicies[r][p], p)
  /\ \A w \in Writers : writer[w] \in {"loaded", "written"} => loaded[w] \in Row /\ NoNewer(loaded[w], target[w])
  /\ \A c \in Creators : creator[c] = "written" => wanted[c] \in dbTenants

LEMMA RefreshTrails ==
  ASSUME ControlTypeOK, TrailInv, NEW r \in Refreshers,
         FetchTenants(r) \/ FetchPolicies(r) \/ FetchFails(r) \/ Store(r)
  PROVE  TrailInv'
<1>0. /\ UNCHANGED <<dbVars, writeVars, createVars>>
      /\ dbPolicies' = dbPolicies /\ dbTenants' = dbTenants
  BY DEF FetchTenants, FetchPolicies, FetchFails, Store, StoreTenants, StorePolicies, dbVars, writeVars, createVars
<1>2. \A p \in Policies : NotAhead(Served(dbPolicies)[p], p)
  <2> SUFFICES ASSUME NEW p \in Policies, Served(dbPolicies)[p] # NoRow
               PROVE  Served(dbPolicies)[p].version <= dbPolicies[p].version
    BY DEF NotAhead, NoNewer
  <2>1. Served(dbPolicies)[p] = dbPolicies[p] /\ dbPolicies[p] \in Row
    BY DEF Served, ControlTypeOK
  <2>2. dbPolicies[p].version \in 1..(Cardinality(Writers) + 1)
    BY <2>1 DEF Row
  <2> QED  BY <2>1, <2>2
<1>3. tenants' \subseteq dbTenants \union {Default} /\ \A p \in Policies : NotAhead(policies'[p], p)
  BY <1>0 DEF FetchTenants, FetchPolicies, FetchFails, Store, StoreTenants, StorePolicies,
              TrailInv, CacheTrailsDatabase, cacheVars
<1>4. \A p \in Policies : NotAhead(NoPolicies[p], p)
  BY DEF NoPolicies, NotAhead
<1>5. \A s \in Refreshers : /\ fetchedTenants'[s] \subseteq dbTenants
                            /\ \A p \in Policies : NotAhead(fetchedPolicies'[s][p], p)
  <2>1. \A s \in Refreshers : fetchedTenants'[s] \in {fetchedTenants[s], dbTenants, {}}
    BY DEF FetchTenants, FetchPolicies, FetchFails, Store, StoreTenants, StorePolicies, EndRefresh, ControlTypeOK
  <2>2. \A s \in Refreshers : fetchedPolicies'[s] \in {fetchedPolicies[s], Served(dbPolicies), NoPolicies}
    BY DEF FetchTenants, FetchPolicies, FetchFails, Store, StoreTenants, StorePolicies, EndRefresh, ControlTypeOK
  <2> QED  BY <1>2, <1>4, <2>1, <2>2 DEF TrailInv
<1> QED  BY <1>0, <1>3, <1>5 DEF TrailInv, CacheTrailsDatabase, NotAhead, NoNewer, writeVars, createVars

(* A writer's entry is what the cache had, or one of version 1.              *)
LEMMA LoadedTrails ==
  ASSUME ControlTypeOK, TrailInv, NEW w \in Writers, LoadPolicy(w)
  PROVE  loaded'[w] \in Row /\ NoNewer(loaded'[w], target[w])
<1>1. target[w] \in Policies /\ loaded \in [Writers -> Row \union {NoRow}]
  BY DEF ControlTypeOK
<1>2. \/ Served(policies)[target[w]] # NoRow /\ loaded'[w] = policies[target[w]]
      \/ loaded'[w] = [text |-> w, enabled |-> TRUE, version |-> 1]
  BY <1>1 DEF LoadPolicy
<1>3. CASE Served(policies)[target[w]] # NoRow /\ loaded'[w] = policies[target[w]]
  <2>1. policies[target[w]] # NoRow /\ policies[target[w]] \in Row
    BY <1>1, <1>3 DEF Served, ControlTypeOK
  <2> QED  BY <1>1, <1>3, <2>1 DEF TrailInv, CacheTrailsDatabase, NotAhead
<1>4. CASE loaded'[w] = [text |-> w, enabled |-> TRUE, version |-> 1]
  <2>1. dbPolicies[target[w]] # NoRow => dbPolicies[target[w]].version \in 1..(Cardinality(Writers) + 1)
    BY <1>1 DEF ControlTypeOK, Row
  <2>2. 1 \in 1..(Cardinality(Writers) + 1)
    BY UpdatesAreCounted
  <2> QED  BY <1>4, <2>1, <2>2 DEF NoNewer, Row
<1> QED  BY <1>2, <1>3, <1>4

LEMMA WritersTrail ==
  ASSUME ControlTypeOK, TrailInv, NEW w \in Writers,
         LoadPolicy(w) \/ UpdateFails(w) \/ UpdateCache(w)
         \/ (writer' = [writer EXCEPT ![w] = "dropped"]
             /\ UNCHANGED <<target, loaded, dbVars, cacheVars, refreshVars, createVars>>)
  PROVE  TrailInv'
<1>0. UNCHANGED <<target, dbPolicies, dbTenants, refreshVars, createVars, tenants>>
  BY DEF LoadPolicy, UpdateFails, UpdateCache, dbVars, cacheVars
<1>1. \A v \in Writers \ {w} : writer'[v] = writer[v] /\ loaded'[v] = loaded[v]
  BY DEF LoadPolicy, UpdateFails, UpdateCache, ControlTypeOK
<1>2. writer'[w] \in {"loaded", "written"} => loaded'[w] \in Row /\ NoNewer(loaded'[w], target[w])
  BY LoadedTrails DEF LoadPolicy, UpdateFails, UpdateCache, ControlTypeOK
<1>3. \A p \in Policies : NotAhead(policies'[p], p)
  <2>1. \A p \in Policies : policies'[p] = policies[p]
                            \/ (writer[w] = "written" /\ p = target[w] /\ policies'[p] = loaded[w])
    BY DEF LoadPolicy, UpdateFails, UpdateCache, ControlTypeOK, cacheVars
  <2> QED  BY <2>1 DEF TrailInv, CacheTrailsDatabase, NotAhead
<1> QED  BY <1>0, <1>1, <1>2, <1>3 DEF TrailInv, CacheTrailsDatabase, NotAhead, NoNewer, refreshVars, createVars

(* The UPDATE counts up, so what was not ahead of the row is not afterwards. *)
LEMMA UpdateTrails ==
  ASSUME ControlInv, TrailInv, NEW w \in Writers, UpdateDatabase(w)
  PROVE  TrailInv'
<1>0. ControlTypeOK /\ UNCHANGED <<target, dbTenants, cacheVars, refreshVars, createVars>> /\ writer[w] = "loaded"
  BY DEF ControlInv, UpdateDatabase
<1>1. \A p \in Policies : \/ dbPolicies'[p] = dbPolicies[p]
                          \/ dbPolicies[p] # NoRow /\ dbPolicies'[p].version = dbPolicies[p].version + 1
  BY <1>0 DEF UpdateDatabase, ControlTypeOK
<1>2. \A p \in Policies : dbPolicies[p] # NoRow => dbPolicies[p].version \in Int
  BY <1>0 DEF ControlTypeOK, Row
<1>3. \A p \in Policies, row \in Row : NoNewer(row, p) => NoNewer(row, p)'
  <2> SUFFICES ASSUME NEW p \in Policies, NEW row \in Row, NoNewer(row, p), dbPolicies'[p] # NoRow
               PROVE  row.version <= dbPolicies'[p].version
    BY DEF NoNewer
  <2>1. row.version \in Int
    BY DEF Row
  <2>2. CASE dbPolicies'[p] = dbPolicies[p]
    BY <2>2 DEF NoNewer
  <2>3. CASE dbPolicies[p] # NoRow /\ dbPolicies'[p].version = dbPolicies[p].version + 1
    BY <1>2, <2>1, <2>3 DEF NoNewer
  <2> QED  BY <1>1, <2>2, <2>3
<1>4. \A p \in Policies, row \in Row \union {NoRow} : NotAhead(row, p) => NotAhead(row, p)'
  BY <1>3 DEF NotAhead
<1>5. loaded[w] \in Row /\ loaded'[w] \in Row /\ loaded'[w].version = loaded[w].version
  <2>1. loaded[w] \in Row /\ loaded \in [Writers -> Row \union {NoRow}]
    BY <1>0 DEF ControlInv, ControlTypeOK
  <2>2. PICK on \in BOOLEAN : loaded' = [loaded EXCEPT ![w].text = w, ![w].enabled = on]
    BY DEF UpdateDatabase
  <2>3. loaded'[w] = [loaded[w] EXCEPT !.text = w, !.enabled = on]
    BY <2>1, <2>2
  <2>4. [loaded[w] EXCEPT !.text = w, !.enabled = on] \in Row
        /\ [loaded[w] EXCEPT !.text = w, !.enabled = on].version = loaded[w].version
    BY <2>1 DEF Row
  <2> QED  BY <2>1, <2>3, <2>4
<1>6. \A v \in Writers \ {w} : writer'[v] = writer[v] /\ loaded'[v] = loaded[v]
  BY <1>0 DEF UpdateDatabase, ControlTypeOK
<1>7. \A v \in Writers : writer'[v] \in {"loaded", "written"} =>
        loaded'[v] \in Row /\ NoNewer(loaded'[v], target[v]) /\ target[v] \in Policies
  BY <1>0, <1>5, <1>6 DEF TrailInv, NoNewer, ControlTypeOK
<1>8. \A v \in Writers : writer'[v] \in {"loaded", "written"} =>
        loaded'[v] \in Row /\ NoNewer(loaded[v], target[v])'
  BY <1>0, <1>3, <1>7 DEF NoNewer
<1>9. \A p \in Policies : NotAhead(policies[p], p)'
  BY <1>0, <1>4 DEF TrailInv, CacheTrailsDatabase, ControlTypeOK, cacheVars, NotAhead, NoNewer
<1>10. \A r \in Refreshers : /\ fetchedTenants'[r] \subseteq dbTenants'
                             /\ \A p \in Policies : NotAhead(fetchedPolicies[r][p], p)'
  BY <1>0, <1>4 DEF TrailInv, ControlTypeOK, refreshVars, NotAhead, NoNewer
<1> QED  BY <1>0, <1>8, <1>9, <1>10 DEF TrailInv, CacheTrailsDatabase, cacheVars, createVars

(* A creation writes the database first.                                     *)
LEMMA CreatorsTrail ==
  ASSUME ControlTypeOK, TrailInv, NEW c \in Creators,
         \/ CreateInDatabase(c) \/ CreateInCache(c)
         \/ creator' = [creator EXCEPT ![c] = "dropped"] /\ UNCHANGED <<wanted, dbVars, cacheVars, refreshVars, writeVars>>
  PROVE  TrailInv'
<1>0. UNCHANGED <<wanted, dbPolicies, policies, refreshVars, writeVars>> /\ dbTenants \subseteq dbTenants'
  BY DEF CreateInDatabase, CreateInCache, dbVars, cacheVars
<1>1. \A d \in Creators \ {c} : creator'[d] = creator[d]
  BY DEF CreateInDatabase, CreateInCache, ControlTypeOK
<1>2. creator'[c] = "written" => wanted[c] \in dbTenants'
  BY DEF CreateInDatabase, CreateInCache, ControlTypeOK
<1>3. tenants' \subseteq dbTenants' \union {Default}
  BY <1>0 DEF CreateInDatabase, CreateInCache, TrailInv, CacheTrailsDatabase, dbVars, cacheVars
<1>4. \A d \in Creators : creator'[d] = "written" => wanted'[d] \in dbTenants'
  BY <1>0, <1>1, <1>2 DEF TrailInv
<1> QED  BY <1>0, <1>3, <1>4 DEF TrailInv, CacheTrailsDatabase, NotAhead, NoNewer, refreshVars, writeVars

(* What is never ahead of the database, for any policy that has a row.       *)
LEMMA TrailAlways == ControlSpec => []TrailInv
<1>1. ControlInit => TrailInv
  <2> SUFFICES ASSUME ControlInit PROVE TrailInv
    OBVIOUS
  <2>1. \A p \in Policies : NotAhead(NoPolicies[p], p)
    BY DEF NoPolicies, NotAhead
  <2> QED  BY <2>1 DEF ControlInit, TrailInv, CacheTrailsDatabase
<1>2. ControlInv /\ TrailInv /\ [ControlNext]_controlVars => TrailInv'
  <2> SUFFICES ASSUME ControlInv, TrailInv, [ControlNext]_controlVars PROVE TrailInv'
    OBVIOUS
  <2>0. ControlTypeOK
    BY DEF ControlInv
  <2>1. CASE UNCHANGED controlVars
    BY <2>1 DEF controlVars, dbVars, cacheVars, refreshVars, writeVars, createVars,
                TrailInv, CacheTrailsDatabase, NotAhead, NoNewer
  <2>2. CASE Drop
    BY <2>0, <2>2, WritersTrail, CreatorsTrail DEF Drop
  <2> QED  BY <2>0, <2>1, <2>2, RefreshTrails, WritersTrail, UpdateTrails, CreatorsTrail DEF ControlNext
<1> QED  BY <1>1, <1>2, ControlAlways, PTL DEF ControlSpec

(* What is under way for a policy without a row: nothing is fetched, and     *)
(* what is loaded is of version 1 and, once updated, its writer's.           *)
RowlessInv ==
  \A p \in Policies : dbPolicies[p] = NoRow =>
    /\ policies[p] # NoRow => Unsaved(policies[p], p)
    /\ \A r \in Refreshers : fetchedPolicies[r][p] = NoRow
    /\ \A w \in Writers : target[w] = p /\ writer[w] \in {"loaded", "written"} =>
         loaded[w].version = 1 /\ (writer[w] = "written" => loaded[w].text = w)

(* Nobody but a writer changes a writer, ...                                 *)
LEMMA OthersKeepRowless ==
  ASSUME ControlTypeOK, RowlessInv, UNCHANGED writeVars,
         \A p \in Policies : dbPolicies'[p] = NoRow => dbPolicies[p] = NoRow,
         \A p \in Policies : dbPolicies[p] = NoRow => policies'[p] \in {NoRow, policies[p]},
         \A p \in Policies, r \in Refreshers : dbPolicies[p] = NoRow => fetchedPolicies'[r][p] = NoRow
  PROVE  RowlessInv'
BY DEF RowlessInv, Unsaved, writeVars

LEMMA RefreshKeepsRowless ==
  ASSUME ControlTypeOK, RowlessInv, NEW r \in Refreshers,
         FetchTenants(r) \/ FetchPolicies(r) \/ FetchFails(r) \/ Store(r)
  PROVE  RowlessInv'
<1>1. UNCHANGED writeVars /\ dbPolicies' = dbPolicies
  BY DEF FetchTenants, FetchPolicies, FetchFails, Store, StoreTenants, StorePolicies, dbVars
<1>2. policies' \in {policies, fetchedPolicies[r]}
  BY DEF FetchTenants, FetchPolicies, FetchFails, Store, StoreTenants, StorePolicies, cacheVars
<1>3. \A s \in Refreshers : fetchedPolicies'[s] \in {fetchedPolicies[s], Served(dbPolicies), NoPolicies}
  BY DEF FetchTenants, FetchPolicies, FetchFails, Store, StoreTenants, StorePolicies, EndRefresh, ControlTypeOK
<1>4. \A p \in Policies : dbPolicies[p] = NoRow => Served(dbPolicies)[p] = NoRow /\ NoPolicies[p] = NoRow
  BY DEF Served, NoPolicies
<1>5. \A p \in Policies : dbPolicies[p] = NoRow => policies'[p] \in {NoRow, policies[p]}
  BY <1>2 DEF RowlessInv
<1>6. \A p \in Policies, s \in Refreshers : dbPolicies[p] = NoRow => fetchedPolicies'[s][p] = NoRow
  BY <1>3, <1>4 DEF RowlessInv
<1> QED  BY <1>1, <1>5, <1>6, OthersKeepRowless

(* ... and a writer keeps who has updated before it.                         *)
LEMMA WriterKeepsRowless ==
  ASSUME ControlTypeOK, RowlessInv, NEW w \in Writers,
         UNCHANGED <<target, fetchedPolicies>>,
         \A v \in Writers \ {w} : writer'[v] = writer[v] /\ loaded'[v] = loaded[v],
         writer[w] # "ok",
         \A p \in Policies : dbPolicies'[p] = NoRow => dbPolicies[p] = NoRow,
         \A p \in Policies : dbPolicies[p] = NoRow =>
           policies'[p] \in {NoRow, policies[p]}
           \/ (target[w] = p /\ writer'[w] = "ok" /\ policies'[p].version = 1 /\ policies'[p].text = w),
         dbPolicies[target[w]] = NoRow /\ writer'[w] \in {"loaded", "written"} =>
           loaded'[w].version = 1 /\ (writer'[w] = "written" => loaded'[w].text = w)
  PROVE  RowlessInv'
<1> SUFFICES ASSUME NEW p \in Policies, dbPolicies'[p] = NoRow
    PROVE  /\ policies'[p] # NoRow => Unsaved(policies[p], p)'
           /\ \A r \in Refreshers : fetchedPolicies'[r][p] = NoRow
           /\ \A v \in Writers : target'[v] = p /\ writer'[v] \in {"loaded", "written"} =>
                loaded'[v].version = 1 /\ (writer'[v] = "written" => loaded'[v].text = v)
  BY DEF RowlessInv
<1>1. dbPolicies[p] = NoRow
  OBVIOUS
<1>2. ASSUME policies'[p] # NoRow PROVE Unsaved(policies[p], p)'
  <2>1. CASE policies'[p] = policies[p]
    <3>1. policies[p].version = 1
          /\ \E v \in Writers : writer[v] = "ok" /\ target[v] = p /\ policies[p].text = v
      BY <1>1, <1>2, <2>1 DEF RowlessInv, Unsaved
    <3> QED  BY <2>1, <3>1 DEF Unsaved
  <2>2. CASE target[w] = p /\ writer'[w] = "ok" /\ policies'[p].version = 1 /\ policies'[p].text = w
    BY <2>2 DEF Unsaved
  <2> QED  BY <1>1, <1>2, <2>1, <2>2
<1>3. \A r \in Refreshers : fetchedPolicies'[r][p] = NoRow
  BY <1>1 DEF RowlessInv
<1>4. ASSUME NEW v \in Writers, target'[v] = p, writer'[v] \in {"loaded", "written"}
      PROVE  loaded'[v].version = 1 /\ (writer'[v] = "written" => loaded'[v].text = v)
  BY <1>1, <1>4 DEF RowlessInv
<1> QED  BY <1>2, <1>3, <1>4

LEMMA WritersKeepRowless ==
  ASSUME ControlInv, RowlessInv, NEW w \in Writers,
         LoadPolicy(w) \/ UpdateDatabase(w) \/ UpdateFails(w) \/ UpdateCache(w)
         \/ (writer[w] = "written" /\ writer' = [writer EXCEPT ![w] = "dropped"]
             /\ UNCHANGED <<target, loaded, dbVars, cacheVars, refreshVars, createVars>>)
  PROVE  RowlessInv'
<1>0. ControlTypeOK
  BY DEF ControlInv
<1>1. UNCHANGED <<target, fetchedPolicies>> /\ writer[w] # "ok"
  BY DEF LoadPolicy, UpdateDatabase, UpdateFails, UpdateCache, refreshVars
<1>2. \A v \in Writers \ {w} : writer'[v] = writer[v] /\ loaded'[v] = loaded[v]
  BY <1>0 DEF LoadPolicy, UpdateDatabase, UpdateFails, UpdateCache, ControlTypeOK
<1>3. \A p \in Policies : dbPolicies'[p] = NoRow => dbPolicies[p] = NoRow
  <2>1. ASSUME NEW p \in Policies, UpdateDatabase(w), dbPolicies[p] # NoRow PROVE dbPolicies'[p] # NoRow
    <3>1. PICK on \in BOOLEAN : dbPolicies' = [dbPolicies EXCEPT ![target[w]] =
            IF @ = NoRow THEN NoRow ELSE [text |-> w, enabled |-> on, version |-> @.version + 1]]
      BY <2>1 DEF UpdateDatabase
    <3>2. dbPolicies[p] \in Row /\ dbPolicies[p].version + 1 \in Nat
      BY <1>0, <2>1 DEF ControlTypeOK, Row
    <3>3. [text |-> w, enabled |-> on, version |-> dbPolicies[p].version + 1] # NoRow
      BY <3>2, ControlAssumption
    <3>4. dbPolicies'[p] \in {dbPolicies[p], [text |-> w, enabled |-> on, version |-> dbPolicies[p].version + 1]}
      BY <1>0, <2>1, <3>1 DEF ControlTypeOK
    <3> QED  BY <2>1, <3>3, <3>4
  <2>2. ~UpdateDatabase(w) => dbPolicies' = dbPolicies
    BY DEF LoadPolicy, UpdateFails, UpdateCache, dbVars
  <2> QED  BY <2>1, <2>2
<1>4. \A p \in Policies : dbPolicies[p] = NoRow =>
        policies'[p] \in {NoRow, policies[p]}
        \/ (target[w] = p /\ writer'[w] = "ok" /\ policies'[p].version = 1 /\ policies'[p].text = w)
  BY <1>0 DEF LoadPolicy, UpdateDatabase, UpdateFails, UpdateCache, ControlTypeOK, cacheVars, RowlessInv
<1>5. ASSUME dbPolicies[target[w]] = NoRow, writer'[w] \in {"loaded", "written"}
      PROVE  loaded'[w].version = 1 /\ (writer'[w] = "written" => loaded'[w].text = w)
  <2>1. target[w] \in Policies /\ loaded \in [Writers -> Row \union {NoRow}]
    BY <1>0 DEF ControlTypeOK
  <2>2. CASE LoadPolicy(w)
    <3>1. writer'[w] = "loaded"
      BY <1>0, <2>2 DEF LoadPolicy, ControlTypeOK
    <3>2. CASE Served(policies)[target[w]] # NoRow /\ loaded'[w] = policies[target[w]]
      <4>1. policies[target[w]] # NoRow
        BY <2>1, <3>2 DEF Served
      <4> QED  BY <1>5, <2>1, <3>1, <3>2, <4>1 DEF RowlessInv, Unsaved
    <3>3. CASE loaded'[w] = [text |-> w, enabled |-> TRUE, version |-> 1]
      BY <3>1, <3>3
    <3> QED  BY <2>1, <2>2, <3>2, <3>3 DEF LoadPolicy
  <2>3. CASE UpdateDatabase(w)
    <3>1. loaded[w].version = 1
      BY <1>5, <2>1, <2>3 DEF UpdateDatabase, RowlessInv
    <3>2. PICK on \in BOOLEAN : loaded' = [loaded EXCEPT ![w].text = w, ![w].enabled = on]
      BY <2>3 DEF UpdateDatabase
    <3>3. loaded'[w] = [loaded[w] EXCEPT !.text = w, !.enabled = on]
      BY <2>1, <3>2
    <3>4. loaded[w] \in Row
      BY <2>3 DEF UpdateDatabase, ControlInv
    <3> QED  BY <3>1, <3>3, <3>4 DEF Row
  <2>4. CASE ~LoadPolicy(w) /\ ~UpdateDatabase(w)
    BY <1>0, <1>5, <2>4 DEF UpdateFails, UpdateCache, ControlTypeOK
  <2> QED  BY <2>2, <2>3, <2>4
<1> QED  BY <1>0, <1>1, <1>2, <1>3, <1>4, <1>5, WriterKeepsRowless

(* What is served was in the database, or is an update that was not saved:   *)
(* however stale fetches, updates, dropped calls and creations overlap, the  *)
(* cache tells of no version and no tenant that the database did not have,   *)
(* if the policy has a row; and of a policy without one it serves only the   *)
(* text of an update that reported success.  (refresh_cache stores what it   *)
(* fetched; update_policy and create_tenant write the database first, and    *)
(* update_policy does not look how many rows the UPDATE touched)             *)
THEOREM EntriesAreBacked == ControlSpec => []CacheIsBacked
<1>1. ControlInit => RowlessInv
  BY DEF ControlInit, RowlessInv, NoPolicies
<1>2. ControlInv /\ RowlessInv /\ [ControlNext]_controlVars => RowlessInv'
  <2> SUFFICES ASSUME ControlInv, RowlessInv, [ControlNext]_controlVars PROVE RowlessInv'
    OBVIOUS
  <2>0. ControlTypeOK
    BY DEF ControlInv
  <2>1. CASE UNCHANGED <<dbPolicies, policies, refreshVars, writeVars>>
    BY <2>1 DEF RowlessInv, Unsaved, refreshVars, writeVars
  <2>2. CASE UNCHANGED controlVars
    BY <2>1, <2>2 DEF controlVars, dbVars, cacheVars
  <2>3. ASSUME NEW c \in Creators, CreateInDatabase(c) \/ CreateInCache(c) PROVE RowlessInv'
    BY <2>1, <2>3 DEF CreateInDatabase, CreateInCache, dbVars, cacheVars
  <2>4. CASE Drop
    BY <2>1, <2>4, WritersKeepRowless DEF Drop, dbVars, cacheVars
  <2> QED  BY <2>0, <2>2, <2>3, <2>4, RefreshKeepsRowless, WritersKeepRowless DEF ControlNext
<1>3. TrailInv /\ RowlessInv => CacheIsBacked
  BY DEF TrailInv, RowlessInv, CacheIsBacked
<1> QED  BY <1>1, <1>2, <1>3, TrailAlways, ControlAlways, PTL DEF ControlSpec

-----------------------------------------------------------------------------
(* The two services beside each other: a step of one is none of the        *)
(* other's, so that each keeps what is proved of it alone.                 *)
THEOREM ServicesTypes ==
  ServicesSpec => [](ServicesTypeOK /\ EveryProducerTried /\ VersionsCountUpdates)
<1>1. [ServicesNext]_ServicesVars => [AuditNext]_auditVars
  BY DEF ServicesNext, ServicesVars, auditVars, controlVars
<1>2. [ServicesNext]_ServicesVars => [ControlNext]_controlVars
  BY DEF ServicesNext, ServicesVars, auditVars, controlVars
<1>3. ServicesInit => AuditInit /\ ControlInit
  BY DEF ServicesInit
<1>4. AuditInv /\ ControlInv => ServicesTypeOK /\ EveryProducerTried /\ VersionsCountUpdates
  BY AuditPromises DEF ControlInv, ServicesTypeOK
<1> QED  BY <1>1, <1>2, <1>3, <1>4, AuditAlways, ControlAlways, PTL DEF ServicesSpec
=============================================================================
