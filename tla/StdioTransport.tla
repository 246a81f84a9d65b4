--------------------------- MODULE StdioTransport ---------------------------
(***************************************************************************)
(* The stdio transport (src/transport/stdio.rs): one loop that reads a     *)
(* line, gives it to the router, writes the answer, and only then reads    *)
(* the next.  Its three awaits are the places where it waits.              *)
(***************************************************************************)
EXTENDS JsonRpc

CONSTANTS
  Lines,        \* bodies a client may write on a line
  Blank,        \* a line of white space
  MaxLines      \* bound: lines the client writes

ASSUME StdioAssumption == Lines \subseteq Body /\ Blank \notin Body /\ MaxLines \in Nat

VARIABLES
  input,        \* the lines written to stdin so far
  closed,       \* the client closed stdin
  next,         \* the line that is read next, or is being handled
  stage,        \* where the loop waits
  answer,       \* the id of the answer it writes
  output,       \* what was written to stdout: the answer, and history: its line
  silent        \* history: lines whose failure was taken for a notification's

stdioVars == <<input, closed, next, stage, answer, output, silent>>

StdioInit ==
  /\ input = <<>> /\ closed = FALSE
  /\ next = 1 /\ stage = "reading" /\ answer = NoId
  /\ output = <<>> /\ silent = {}

(* The client writes a line, or closes its end. *)
Type(b) ==
  /\ ~closed /\ Len(input) < MaxLines
  /\ input' = Append(input, b)
  /\ UNCHANGED <<closed, next, stage, answer, output, silent>>

CloseStdin ==
  /\ ~closed /\ closed' = TRUE
  /\ UNCHANGED <<input, next, stage, answer, output, silent>>

(* Slip: a line that does not parse is only logged. *)
ReadLineQuietly ==
  /\ stage = "reading" /\ next <= Len(input)
  /\ LET b == input[next] IN
     \/ b # Blank /\ b.form = "bytes" /\ stage' = "ended" /\ UNCHANGED next
     \/ b = Blank /\ next' = next + 1 /\ UNCHANGED stage
     \/ b # Blank /\ b.form # "bytes" /\ ~Parses(b) /\ next' = next + 1 /\ UNCHANGED stage
     \/ b # Blank /\ Parses(b) /\ stage' = "routing" /\ UNCHANGED next
  /\ UNCHANGED <<input, closed, answer, output, silent>>

(* read_line and the parsing: bytes that are no UTF-8 end the transport, a  *)
(* blank line is skipped, any other line that does not parse is answered    *)
(* with a parse error.                                                      *)
ReadLine ==
  /\ stage = "reading" /\ next <= Len(input)
  /\ LET b == input[next] IN
     \/ b = Blank /\ next' = next + 1 /\ UNCHANGED <<stage, answer>>
     \/ b # Blank /\ b.form = "bytes" /\ stage' = "ended" /\ UNCHANGED <<next, answer>>
     \/ /\ b # Blank /\ b.form # "bytes" /\ ~Parses(b)
        /\ stage' = "writing" /\ answer' = NullId /\ UNCHANGED next
     \/ b # Blank /\ Parses(b) /\ stage' = "routing" /\ UNCHANGED <<next, answer>>
  /\ UNCHANGED <<input, closed, output, silent>>

EndOfInput ==
  /\ stage = "reading" /\ next > Len(input) /\ closed
  /\ stage' = "ended"
  /\ UNCHANGED <<input, closed, next, answer, output, silent>>

(* Slip: the loop waits for an answer also when there will be none.         *)
RouterReturnsAnswers ==
  /\ stage = "routing"
  /\ \E result \in Results(input[next]) :
       /\ result.ok \/ ~result.says
       /\ stage' = "writing" /\ answer' = result.id
  /\ UNCHANGED <<input, closed, next, output, silent>>

(* handle_message returns: a failure that says "notification" is answered   *)
(* with nothing, any other with an error that has no id.                    *)
RouterReturns ==
  /\ stage = "routing"
  /\ \E result \in Results(input[next]) :
       \/ /\ result.ok \/ ~result.says
          /\ stage' = "writing" /\ answer' = result.id
          /\ UNCHANGED <<next, silent>>
       \/ /\ ~result.ok /\ result.says
          /\ stage' = "reading" /\ next' = next + 1 /\ silent' = silent \union {next}
          /\ UNCHANGED answer
  /\ UNCHANGED <<input, closed, output>>

(* write_message: the answer is on stdout, or the transport ends.           *)
WriteMessage ==
  /\ stage = "writing"
  /\ \/ /\ output' = Append(output, [line |-> next, id |-> answer])
        /\ stage' = "reading" /\ next' = next + 1
     \/ stage' = "ended" /\ UNCHANGED <<output, next>>
  /\ UNCHANGED <<input, closed, answer, silent>>

Loop == ReadLine \/ EndOfInput \/ RouterReturns \/ WriteMessage

-----------------------------------------------------------------------------
(* A line that is silent for a reason: it is a notification or a response,   *)
(* or its error quotes a word that makes it look like a notification.        *)
MayBeSilent(line) ==
  LET m == Messages(line)[1] IN
  m.kind # "Request" \/ m.names \/ m.method = "notifications/initialized"

(* Answers come in the order of their lines, and every line that was taken  *)
(* has exactly one, a parse error if it is nothing else, unless it is blank *)
(* or may be silent; a request that the gateway answers itself never gets   *)
(* the id of another line.  (the loop of run)                               *)
OneAnswerPerLine ==
  /\ \A i, j \in DOMAIN output : i < j => output[i].line < output[j].line
  /\ \A n \in 1..(next - 1) :
       \/ input[n] = Blank
       \/ n \in silent /\ Parses(input[n]) /\ MayBeSilent(input[n])
       \/ \E i \in DOMAIN output : output[i].line = n
  /\ \A i \in DOMAIN output :
       LET line == input[output[i].line] IN
       /\ line # Blank /\ output[i].line \notin silent
       /\ (Parses(line) /\ Messages(line)[1].method \in AnsweredHere) =>
            output[i].id \in {Messages(line)[1].id, NullId}
=============================================================================
