--------------------------- MODULE EgressInspector ---------------------------
(***************************************************************************)
(* The pattern-based egress inspector (src/guardrail/egress.rs) and what    *)
(* the router does with its findings before it returns a tool's result      *)
(* (src/gateway/router.rs).                                                 *)
(*                                                                         *)
(* A text is a sequence of words, or of characters: nothing here tells them *)
(* apart.  A pattern is the set of all texts that it matches, so one with a *)
(* class repeated, as the default ones for comments and addresses have, may *)
(* match across what was put in the place of something else.                *)
(***************************************************************************)
EXTENDS Naturals, Sequences

CONSTANTS
  Words,        \* what texts are made of
  Texts,        \* texts an upstream may send
  Patterns,     \* the inspector's patterns, in order
  Replacement,  \* the text put in the place of a match; it may have any pattern
  MaxBlocks     \* bound: content blocks of a result

(* No pattern matches the empty text, as none of the default ones does.     *)
ASSUME EgressAssumption ==
  /\ MaxBlocks \in Nat
  /\ Texts \subseteq Seq(Words)
  /\ Replacement \in Seq(Words)
  /\ Patterns \in Seq(SUBSET (Seq(Words) \ {<<>>}))

(* A word of a text on its way.  mark is history, read by no step: "new" is *)
(* a word of a replacement, "own" one of the upstream that follows the one  *)
(* it followed in the original, "cut" one before which something was.       *)
Cell == [word : Words, mark : {"own", "cut", "new"}]

Marked(words, mark) == [n \in DOMAIN words |-> [word |-> words[n], mark |-> mark]]

(* A block is an object with a text, a bare string, or neither.             *)
Block == [form : {"object", "string", "other"}, text : {Marked(words, "own") : words \in Texts}]

(* A result has its blocks in a `content` array, or has a `content` that is *)
(* no array, or none: then it is inspected itself, as one block.            *)
Contents == UNION {[1..n -> Block] : n \in 0..MaxBlocks}
Results ==
  [shape : {"array"}, content : Contents] \union [shape : {"none"}, content : [{1} -> Block]]
    \union [shape : {"scalar"}, content : [{1} -> {b \in Block : b.form # "string"}]]

VARIABLES
  result,       \* the upstream's result
  done,         \* blocks that were inspected
  sanitized,    \* sanitized_content
  modified,     \* something was found
  returned      \* what the client gets; history: the blocks and where they are

egressVars == <<result, done, sanitized, modified, returned>>

NotYet == [place |-> "nowhere", content |-> <<>>]

EgressInit ==
  /\ result \in Results
  /\ done = 0 /\ sanitized = <<>> /\ modified = FALSE /\ returned = NotYet

Said(text, n, m) == [k \in 1..(m - n + 1) |-> text[n + k - 1].word]

(* Where a match that begins at n may end; a repetition takes all it can.   *)
Ends(p, text, n) == {m \in n..Len(text) : Said(text, n, m) \in p}
EndOf(p, text, n) == CHOOSE m \in Ends(p, text, n) : \A k \in Ends(p, text, n) : k <= m

Matches(p, text) == \E n \in DOMAIN text : Ends(p, text, n) # {}
Found(text) == \E i \in DOMAIN Patterns : Matches(Patterns[i], text)

AfterCut(text) ==
  [n \in DOMAIN text |-> IF n = 1 /\ text[n].mark = "own" THEN [text[n] EXCEPT !.mark = "cut"] ELSE text[n]]

(* What replace_all leaves of a text and how many matches find_iter has:    *)
(* both go over the same ones, from left to right, without overlaps.        *)
ReplaceAll(p, text) ==
  LET from[n \in 1..(Len(text) + 1)] ==
        IF n > Len(text) THEN [left |-> <<>>, found |-> 0]
        ELSE IF Ends(p, text, n) = {}
          THEN [left |-> <<text[n]>> \o from[n + 1].left, found |-> from[n + 1].found]
          ELSE [left |-> Marked(Replacement, "new") \o AfterCut(from[EndOf(p, text, n) + 1].left),
                found |-> from[EndOf(p, text, n) + 1].found + 1]
  IN from[1]

MatchCount(p, text) == ReplaceAll(p, text).found
Redacted(p, text) == ReplaceAll(p, text).left

RedactedTimes(p, text, times) ==
  LET again[k \in 0..times] == IF k = 0 THEN text ELSE Redacted(p, again[k - 1])
  IN again[times]

(* Slip: every pattern starts again from the original text. *)
InspectTextAfresh(text) ==
  LET after[i \in 0..Len(Patterns)] ==
        IF i = 0 THEN text
        ELSE IF Matches(Patterns[i], text) THEN RedactedTimes(Patterns[i], text, MatchCount(Patterns[i], text))
        ELSE after[i - 1]
  IN after[Len(Patterns)]

(* inspect_text: each pattern is looked for in the original text and, once  *)
(* for every match found there, replaced in what is left of it by then.     *)
InspectText(text) ==
  LET after[i \in 0..Len(Patterns)] ==
        IF i = 0 THEN text
        ELSE RedactedTimes(Patterns[i], after[i - 1], MatchCount(Patterns[i], text))
  IN after[Len(Patterns)]

Current == result.content[done + 1]

(* Slip: the last block decides. *)
InspectBlockForgetting ==
  /\ returned = NotYet /\ done < Len(result.content)
  /\ done' = done + 1
  /\ sanitized' = Append(sanitized, IF Current.form = "object" THEN [Current EXCEPT !.text = InspectText(@)] ELSE Current)
  /\ modified' = (Current.form # "other" /\ Found(Current.text))
  /\ UNCHANGED <<result, returned>>

(* sanitize_response, one block.  The text of a string is inspected, but    *)
(* only a `text` field is rewritten.                                        *)
InspectBlock ==
  /\ returned = NotYet /\ done < Len(result.content)
  /\ done' = done + 1
  /\ sanitized' = Append(sanitized, IF Current.form = "object" THEN [Current EXCEPT !.text = InspectText(@)] ELSE Current)
  /\ modified' = (modified \/ (Current.form # "other" /\ Found(Current.text)))
  /\ UNCHANGED <<result, returned>>

(* The router: the sanitized blocks replace a `content` field, if something *)
(* was found and there is one.                                              *)
Return ==
  /\ returned = NotYet /\ done = Len(result.content)
  /\ returned' = IF modified /\ result.shape # "none"
                 THEN [place |-> "content", content |-> sanitized]
                 ELSE [place |-> IF result.shape = "array" THEN "content" ELSE "result",
                       content |-> result.content]
  /\ UNCHANGED <<result, done, sanitized, modified>>

EgressNext == InspectBlock \/ Return

EgressSpec == EgressInit /\ [][EgressNext]_egressVars

-----------------------------------------------------------------------------
(* Types; blocks stay in their places, and what is no text stays as it was. *)
EgressTypeOK ==
  /\ result \in Results
  /\ done \in 0..Len(result.content) /\ Len(sanitized) = done
  /\ \A n \in 1..done :
       LET b == result.content[n] IN
       /\ sanitized[n].form = b.form
       /\ (b.form = "object" => ~Found(b.text)) => sanitized[n] = b
  /\ modified \in BOOLEAN
  /\ returned.place \in {"nowhere", "content", "result"}

(* From a to b a text is as the upstream wrote it: nothing was put in or    *)
(* taken out in between.                                                    *)
Stretch(text, a, b) == text[a].mark # "new" /\ \A k \in (a + 1)..b : text[k].mark = "own"

(* No match the upstream wrote is left whole, although each pattern is      *)
(* looked for in the original and replaced in another text, in which        *)
(* earlier ones have cut pieces out and put words in: whatever is left of   *)
(* a pattern runs over a place where something was replaced.                *)
(* (the two texts of inspect_text)                                          *)
NoMatchIsLeftWhole ==
  \A n \in 1..done : sanitized[n].form = "object" =>
    LET text == sanitized[n].text IN
    \A i \in DOMAIN Patterns : \A a \in DOMAIN text :
      \A b \in Ends(Patterns[i], text, a) : ~Stretch(text, a, b)

(* What the documentation says the inspector does with the patterns it      *)
(* knows, "detects and sanitizes such payloads": none is left in a text     *)
(* that was rewritten.  A replacement may complete one that the original    *)
(* did not have, and it is then looked for nowhere.                         *)
(* (inspect_text; guardrail/egress.rs:16)                                   *)
SanitizedTextsAreClean ==
  \A n \in 1..done : sanitized[n].form = "object" => ~Found(sanitized[n].text)

(* What the router acts on: an inspection says "modified" if and only if a  *)
(* text of the result had a pattern, in whichever block, and a result       *)
(* without any reaches the client as it is.  (modified over the loop, and   *)
(* its use in handle_tools_call)                                            *)
FindingsReachTheRouter ==
  returned # NotYet =>
    /\ modified <=> \E n \in DOMAIN result.content :
                      result.content[n].form # "other" /\ Found(result.content[n].text)
    /\ ~modified => returned.content = result.content
=============================================================================
